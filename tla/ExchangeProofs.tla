--------------------------- MODULE ExchangeProofs ---------------------------
(***************************************************************************)
(* The safety of an exchange of any protocol, for every timeout, every     *)
(* number of chunks and frames and every limit of a body: the invariants   *)
(* of its three components hold together, because the components of the    *)
(* other protocols are at rest.                                            *)
(***************************************************************************)
EXTENDS Exchange, DotRelayProofs, TransactionProofs, TLAPS

ExchangeInv == RelayInv /\ DoqInv /\ DohInv

\* A transaction that never begins is in order.
LEMMA NoTransactionIsInOrder == NoTransaction => DoqInv
<1> SUFFICES ASSUME NoTransaction PROVE DoqInv
  OBVIOUS
<1> USE MaxHalvesType, TimeoutAssumption
<1>1. DoqTypeOK
  BY DEF NoTransaction, DoqFresh, DoqTypeOK, Ends
<1>2. Progress /\ Outcome
  BY DEF NoTransaction, DoqFresh, Progress, Outcome, Ends, InTransaction
<1>3. OneWholeQuery /\ AnswersAreRelayed
  BY DEF NoTransaction, DoqFresh, OneWholeQuery, AnswersAreRelayed, Ends, Whole
<1> QED BY <1>1, <1>2, <1>3 DEF DoqInv

\* A request that never begins is in order.
LEMMA NoRequestIsInOrder ==
    ASSUME NoRequest, protocol \in {"dot", "doq"}
    PROVE  DohInv
<1>1. request \in Requests
  BY DEF NoRequest, Requests, FlawsOf
<1>2. DohTypeOK
  BY <1>1, DohAssumption, FreshTimer DEF NoRequest, DohFresh, DohTypeOK, Steps
<1>3. ClientInv /\ UpstreamInv
  BY DohAssumption DEF NoRequest, DohFresh, ClientInv, UpstreamInv, Forwarding, Replying
<1>4. StatusInv /\ BlameIsRight
  BY DEF NoRequest, DohFresh, StatusInv, BlameIsRight, Replying, InRequest
<1> QED BY <1>2, <1>3, <1>4 DEF DohInv

\* Whatever the protocol, all is in order before it begins.
LEMMA ExchangeStarts == ExchangeInit => ExchangeInv
<1>1. NoRelay \/ Init => RelayInv
  BY RelayStarts DEF NoRelay, Init
<1>2. NoTransaction \/ DoqInit => DoqInv
  BY NoTransactionIsInOrder, DoqStarts
<1>3. (NoRequest /\ protocol \in {"dot", "doq"}) \/ DohInit => DohInv
  BY NoRequestIsInOrder, DohStarts
<1> QED BY <1>1, <1>2, <1>3 DEF ExchangeInit, ExchangeInv

\* A step is one of the component of its protocol, and of that alone.
LEMMA StepsAreOfComponents ==
    ASSUME [ExchangeNext]_exchangeVars
    PROVE  [Next]_vars /\ [DoqNext]_doqVars /\ [DohNext]_dohVars
<1>1. CASE ExchangeNext
  BY <1>1 DEF ExchangeNext
<1>2. CASE UNCHANGED exchangeVars
  BY <1>2 DEF exchangeVars
<1> QED BY <1>1, <1>2

\* The inductive invariant holds.
THEOREM ExchangeInvariant == ExchangeSpec => []ExchangeInv
<1>1. ExchangeInv /\ [ExchangeNext]_exchangeVars => ExchangeInv'
  BY StepsAreOfComponents, RelayInvKept, DoqStepsKeep, DohStepsKeep DEF ExchangeInv
<1> QED BY <1>1, ExchangeStarts, PTL DEF ExchangeSpec

\* Every variable has its type, whatever the bounds.
THEOREM ExchangeTypes == ExchangeSpec => []ExchangeTypeOK
<1>1. ExchangeInv => ExchangeTypeOK
  BY DEF ExchangeInv, RelayInv, DoqInv, DohInv, ExchangeTypeOK
<1> QED BY <1>1, ExchangeInvariant, PTL

\* DoT: a recorded success is a conversation that both peers ended and of which
\* nothing was lost.
THEOREM ExchangeSuccessIsComplete == ExchangeSpec => []SuccessIsComplete
<1>1. ExchangeInv => SuccessIsComplete
  BY SuccessIsKnown DEF ExchangeInv
<1> QED BY <1>1, ExchangeInvariant, PTL

\* DoQ: nothing of a query goes upstream before all of the stream was one faultless
\* frame and FIN, and no more than that ever does.
THEOREM ExchangeOneWholeQuery == ExchangeSpec => []OneWholeQuery
<1>1. ExchangeInv => OneWholeQuery
  BY DEF ExchangeInv, DoqInv
<1> QED BY <1>1, ExchangeInvariant, PTL

\* DoQ: the client has a prefix of the frames before the first that is wrong, and
\* all of a whole answer if the transaction is a success.
THEOREM ExchangeAnswersAreRelayed == ExchangeSpec => []AnswersAreRelayed
<1>1. ExchangeInv => AnswersAreRelayed
  BY DEF ExchangeInv, DoqInv
<1> QED BY <1>1, ExchangeInvariant, PTL

\* DoH over TCP and QUIC: the status tells who is at fault.
THEOREM ExchangeBlameIsRight == ExchangeSpec => []BlameIsRight
<1>1. ExchangeInv => BlameIsRight
  BY DEF ExchangeInv, DohInv
<1> QED BY <1>1, ExchangeInvariant, PTL

\* DoH over TCP and QUIC: only a whole request is forwarded, and only a whole DNS
\* message is a success.
THEOREM ExchangeOnlyAnswersCount == ExchangeSpec => []OnlyAnswersCount
<1>1. ExchangeInv => OnlyAnswersCount
  BY InvMeans DEF ExchangeInv
<1> QED BY <1>1, ExchangeInvariant, PTL

-----------------------------------------------------------------------------
\* DoT: each direction is a pipe, also beside the other protocols.
THEOREM ExchangeDirectionsArePipes == ExchangeSpec => DirectionsArePipes
<1>1. ExchangeInit => QueryPipe!Init /\ AnswerPipe!Init
  BY PipesStart DEF ExchangeInit, Init, NoRelay
<1>2. ExchangeInv /\ [ExchangeNext]_exchangeVars => [QueryPipe!Next]_QueryPipe!vars
  BY StepsAreOfComponents, QueriesArePiped DEF ExchangeInv
<1>3. ExchangeInv /\ [ExchangeNext]_exchangeVars => [AnswerPipe!Next]_AnswerPipe!vars
  BY StepsAreOfComponents, AnswersArePiped DEF ExchangeInv
<1> QED BY <1>1, <1>2, <1>3, ExchangeInvariant, PTL
        DEF ExchangeSpec, DirectionsArePipes, QueryPipe!Spec, AnswerPipe!Spec

-----------------------------------------------------------------------------
\* What a step of the relay does to its record.
LEMMA RelayIsRecordedOnce ==
    ASSUME RelayInv, Next \/ UNCHANGED vars
    PROVE  /\ recorded # "nothing" => recorded' = recorded
           /\ stage = "relay" /\ stage' # "relay" =>
                 (recorded' = "nothing" <=> stage' = "cancelled")
<1>0. stage \in {"connect", "relay"} => recorded = "nothing"
  BY DEF RelayInv, OutcomeInv
<1>1. CASE UNCHANGED vars
  BY <1>1 DEF vars
<1>2. ASSUME NEW d \in Directions, Produces(d) \/ ReadChunk(d) \/ ReadEnd(d)
             \/ WriteChunk(d) \/ Flushes(d)
      PROVE  UNCHANGED <<stage, recorded>>
  BY <1>2 DEF Produces, ReadChunk, ReadEnd, WriteChunk, Flushes
<1>3. ASSUME NEW d \in Directions, Shutdown(d)
      PROVE  /\ stage = "relay"
             /\ UNCHANGED <<stage, recorded>> \/ (stage' = "ok" /\ recorded' = "success")
  BY <1>3 DEF Shutdown, Relaying
<1>4. ASSUME NEW d \in Directions, IoError(d) \/ TimesOut(d)
      PROVE  stage = "relay" /\ stage' \in {"error", "timeout"} /\ recorded' = "failure"
  BY <1>4 DEF IoError, TimesOut, Relaying, Fails
<1>5. CASE (\E p \in Peers : Leaves(p)) \/ Tick
  BY <1>5 DEF Leaves, Tick
<1>6. CASE Connects \/ ConnectFails \/ Cancelled
  BY <1>0, <1>6 DEF Connects, ConnectFails, Cancelled
<1> QED BY <1>0, <1>1, <1>2, <1>3, <1>4, <1>5, <1>6 DEF Next, Relay

\* Where forwarding ends, the client has, or gets, a response or an error.
Counts ==
    /\ counted' \in {"success", "failure"}
    /\ step' \in {"refuse", "reply head"} \/ status' # 0

LEMMA FailuresCount ==
    ASSUME NEW plain \in {502, 504}, NEW phrases, ForwardFails(plain, phrases)
    PROVE  Counts
<1>1. counted' = "failure" /\ Rejects(plain, "upstream", phrases \cup request.echo)
  BY DEF ForwardFails
<1>2. CASE protocol = "doh"
  <2>1. status' = plain
    BY <1>1, <1>2 DEF Rejects
  <2>2. plain # 0
    OBVIOUS
  <2> QED BY <1>1, <2>1, <2>2 DEF Counts
<1>3. CASE protocol # "doh"
  <2>1. step' = "refuse"
    BY <1>1, <1>3 DEF Rejects, StepTo
  <2> QED BY <1>1, <2>1 DEF Counts
<1> QED BY <1>2, <1>3

LEMMA AnswersCount == Forwarded(UpstreamStatus) => Counts
<1> SUFFICES ASSUME Forwarded(UpstreamStatus) PROVE Counts
  OBVIOUS
<1>1. UpstreamStatus # 0
  BY DEF UpstreamStatus
<1>2. counted' \in {"success", "failure"}
  BY DEF Forwarded
<1>3. step' = "reply head" \/ status' = UpstreamStatus
  BY DEF Forwarded, StepTo
<1> QED BY <1>1, <1>2, <1>3 DEF Counts

\* What a step of a request does to its count: it is made where forwarding ends.
LEMMA RequestIsCountedOnce ==
    ASSUME DohInv, DohNext \/ UNCHANGED dohVars
    PROVE  /\ counted # "nothing" => counted' = counted
           /\ step \in Forwarding /\ step' \notin Forwarding =>
                 (counted' = "nothing" <=> step' = "done" /\ status' = 0)
<1>0. step \in Forwarding => counted = "nothing" /\ status = 0
  BY DEF DohInv, UpstreamInv
<1>1. CASE SendFails \/ HeadFails \/ AnswerFails
  <2>1. step \in Forwarding /\ Counts
    BY <1>1, FailuresCount DEF SendFails, HeadFails, AnswerFails, Forwarding
  <2> QED BY <1>0, <2>1 DEF Counts
<1>2. CASE AnswerUnit \/ AnswerIsWhole
  <2>1. step \in Forwarding
    BY <1>2 DEF AnswerUnit, AnswerIsWhole, Forwarding
  <2>2. Counts \/ (step' = step /\ counted' = counted)
    BY <1>2, FailuresCount, AnswersCount DEF AnswerUnit, AnswerIsWhole, StepTo
  <2> QED BY <1>0, <2>1, <2>2 DEF Counts
<1>3. CASE DohTimesOut
  <2>1. CASE step \in {"body", "reply head", "reply data", "reply end"}
    BY <1>3, <2>1 DEF DohTimesOut, Forwarding
  <2>2. CASE step \notin {"body", "reply head", "reply data", "reply end"}
    <3>1. step \in Steps
      BY DEF DohInv, DohTypeOK
    <3>2. step \notin {"headers", "refuse", "done"}
      BY <1>3 DEF DohTimesOut, Timed
    <3>3. step \in Forwarding
      BY <2>2, <3>1, <3>2 DEF Forwarding, Steps
    <3>4. Counts
      BY <1>3, <2>2, FailuresCount DEF DohTimesOut
    <3> QED BY <1>0, <3>3, <3>4 DEF Counts
  <2> QED BY <2>1, <2>2
<1>4. CASE DohCancelled
  BY <1>0, <1>4 DEF DohCancelled, StepTo
<1>5. CASE SessionOpens \/ Sends \/ HeadArrives
  <2>1. step' \in Forwarding /\ counted' = counted
    BY <1>5 DEF SessionOpens, Sends, HeadArrives, StepTo, Forwarding
  <2> QED BY <2>1
<1>6. CASE Uploads \/ ClientLeaves \/ Answers \/ DohTick \/ UNCHANGED dohVars
  BY <1>6 DEF Uploads, ClientLeaves, Answers, DohTick, dohVars
<1>7. CASE \/ Begins \/ HeadersFail \/ BodyUnit \/ BodyEnds \/ BodyFails
           \/ Replies \/ ReplyFails \/ Refuses \/ RefusalFails
  <2>1. step \notin Forwarding /\ counted' = counted
    BY <1>7 DEF Begins, HeadersFail, BodyUnit, BodyEnds, BodyFails, Replies, ReplyFails,
       Refuses, RefusalFails, Forwarding
  <2> QED BY <2>1
<1> QED BY <1>1, <1>2, <1>3, <1>4, <1>5, <1>6, <1>7 DEF DohNext, DohEnds, DohReads, DohWrites

\* DoT, DoH over TCP and QUIC: the metrics have an exchange once.
THEOREM ExchangeCountedOnce == ExchangeSpec => CountedOnce
<1>1. ExchangeInv /\ [ExchangeNext]_exchangeVars =>
        [/\ recorded # "nothing" => recorded' = recorded
         /\ counted # "nothing" => counted' = counted
         /\ stage = "relay" /\ stage' # "relay" =>
               (recorded' = "nothing" <=> stage' = "cancelled")
         /\ step \in Forwarding /\ step' \notin Forwarding =>
               (counted' = "nothing" <=> step' = "done" /\ status' = 0)]_exchangeVars
  BY StepsAreOfComponents, RelayIsRecordedOnce, RequestIsCountedOnce DEF ExchangeInv
<1> QED BY <1>1, ExchangeInvariant, PTL DEF ExchangeSpec, CountedOnce

-----------------------------------------------------------------------------
\* DoQ and DoH3: refinement.  What becomes of the stream and of its connection tells
\* which step of the listener it is.
GoesOn(next, closes) ==
    /\ StreamStage # "ended" /\ StreamStage' = next
    /\ ClientIsGone' <=> ClientIsGone \/ closes
    /\ protocol' = protocol

\* The stages of a stream.
LEMMA Stages ==
    StreamStage \in {"query", "upstream", "answer", "ended", "resolve", "body", "refuse"}
<1>1. DoqStage \in {"query", "upstream", "answer", "ended"}
  BY DEF DoqStage
<1>2. H3Stage \in {"resolve", "body", "upstream", "answer", "refuse", "ended"}
  BY DEF H3Stage
<1> QED BY <1>1, <1>2 DEF StreamStage

\* Nothing is seen of the step.
LEMMA NothingHappens ==
    ASSUME StreamStage' = StreamStage, ClientIsGone' <=> ClientIsGone, protocol' = protocol
    PROVE  ListenerStep
<1>1. UNCHANGED Listener!vars
  BY DEF Listener!vars
<1> QED BY <1>1 DEF ListenerStep

\* The stream goes from stage to stage, as GoesTo has it.
LEMMA StreamGoes ==
    ASSUME NEW next, NEW closes \in BOOLEAN, GoesOn(next, closes)
    PROVE  Listener!GoesTo(Stream, next, closes)
<1>1. ~Listener!Unreferenced(Connection)'
  BY DEF Listener!Unreferenced
<1>2. Listener!LinkAfter(Connection, closes)
  BY <1>1 DEF Listener!LinkAfter, GoesOn
<1>3. [s \in {Stream} |-> StreamStage'] = [[s \in {Stream} |-> StreamStage]
                                            EXCEPT ![Stream] = next]
  BY DEF GoesOn
<1> QED BY <1>2, <1>3 DEF Listener!GoesTo, GoesOn

\* It advances.
LEMMA StreamAdvances ==
    ASSUME NEW next, GoesOn(next, FALSE), next \in Listener!Following(Stream),
           StreamStage \in {"answer", "refuse"} => ~ClientIsGone
    PROVE  ListenerStep
<1>1. Listener!GoesTo(Stream, next, FALSE)
  BY StreamGoes
<1>2. Listener!Running(Stream)
  BY Stages DEF Listener!Running, GoesOn
<1>3. Listener!ToClient(Stream) => ~ClientIsGone
  BY DEF Listener!ToClient
<1>4. Listener!Advance(Stream)
  BY <1>1, <1>2, <1>3 DEF Listener!Advance
<1> QED BY <1>4 DEF ListenerStep, Listener!Transaction

\* It fails.
LEMMA StreamFails ==
    ASSUME NEW closes \in BOOLEAN,
           \/ protocol = "doq" /\ GoesOn("ended", closes)
           \/ /\ protocol = "h3" /\ closes = FALSE
              /\ GoesOn(IF StreamStage \in {"resolve", "refuse"} THEN "ended" ELSE "refuse",
                        closes)
    PROVE  ListenerStep
<1>1. StreamStage # "ended"
  BY DEF GoesOn
<1>2. Listener!Running(Stream)
  BY <1>1, Stages DEF Listener!Running
<1>3. CASE protocol = "doq" /\ GoesOn("ended", closes)
  <2>1. Listener!GoesTo(Stream, "ended", closes)
    BY <1>3, StreamGoes
  <2>2. Listener!Fails(Stream)
    BY <1>2, <1>3, <2>1 DEF Listener!Fails
  <2> QED BY <2>2 DEF ListenerStep, Listener!Transaction
<1>4. CASE /\ protocol = "h3" /\ closes = FALSE
           /\ GoesOn(IF StreamStage \in {"resolve", "refuse"} THEN "ended" ELSE "refuse",
                     closes)
  <2> DEFINE next == IF StreamStage \in {"resolve", "refuse"} THEN "ended" ELSE "refuse"
  <2>1. Listener!GoesTo(Stream, next, FALSE)
    BY <1>4, StreamGoes
  <2>2. next = IF Listener!Untimed(Stream) THEN "ended" ELSE "refuse"
    BY DEF Listener!Untimed
  <2>3. Listener!Fails(Stream)
    BY <1>2, <1>4, <2>1, <2>2 DEF Listener!Fails
  <2> QED BY <2>3 DEF ListenerStep, Listener!Transaction
<1> QED BY <1>3, <1>4

\* It is cancelled.
LEMMA StreamIsCancelled ==
    ASSUME GoesOn("ended", FALSE),
           protocol = "h3" => StreamStage \in {"resolve", "body", "upstream"}
    PROVE  ListenerStep
<1>1. Listener!GoesTo(Stream, "ended", FALSE)
  BY StreamGoes
<1>2. Listener!Running(Stream)
  BY Stages DEF Listener!Running, GoesOn
<1>3. Listener!CancelStream(Stream)
  BY <1>1, <1>2 DEF Listener!CancelStream
<1> QED BY <1>3 DEF ListenerStep

\* The client leaves.
LEMMA ClientDisconnects ==
    ASSUME ~ClientIsGone, ClientIsGone', StreamStage' = StreamStage, protocol' = protocol
    PROVE  ListenerStep
<1>1. Listener!Disconnects(Connection)
  BY DEF Listener!Disconnects
<1> QED BY <1>1 DEF ListenerStep

-----------------------------------------------------------------------------
\* A transaction that returns has ended its stream, and closed the connection if it
\* failed with a Protocol error.
LEMMA ReturnEndsStream ==
    ASSUME DoqInv, protocol = "doq", protocol' = protocol, InTransaction,
           NEW how, Returns(how)
    PROVE  GoesOn("ended", how = "protocol")
<1>1. point' = "done" /\ point # "done"
  BY DEF Returns, WaitAt, InTransaction
<1>2. StreamStage # "ended" /\ StreamStage' = "ended"
  BY <1>1 DEF StreamStage, DoqStage, DoqInv, DoqTypeOK
<1>3. hears' = [hears EXCEPT !["client"] = IF how = "protocol" THEN "lost" ELSE @]
  BY DEF Returns
<1>4. hears \in [Ends -> {"open", "stopped", "lost"}] /\ "client" \in Ends
  BY DEF DoqInv, DoqTypeOK, Ends
<1>5. hears'["client"] = "lost" <=> hears["client"] = "lost" \/ how = "protocol"
  BY <1>3, <1>4
<1> QED BY <1>2, <1>5 DEF GoesOn, ClientIsGone

\* It fails, whatever the error.
LEMMA ReturnFails ==
    ASSUME DoqInv, protocol = "doq", protocol' = protocol, InTransaction,
           NEW how, Returns(how)
    PROVE  ListenerStep
<1>1. GoesOn("ended", how = "protocol")
  BY ReturnEndsStream
<1>2. (how = "protocol") \in BOOLEAN
  OBVIOUS
<1> QED BY <1>1, <1>2, StreamFails

\* The transaction waits on, and nothing is seen of it.
LEMMA TransactionWaits ==
    ASSUME protocol = "doq", protocol' = protocol, hears' = hears, DoqStage' = DoqStage
    PROVE  ListenerStep
<1>1. StreamStage' = StreamStage
  BY DEF StreamStage
<1>2. ClientIsGone' <=> ClientIsGone
  BY DEF ClientIsGone
<1> QED BY <1>1, <1>2, NothingHappens

\* The transaction goes to another stage.
LEMMA TransactionGoes ==
    ASSUME protocol = "doq", protocol' = protocol, hears' = hears,
           NEW next, DoqStage # "ended", DoqStage' = next,
           next \in Listener!Following(Stream),
           DoqStage = "answer" => hears["client"] # "lost"
    PROVE  ListenerStep
<1>1. StreamStage = DoqStage /\ StreamStage' = DoqStage'
  BY DEF StreamStage
<1>2. (ClientIsGone <=> hears["client"] = "lost") /\ (ClientIsGone' <=> ClientIsGone)
  BY DEF ClientIsGone
<1>3. GoesOn(next, FALSE)
  BY <1>1, <1>2 DEF GoesOn
<1>4. DoqStage # "refuse"
  BY DEF DoqStage
<1>5. StreamStage \in {"answer", "refuse"} => ~ClientIsGone
  BY <1>1, <1>2, <1>4
<1> QED BY <1>3, <1>5, StreamAdvances

\* What follows a stage of a transaction.
LEMMA TransactionStages ==
    ASSUME protocol = "doq"
    PROVE  /\ DoqStage = "query" => "upstream" \in Listener!Following(Stream)
           /\ DoqStage = "upstream" => "answer" \in Listener!Following(Stream)
           /\ DoqStage = "upstream" => "ended" \in Listener!Following(Stream)
           /\ DoqStage = "answer" => "upstream" \in Listener!Following(Stream)
  BY DEF Listener!Following, StreamStage

\* Every step of a transaction is one that the listener knows.
LEMMA TransactionFits ==
    ASSUME DoqInv, protocol = "doq", protocol' = protocol, DoqNext
    PROVE  ListenerStep
<1>1. CASE DoqTick \/ GetsStream \/ \E e \in Ends : Puts(e) \/ EndsStream(e)
  <2>1. hears' = hears /\ DoqStage' = DoqStage
    BY <1>1 DEF DoqTick, GetsStream, WaitAt, Puts, EndsStream, DoqStage
  <2> QED BY <2>1, TransactionWaits
<1>2. CASE \E e \in Ends : StopsHearing(e)
  <2>1. PICK e \in Ends : StopsHearing(e)
    BY <1>2
  <2>2. StreamStage' = StreamStage
    BY <2>1 DEF StopsHearing, StreamStage, DoqStage
  <2>3. hears["client"] = "lost" => hears'["client"] = "lost"
    BY <2>1 DEF StopsHearing, DoqInv, DoqTypeOK, Ends
  <2>4. /\ ClientIsGone <=> hears["client"] = "lost"
        /\ ClientIsGone' <=> hears'["client"] = "lost"
    BY DEF ClientIsGone
  <2>5. CASE ClientIsGone' <=> ClientIsGone
    BY <2>2, <2>5, NothingHappens
  <2>6. CASE ~(ClientIsGone' <=> ClientIsGone)
    BY <2>2, <2>3, <2>4, <2>6, ClientDisconnects
  <2> QED BY <2>5, <2>6
<1>3. CASE \E e \in Ends : ReadHalf(e)
  <2>1. PICK e \in Ends : ReadHalf(e)
    BY <1>3
  <2>2. Reading(e) /\ InTransaction
    BY <2>1 DEF ReadHalf, Reading, InTransaction
  <2>3. CASE ~Accepts(e)
    <3>1. Returns("protocol")
      BY <2>1, <2>3 DEF ReadHalf
    <3> QED BY <2>2, <3>1, ReturnFails
  <2>4. CASE Accepts(e)
    <3>1. /\ point' = IF ~Whole(read[e] + 1) THEN point
                      ELSE IF e = "client" THEN "end of query" ELSE "reply"
          /\ hears' = hears
      BY <2>1, <2>4 DEF ReadHalf, WaitAt
    <3>2. CASE e = "client" \/ point' = point
      <4>1. DoqStage' = DoqStage
        BY <2>2, <3>1, <3>2 DEF DoqStage, Reading
      <4> QED BY <3>1, <4>1, TransactionWaits
    <3>3. CASE e # "client" /\ point' # point
      <4>1. DoqStage = "upstream" /\ DoqStage' = "answer"
        BY <2>2, <3>1, <3>3 DEF DoqStage, Reading
      <4>2. "answer" \in Listener!Following(Stream)
        BY <4>1, TransactionStages
      <4> QED BY <3>1, <4>1, <4>2, TransactionGoes
    <3> QED BY <3>2, <3>3
  <2> QED BY <2>3, <2>4
<1>4. CASE QueryEnds
  <2>1. hears' = hears /\ DoqStage = "query" /\ DoqStage' = "upstream"
    BY <1>4 DEF QueryEnds, WaitAt, DoqStage
  <2>2. "upstream" \in Listener!Following(Stream)
    BY <2>1, TransactionStages
  <2> QED BY <2>1, <2>2, TransactionGoes
<1>5. CASE AnswerEnds
  <2>1. point = "response" /\ InTransaction /\ (Returns("ok") \/ Returns("protocol"))
    BY <1>5 DEF AnswerEnds, InTransaction
  <2>2. CASE Returns("ok")
    <3>4. GoesOn("ended", "ok" = "protocol")
      BY <2>1, <2>2, ReturnEndsStream
    <3>1. GoesOn("ended", FALSE)
      BY <3>4 DEF GoesOn
    <3>2. StreamStage = "upstream"
      BY <2>1 DEF StreamStage, DoqStage
    <3>3. "ended" \in Listener!Following(Stream)
      BY <3>2 DEF Listener!Following
    <3> QED BY <3>1, <3>2, <3>3, StreamAdvances
  <2>3. CASE Returns("protocol")
    BY <2>1, <2>3, ReturnFails
  <2> QED BY <2>1, <2>2, <2>3
<1>6. CASE GetsNoStream \/ DoqTimesOut \/ \E e \in Ends : ReadFails(e) \/ WriteFails(e)
  <2>1. InTransaction /\ \E how : Returns(how)
    BY <1>6 DEF GetsNoStream, DoqTimesOut, ReadFails, WriteFails, Reading, Writing,
                InTransaction
  <2> QED BY <2>1, ReturnFails
<1>7. CASE \E e \in Ends : WriteHalf(e)
  <2>1. PICK e \in Ends : WriteHalf(e)
    BY <1>7
  <2>2. /\ Writing(e) /\ hears[e] = "open" /\ hears' = hears
        /\ point' = IF Whole(passed[e] + 1) THEN "response" ELSE point
    BY <2>1 DEF WriteHalf, WaitAt
  <2>3. CASE e = "upstream" \/ point' = point
    <3>1. DoqStage' = DoqStage
      BY <2>2, <2>3 DEF DoqStage, Writing
    <3> QED BY <2>2, <3>1, TransactionWaits
  <2>4. CASE e # "upstream" /\ point' # point
    <3>1. DoqStage = "answer" /\ DoqStage' = "upstream" /\ e = "client"
      BY <2>2, <2>4 DEF DoqStage, Writing
    <3>2. hears["client"] # "lost"
      BY <2>2, <3>1
    <3>3. "upstream" \in Listener!Following(Stream)
      BY <3>1, TransactionStages
    <3> QED BY <2>2, <3>1, <3>2, <3>3, TransactionGoes
  <2> QED BY <2>3, <2>4
<1>8. CASE DoqCancelled
  <2>1. InTransaction /\ Returns("cancelled")
    BY <1>8 DEF DoqCancelled
  <2>3. GoesOn("ended", "cancelled" = "protocol")
    BY <2>1, ReturnEndsStream
  <2>2. GoesOn("ended", FALSE)
    BY <2>3 DEF GoesOn
  <2> QED BY <2>2, StreamIsCancelled
<1> QED BY <1>1, <1>2, <1>3, <1>4, <1>5, <1>6, <1>7, <1>8
        DEF DoqNext, DoqEnds, DoqReads, DoqWrites

-----------------------------------------------------------------------------
\* The request waits on, and nothing is seen of it.
LEMMA RequestWaits ==
    ASSUME protocol = "h3", protocol' = protocol, listens' = listens, H3Stage' = H3Stage
    PROVE  ListenerStep
<1>1. StreamStage' = StreamStage
  BY DEF StreamStage
<1>2. ClientIsGone' <=> ClientIsGone
  BY DEF ClientIsGone
<1> QED BY <1>1, <1>2, NothingHappens

\* The request goes to another stage.
LEMMA RequestGoes ==
    ASSUME protocol = "h3", protocol' = protocol, listens' = listens,
           NEW next, H3Stage # "ended", H3Stage' = next,
           next \in Listener!Following(Stream),
           H3Stage \in {"answer", "refuse"} => listens
    PROVE  ListenerStep
<1>1. StreamStage = H3Stage /\ StreamStage' = H3Stage'
  BY DEF StreamStage
<1>2. (ClientIsGone <=> ~listens) /\ (ClientIsGone' <=> ClientIsGone)
  BY DEF ClientIsGone
<1>3. GoesOn(next, FALSE)
  BY <1>1, <1>2 DEF GoesOn
<1>4. StreamStage \in {"answer", "refuse"} => ~ClientIsGone
  BY <1>1, <1>2
<1> QED BY <1>3, <1>4, StreamAdvances

\* The request fails: what has a client to tell goes to the error response.
LEMMA RequestFails ==
    ASSUME protocol = "h3", protocol' = protocol, listens' = listens,
           H3Stage # "ended",
           H3Stage' = IF H3Stage \in {"resolve", "refuse"} THEN "ended" ELSE "refuse"
    PROVE  ListenerStep
<1>1. StreamStage = H3Stage /\ StreamStage' = H3Stage'
  BY DEF StreamStage
<1>2. ClientIsGone' <=> ClientIsGone
  BY DEF ClientIsGone
<1>3. GoesOn(IF StreamStage \in {"resolve", "refuse"} THEN "ended" ELSE "refuse", FALSE)
  BY <1>1, <1>2 DEF GoesOn
<1> QED BY <1>3, StreamFails

\* What follows a stage of a request.
LEMMA RequestStages ==
    ASSUME protocol = "h3"
    PROVE  /\ H3Stage = "resolve" =>
                 \A next \in {"body", "upstream", "refuse"} :
                    next \in Listener!Following(Stream)
           /\ H3Stage = "body" => "upstream" \in Listener!Following(Stream)
           /\ H3Stage = "upstream" => "answer" \in Listener!Following(Stream)
           /\ H3Stage \in {"answer", "refuse"} => "ended" \in Listener!Following(Stream)
  BY DEF Listener!Following, StreamStage

\* A request that is rejected after its head was read.
LEMMA RejectedFails ==
    ASSUME protocol = "h3", protocol' = protocol, listens' = listens,
           step \notin {"headers", "refuse", "done"}, step' = "refuse"
    PROVE  ListenerStep
<1>1. H3Stage \notin {"resolve", "refuse", "ended"} /\ H3Stage' = "refuse"
  BY DEF H3Stage
<1> QED BY <1>1, RequestFails

\* H3 rejects with an error response.
LEMMA H3Rejects ==
    ASSUME protocol = "h3", NEW plain, NEW type, NEW phrases, Rejects(plain, type, phrases)
    PROVE  step' = "refuse"
  BY DEF Rejects, StepTo

\* Every step of a DoH3 request is one that the listener knows.
LEMMA RequestFits ==
    ASSUME protocol = "h3", DohNext
    PROVE  ListenerStep
<1>0. protocol' = protocol
  BY DEF DohNext, DohEnds, Uploads, ClientLeaves, Answers, DohReads, BodyUnit, BodyEnds,
         BodyFails, HeadArrives, HeadFails, AnswerUnit, AnswerIsWhole, AnswerFails, DohWrites,
         Begins, HeadersFail, SessionOpens, Sends, SendFails, Replies, ReplyFails, Refuses,
         RefusalFails, DohTimesOut, DohTick, DohCancelled
<1>1. CASE Uploads \/ Answers \/ DohTick
  <2>1. listens' = listens /\ step' = step
    BY <1>1 DEF Uploads, Answers, DohTick, clientVars
  <2>2. H3Stage' = H3Stage
    BY <2>1 DEF H3Stage
  <2> QED BY <1>0, <2>1, <2>2, RequestWaits
<1>2. CASE ClientLeaves
  <2>1. listens /\ ~listens' /\ step' = step
    BY <1>2 DEF ClientLeaves
  <2>2. StreamStage' = StreamStage /\ ~ClientIsGone /\ ClientIsGone'
    BY <1>0, <2>1 DEF StreamStage, H3Stage, ClientIsGone
  <2> QED BY <1>0, <2>2, ClientDisconnects
<1>3. CASE Begins
  <2>1. step = "headers" /\ listens' = listens
    BY <1>3 DEF Begins, clientVars
  <2>2. step' \in {"body", "session", "refuse"}
    BY <1>3, H3Rejects DEF Begins, StepTo, AfterHead
  <2>3. H3Stage = "resolve" /\ H3Stage' \in {"body", "upstream", "refuse"}
    BY <2>1, <2>2 DEF H3Stage
  <2>4. H3Stage' \in Listener!Following(Stream)
    BY <2>3, RequestStages
  <2> QED BY <1>0, <2>1, <2>3, <2>4, RequestGoes
<1>4. CASE HeadersFail \/ RefusalFails
  <2>1. step \in {"headers", "refuse"} /\ listens' = listens /\ step' = "done"
    BY <1>4 DEF HeadersFail, RefusalFails, StepTo, clientVars
  <2>2. H3Stage \in {"resolve", "refuse"} /\ H3Stage' = "ended"
    BY <2>1 DEF H3Stage
  <2> QED BY <1>0, <2>1, <2>2, RequestFails
<1>5. CASE BodyUnit \/ BodyEnds \/ BodyFails
  <2>1. step = "body" /\ listens' = listens
    BY <1>5 DEF BodyUnit, BodyEnds, BodyFails, clientVars
  <2>2. step' \in {"body", "session", "refuse"}
    BY <1>5, <2>1, H3Rejects DEF BodyUnit, BodyEnds, BodyFails, StepTo
  <2>3. CASE step' = "body"
    <3>1. H3Stage' = H3Stage
      BY <2>1, <2>3 DEF H3Stage
    <3> QED BY <1>0, <2>1, <3>1, RequestWaits
  <2>4. CASE step' = "session"
    <3>1. H3Stage = "body" /\ H3Stage' = "upstream"
      BY <2>1, <2>4 DEF H3Stage
    <3>2. "upstream" \in Listener!Following(Stream)
      BY <3>1, RequestStages
    <3> QED BY <1>0, <2>1, <3>1, <3>2, RequestGoes
  <2>5. CASE step' = "refuse"
    BY <1>0, <2>1, <2>5, RejectedFails
  <2> QED BY <2>2, <2>3, <2>4, <2>5
<1>6. CASE SessionOpens \/ Sends \/ HeadArrives
  <2>1. /\ step \in Forwarding /\ step' \in Forwarding
        /\ listens' = listens
    BY <1>6 DEF SessionOpens, Sends, HeadArrives, StepTo, clientVars, Forwarding
  <2>2. H3Stage' = H3Stage
    BY <2>1 DEF H3Stage, Forwarding
  <2> QED BY <1>0, <2>1, <2>2, RequestWaits
<1>7. CASE SendFails \/ HeadFails \/ AnswerFails
  <2>1. step \notin {"headers", "refuse", "done"} /\ listens' = listens
    BY <1>7 DEF SendFails, HeadFails, AnswerFails, clientVars
  <2>2. step' = "refuse"
    BY <1>7, H3Rejects DEF SendFails, HeadFails, AnswerFails, ForwardFails
  <2> QED BY <1>0, <2>1, <2>2, RejectedFails
<1>8. CASE AnswerUnit \/ AnswerIsWhole
  <2>1. step = "collect" /\ listens' = listens
    BY <1>8 DEF AnswerUnit, AnswerIsWhole, clientVars
  <2>2. step' \in {"collect", "refuse", "reply head"}
    <3>1. CASE AnswerUnit
      BY <2>1, <3>1, H3Rejects DEF AnswerUnit, ForwardFails, StepTo
    <3>2. CASE AnswerIsWhole
      BY <3>2, H3Rejects DEF AnswerIsWhole, ForwardFails, Forwarded, StepTo
    <3> QED BY <1>8, <3>1, <3>2
  <2>3. CASE step' = "collect"
    <3>1. H3Stage' = H3Stage
      BY <2>1, <2>3 DEF H3Stage
    <3> QED BY <1>0, <2>1, <3>1, RequestWaits
  <2>4. CASE step' = "reply head"
    <3>1. H3Stage = "upstream" /\ H3Stage' = "answer"
      BY <2>1, <2>4 DEF H3Stage
    <3>2. "answer" \in Listener!Following(Stream)
      BY <3>1, RequestStages
    <3> QED BY <1>0, <2>1, <3>1, <3>2, RequestGoes
  <2>5. CASE step' = "refuse"
    BY <1>0, <2>1, <2>5, RejectedFails
  <2> QED BY <2>2, <2>3, <2>4, <2>5
<1>9. CASE Replies \/ Refuses
  <2>1. /\ step \in {"reply head", "reply data", "reply end", "refuse"}
        /\ step' \in {"reply data", "reply end", "done"}
        /\ step = "refuse" => step' = "done"
        /\ listens /\ listens' = listens
    BY <1>9 DEF Replies, Refuses, StepTo, clientVars
  <2>2. CASE step' # "done"
    <3>1. H3Stage' = H3Stage
      BY <2>1, <2>2 DEF H3Stage
    <3> QED BY <1>0, <2>1, <3>1, RequestWaits
  <2>3. CASE step' = "done"
    <3>1. H3Stage \in {"answer", "refuse"} /\ H3Stage' = "ended"
      BY <2>1, <2>3 DEF H3Stage
    <3>2. "ended" \in Listener!Following(Stream)
      BY <3>1, RequestStages
    <3> QED BY <1>0, <2>1, <3>1, <3>2, RequestGoes
  <2> QED BY <2>2, <2>3
<1>10. CASE ReplyFails
  <2>1. step \notin {"headers", "refuse", "done"} /\ listens' = listens
    BY <1>10 DEF ReplyFails, clientVars
  <2>2. step' = "refuse"
    BY <1>10, H3Rejects DEF ReplyFails
  <2> QED BY <1>0, <2>1, <2>2, RejectedFails
<1>11. CASE DohTimesOut
  <2>1. step \notin {"headers", "refuse", "done"} /\ listens' = listens
    BY <1>11 DEF DohTimesOut, Timed, clientVars
  <2>2. step' = "refuse"
    BY <1>11, H3Rejects DEF DohTimesOut, ForwardFails
  <2> QED BY <1>0, <2>1, <2>2, RejectedFails
<1>12. CASE DohCancelled
  <2>1. step' = "done" /\ listens' = listens
    BY <1>12 DEF DohCancelled, StepTo, clientVars
  <2>2. step \in {"headers", "body"} \cup Forwarding
    BY <1>12 DEF DohCancelled, Forwarding
  <2>3. H3Stage \in {"resolve", "body", "upstream"} /\ H3Stage' = "ended"
    BY <2>1, <2>2 DEF H3Stage, Forwarding
  <2>4. StreamStage = H3Stage /\ StreamStage' = H3Stage' /\ (ClientIsGone' <=> ClientIsGone)
    BY <1>0, <2>1 DEF StreamStage, ClientIsGone
  <2>5. GoesOn("ended", FALSE)
    BY <1>0, <2>3, <2>4 DEF GoesOn
  <2> QED BY <2>3, <2>4, <2>5, StreamIsCancelled
<1> QED BY <1>1, <1>2, <1>3, <1>4, <1>5, <1>6, <1>7, <1>8, <1>9, <1>10, <1>11, <1>12
        DEF DohNext, DohEnds, DohReads, DohWrites

\* DoQ and DoH3: every step of an exchange is one of its stream as the listener has
\* it, or nothing that the listener sees.
THEOREM ExchangeFitsListener == ExchangeSpec => FitsListener
<1>1. ExchangeInv /\ [ExchangeNext]_exchangeVars => [ListenerStep]_exchangeVars
  <2> SUFFICES ASSUME ExchangeInv, ExchangeNext PROVE ListenerStep
    OBVIOUS
  <2>1. CASE protocol = "doq" /\ DoqNext /\ UNCHANGED <<vars, dohVars>>
    <3>1. protocol' = protocol
      BY <2>1 DEF dohVars
    <3> QED BY <2>1, <3>1, TransactionFits DEF ExchangeInv
  <2>2. CASE protocol = "h3" /\ DohNext
    BY <2>2, RequestFits
  <2>3. CASE protocol \notin {"doq", "h3"}
    BY <2>3 DEF ListenerStep
  <2> QED BY <2>1, <2>2, <2>3 DEF ExchangeNext
<1> QED BY <1>1, ExchangeInvariant, PTL DEF ExchangeSpec, FitsListener
=============================================================================
