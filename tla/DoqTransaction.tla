--------------------------- MODULE DoqTransaction ---------------------------
(***************************************************************************)
(* One DNS-over-QUIC transaction: forward_quic_stream and what it calls in *)
(* src/src/upstream/quic.rs, run by the task of a stream (the select! and  *)
(* the match on its result in src/src/readers/doq.rs).                     *)
(*                                                                         *)
(* "The query is one framed DNS message followed by FIN; the response may  *)
(* contain multiple frames (for example AXFR/IXFR) and is relayed without  *)
(* buffering a complete zone transfer in memory" (quic.rs:15-18).          *)
(*                                                                         *)
(* A frame is two halves, its length and its message, because each has an  *)
(* await and a timer of its own.  Streams are counted in halves: an even   *)
(* number of them is a whole number of frames.  The message of a frame has *)
(* a header and ID zero, and its length is not zero, unless it is flawed.  *)
(*                                                                         *)
(* quinn is external.  Of it the model uses that what arrived can be read  *)
(* also after the connection was lost, that a write then fails and finish  *)
(* may fail, and that dropping a SendStream that is not finished does it.  *)
(***************************************************************************)
EXTENDS Timeouts

CONSTANT MaxFrames   \* bound: the frames a peer sends

ASSUME DoqAssumption == MaxFrames \in Nat

MaxHalves == 2 * MaxFrames

Ends == {"client", "upstream"}

VARIABLES
    point,       \* where forward_quic_stream waits
    idle,        \* ticks since that await began
    put,         \* halves each end has put on its stream
    ending,      \* open; fin: it has finished its stream; reset
    flaw,        \* the first half that is wrong, if it ever gets there
    read,        \* halves of it that were read
    passed,      \* halves that were written to each end
    finished,    \* each end was sent the end of the stream
    hears,       \* open; stopped: the end takes no more of the stream; lost:
                 \* the connection to it
    result       \* how the transaction ended

doqVars == <<point, idle, put, ending, flaw, read, passed, finished, hears, result>>

Whole(n) == n % 2 = 0

Reading(e) ==
    \/ e = "client" /\ point \in {"query", "end of query"}
    \/ e = "upstream" /\ point = "response"

Writing(e) ==
    \/ e = "upstream" /\ point = "forward"
    \/ e = "client" /\ point = "reply"

\* read has something to return: a half, the end of the stream, or an error.
Ready(e) == read[e] < put[e] \/ ending[e] # "open" \/ hears[e] = "lost"

InTransaction == point # "done"

\* There is a stream to the upstream once open_bi succeeded.
HasUpstreamStream == point \in {"forward", "response", "reply"}

\* Nothing has been done yet.
DoqFresh ==
    /\ idle = 0
    /\ put = [e \in Ends |-> 0]
    /\ ending = [e \in Ends |-> "open"]
    /\ read = [e \in Ends |-> 0]
    /\ passed = [e \in Ends |-> 0]
    /\ finished = [e \in Ends |-> FALSE]
    /\ hears = [e \in Ends |-> "open"]
    /\ result = "none"

DoqInit ==
    /\ point = "query"
    /\ flaw \in [Ends -> 0..MaxHalves]
    /\ DoqFresh

-----------------------------------------------------------------------------
\* The two ends.  An upstream says nothing before it has the stream.

Present(e) == InTransaction /\ (e = "upstream" => HasUpstreamStream)

Puts(e) ==
    /\ Present(e)
    /\ hears[e] # "lost"
    /\ ending[e] = "open"
    /\ put[e] < MaxHalves
    /\ put' = [put EXCEPT ![e] = @ + 1]
    /\ UNCHANGED <<point, idle, ending, flaw, read, passed, finished, hears, result>>

\* FIN, possibly in the middle of a frame, or RESET_STREAM.
EndsStream(e) ==
    /\ Present(e)
    /\ hears[e] # "lost"
    /\ ending[e] = "open"
    /\ \E how \in {"fin", "reset"} : ending' = [ending EXCEPT ![e] = how]
    /\ UNCHANGED <<point, idle, put, flaw, read, passed, finished, hears, result>>

\* STOP_SENDING, or the connection is lost.
StopsHearing(e) ==
    /\ Present(e)
    /\ \/ hears[e] = "open" /\ hears' = [hears EXCEPT ![e] = "stopped"]
       \/ hears[e] # "lost" /\ hears' = [hears EXCEPT ![e] = "lost"]
    /\ UNCHANGED <<point, idle, put, ending, flaw, read, passed, finished, result>>

-----------------------------------------------------------------------------
\* forward_quic_stream

\* The next await, with a new timer.
WaitAt(next) == point' = next /\ idle' = 0

\* It returns: both SendStreams are dropped, which finishes them where the
\* other side still listens.  The task records the transaction, as a failure
\* unless the result is "ok", and closes the client's connection for a
\* Protocol error, which may overtake the end of the stream.
Returns(how) ==
    /\ WaitAt("done")
    /\ result' = how
    /\ \E fin \in BOOLEAN :
          /\ ~fin => how = "protocol"
          /\ finished' = [e \in Ends |->
                 \/ finished[e]
                 \/ hears[e] = "open" /\ IF e = "client" THEN fin ELSE HasUpstreamStream]
    /\ hears' = [hears EXCEPT !["client"] = IF how = "protocol" THEN "lost" ELSE @]

\* The half of a frame that was read is as it should be: no empty frame, no
\* message without a header or with an ID, no second query.
Accepts(e) == read[e] + 1 # flaw[e] /\ (e = "client" => read[e] + 1 < 4)

\* read_exact of a length or of a message
ReadHalf(e) ==
    /\ Reading(e)
    /\ read[e] < put[e]
    /\ read' = [read EXCEPT ![e] = @ + 1]
    /\ IF ~Accepts(e)
       THEN Returns("protocol")
       ELSE /\ WaitAt(IF ~Whole(read[e] + 1) THEN point
                      ELSE IF e = "client" THEN "end of query" ELSE "reply")
            /\ UNCHANGED <<finished, hears, result>>
    /\ UNCHANGED <<put, ending, flaw, passed>>

\* Mutant: what follows the query is not looked at.
QueryEnds_NotAwaited ==
    /\ point = "end of query"
    /\ WaitAt("pool")
    /\ UNCHANGED <<put, ending, flaw, read, passed, finished, hears, result>>

\* FinishedEarly(0) where a query is complete: forward it.
QueryEnds ==
    /\ point = "end of query"
    /\ ending["client"] = "fin" /\ read["client"] = put["client"]
    /\ read["client"] = 2
    /\ WaitAt("pool")
    /\ UNCHANGED <<put, ending, flaw, read, passed, finished, hears, result>>

\* Mutant: FIN is the end of the answer also in the middle of a frame.
AnswerEnds_Anywhere ==
    /\ point = "response"
    /\ ending["upstream"] = "fin" /\ read["upstream"] = put["upstream"]
    /\ Returns("ok")
    /\ UNCHANGED <<put, ending, flaw, read, passed>>

\* FinishedEarly(0) between two frames of the answer: the client's stream is
\* finished too, which may fail only if the client takes no more of it.
AnswerEnds ==
    /\ point = "response"
    /\ ending["upstream"] = "fin" /\ read["upstream"] = put["upstream"]
    /\ Whole(read["upstream"])
    /\ \/ Returns("ok")
       \/ hears["client"] # "open" /\ Returns("protocol")
    /\ UNCHANGED <<put, ending, flaw, read, passed>>

\* The stream is reset, or ends where it should not, or the connection is lost
\* and nothing is left to read.
ReadFails(e) ==
    /\ Reading(e)
    /\ \/ ending[e] = "reset"
       \/ /\ read[e] = put[e] /\ ending[e] = "fin"
          /\ ~Whole(read[e]) \/ point = "query"
       \/ read[e] = put[e] /\ ending[e] = "open" /\ hears[e] = "lost"
    /\ Returns("protocol")
    /\ UNCHANGED <<put, ending, flaw, read, passed>>

\* pool.get has a session, and then open_bi a stream of it.
GetsStream ==
    /\ point \in {"pool", "open"}
    /\ WaitAt(IF point = "pool" THEN "open" ELSE "forward")
    /\ UNCHANGED <<put, ending, flaw, read, passed, finished, hears, result>>

\* No permit or no connection, or no stream: the session is invalidated.
GetsNoStream ==
    /\ point \in {"pool", "open"}
    /\ Returns("upstream")
    /\ UNCHANGED <<put, ending, flaw, read, passed>>

\* write_all of a length or of a message.  After the query its stream is
\* finished; after a frame of the answer comes the next.
WriteHalf(e) ==
    /\ Writing(e)
    /\ hears[e] = "open"
    /\ passed' = [passed EXCEPT ![e] = @ + 1]
    /\ WaitAt(IF Whole(passed[e] + 1) THEN "response" ELSE point)
    /\ finished' = IF e = "upstream" /\ Whole(passed[e] + 1)
                   THEN [finished EXCEPT ![e] = TRUE] ELSE finished
    /\ UNCHANGED <<put, ending, flaw, read, hears, result>>

\* The other end takes no more: a Protocol error of write_all, or an Upstream
\* error of finish.
WriteFails(e) ==
    /\ Writing(e)
    /\ hears[e] # "open"
    /\ \/ Returns("protocol")
       \/ e = "upstream" /\ passed[e] = 1 /\ Returns("upstream")
    /\ UNCHANGED <<put, ending, flaw, read, passed>>

\* Mutant: no timer while it waits for the client.
DoqTimesOut_OnlyUpstream ==
    /\ InTransaction /\ point # "reply"
    /\ idle = IdleTimeout
    /\ \A e \in Ends : Reading(e) => ~Ready(e)
    /\ Returns("timeout")
    /\ UNCHANGED <<put, ending, flaw, read, passed>>

\* timeout polls what it waits for first.
DoqTimesOut ==
    /\ InTransaction
    /\ idle = IdleTimeout
    /\ \A e \in Ends : Reading(e) => ~Ready(e)
    /\ Returns("timeout")
    /\ UNCHANGED <<put, ending, flaw, read, passed>>

\* select! drops the transaction: nothing is recorded.
DoqCancelled ==
    /\ InTransaction
    /\ Returns("cancelled")
    /\ UNCHANGED <<put, ending, flaw, read, passed>>

DoqTick ==
    /\ InTransaction
    /\ idle < IdleTimeout
    /\ idle' = idle + 1
    /\ UNCHANGED <<point, put, ending, flaw, read, passed, finished, hears, result>>

-----------------------------------------------------------------------------
DoqEnds ==
    \E e \in Ends : Puts(e) \/ EndsStream(e) \/ StopsHearing(e)

DoqReads ==
    \/ \E e \in Ends : ReadHalf(e) \/ ReadFails(e)
    \/ QueryEnds
    \/ AnswerEnds

DoqWrites ==
    \/ GetsStream
    \/ GetsNoStream
    \/ \E e \in Ends : WriteHalf(e) \/ WriteFails(e)

DoqNext ==
    \/ DoqEnds
    \/ DoqReads
    \/ DoqWrites
    \/ DoqTimesOut
    \/ DoqCancelled
    \/ DoqTick

\* Time goes on, a timer that elapsed is served, and what can be read is read.
\* Nothing is assumed of the two ends, nor that a write is ever accepted.
DoqFairness ==
    /\ WF_doqVars(DoqTick)
    /\ WF_doqVars(DoqTimesOut)
    /\ WF_doqVars(DoqReads)

-----------------------------------------------------------------------------
\* Every variable has its type.
DoqTypeOK ==
    /\ point \in {"query", "end of query", "pool", "open", "forward", "response",
                  "reply", "done"}
    /\ idle \in 0..IdleTimeout
    /\ put \in [Ends -> 0..MaxHalves]
    /\ ending \in [Ends -> {"open", "fin", "reset"}]
    /\ flaw \in [Ends -> 0..MaxHalves]
    /\ read \in [Ends -> 0..MaxHalves]
    /\ passed \in [Ends -> 0..MaxHalves]
    /\ finished \in [Ends -> BOOLEAN]
    /\ hears \in [Ends -> {"open", "stopped", "lost"}]
    /\ result \in {"none", "ok", "protocol", "upstream", "timeout", "cancelled"}

\* "Forward exactly one DoQ transaction" (src/src/upstream/quic.rs:13): nothing of
\* a query goes upstream, not even a connection is looked for, before all of the
\* stream is there, one faultless frame and then FIN.
OneWholeQuery ==
    /\ passed["upstream"] > 0 \/ point \notin {"query", "end of query", "done"} =>
          /\ ending["client"] = "fin" /\ put["client"] = 2
          /\ flaw["client"] \notin 1..2
    /\ passed["upstream"] <= 2
    /\ finished["upstream"] /\ passed["upstream"] < 2 => result \notin {"none", "ok"}

\* What the client has of the answer is, in order, what the upstream sent of it
\* up to the frame before the first that is wrong; at most one frame is held
\* back.  It is a success only if that is all of a whole answer.
AnswersAreRelayed ==
    /\ passed["client"] <= read["upstream"]
    /\ read["upstream"] <= passed["client"] + 2
    /\ flaw["upstream"] # 0 => passed["client"] < flaw["upstream"]
    /\ ~Whole(read["upstream"]) => Whole(passed["client"])
    /\ result = "ok" =>
          /\ ending["upstream"] = "fin" /\ Whole(put["upstream"])
          /\ passed["client"] = put["upstream"] /\ passed["upstream"] = put["client"]
          /\ hears["client"] = "open" => finished["client"]
    /\ finished["client"] => result # "none"
=============================================================================
