-------------------------- MODULE TransactionProofs --------------------------
(***************************************************************************)
(* The safety of a DoQ transaction and of a DoH request, for every         *)
(* timeout, every number of frames an end may send and every limit of the  *)
(* size of a message: what goes upstream and comes back, who is blamed,    *)
(* and what counts as a success.  Both are stated as invariants of a step, *)
(* which ExchangeProofs turns into theorems of the composition.            *)
(***************************************************************************)
EXTENDS DoqTransaction, DohTransaction, TLAPS

-----------------------------------------------------------------------------
\* DoQ: DoqTransaction

\* What was read and passed on where the transaction waits.
Progress ==
    /\ point = "query" => read["client"] \in {0, 1}
    /\ point = "end of query" => read["client"] \in {2, 3}
    /\ point \in {"query", "end of query", "pool", "open"} =>
          passed["upstream"] = 0 /\ passed["client"] = 0 /\ read["upstream"] = 0
    /\ point = "forward" =>
          passed["upstream"] \in {0, 1} /\ passed["client"] = 0 /\ read["upstream"] = 0
    /\ point = "response" =>
          /\ passed["upstream"] = 2
          /\ Whole(passed["client"])
          /\ read["upstream"] \in {passed["client"], passed["client"] + 1}
    /\ point = "reply" =>
          /\ passed["upstream"] = 2
          /\ Whole(read["upstream"])
          /\ read["upstream"] \in {passed["client"] + 1, passed["client"] + 2}

\* Nothing that is wrong is read without an end to it; the result is there at the
\* end, and the client is told of the end of the answer no sooner.
Outcome ==
    /\ \A e \in Ends : read[e] <= put[e]
    /\ InTransaction => \A e \in Ends : flaw[e] \notin 1..read[e]
    /\ InTransaction => result = "none"
    /\ finished["client"] => result # "none"
    /\ finished["upstream"] /\ InTransaction => passed["upstream"] = 2

DoqInv == DoqTypeOK /\ Progress /\ Outcome /\ OneWholeQuery /\ AnswersAreRelayed

\* The bound on what an end sends.
LEMMA MaxHalvesType == MaxHalves \in Nat
  BY DoqAssumption DEF MaxHalves

\* Halves are counted.
LEMMA HalvesAreCounted ==
    ASSUME DoqTypeOK
    PROVE  \A e \in Ends : /\ put[e] \in Nat /\ flaw[e] \in Nat
                           /\ read[e] \in Nat /\ passed[e] \in Nat
<1>1. 0..MaxHalves \subseteq Nat
  BY MaxHalvesType
<1> QED BY <1>1 DEF DoqTypeOK

\* A new timer.
LEMMA NewTimer == 0 \in 0..IdleTimeout
  BY TimeoutAssumption

\* A transaction that has not begun is in order.
LEMMA DoqStarts == DoqInit => DoqInv
  BY MaxHalvesType, TimeoutAssumption
  DEF DoqInit, DoqFresh, DoqInv, DoqTypeOK, Progress, Outcome, OneWholeQuery,
      AnswersAreRelayed, Ends, Whole, InTransaction

\* What the two ends do.
LEMMA DoqEndsKeep == DoqInv /\ DoqEnds => DoqInv'
<1> USE MaxHalvesType, TimeoutAssumption
<1>1. ASSUME DoqInv, NEW e \in Ends, Puts(e) PROVE DoqInv'
  <2>1. /\ put \in [Ends -> 0..MaxHalves] /\ put[e] < MaxHalves
        /\ put' = [put EXCEPT ![e] = @ + 1]
    BY <1>1 DEF DoqInv, DoqTypeOK, Puts
  <2>2. put[e] + 1 \in 0..MaxHalves
    BY <2>1
  <2>3. put' \in [Ends -> 0..MaxHalves] /\ \A x \in Ends : put[x] <= put'[x]
    BY <2>1, <2>2
  <2>4. DoqTypeOK'
    BY <1>1, <2>3 DEF DoqInv, DoqTypeOK, Puts
  <2>5. \A x \in Ends : read'[x] <= put'[x]
    <3>1. \A x \in Ends : /\ read[x] \in Nat /\ put[x] \in Nat /\ read[x] <= put[x]
                          /\ put'[x] \in Nat
      BY <1>1, <2>3, HalvesAreCounted DEF DoqInv, Outcome
    <3>2. read' = read
      BY <1>1 DEF Puts
    <3> QED BY <3>1, <3>2, <2>3
  <2>6. Progress' /\ Outcome'
    BY <1>1, <2>5 DEF DoqInv, Puts, Progress, Outcome, InTransaction
  <2>7. OneWholeQuery' /\ AnswersAreRelayed'
    BY <1>1, <2>1 DEF DoqInv, Puts, OneWholeQuery, AnswersAreRelayed, Outcome,
                Present, InTransaction, Ends
  <2> QED BY <2>4, <2>6, <2>7 DEF DoqInv
<1>2. ASSUME DoqInv, NEW e \in Ends, EndsStream(e) PROVE DoqInv'
  <2>1. DoqTypeOK'
    BY <1>2 DEF DoqInv, DoqTypeOK, EndsStream
  <2>2. Progress' /\ Outcome'
    BY <1>2 DEF DoqInv, EndsStream, Progress, Outcome, InTransaction
  <2>3. OneWholeQuery' /\ AnswersAreRelayed'
    BY <1>2 DEF DoqInv, DoqTypeOK, EndsStream, OneWholeQuery, AnswersAreRelayed, Outcome,
                Present, InTransaction, Ends
  <2> QED BY <2>1, <2>2, <2>3 DEF DoqInv
<1>3. ASSUME DoqInv, NEW e \in Ends, StopsHearing(e) PROVE DoqInv'
  <2>1. DoqTypeOK'
    BY <1>3 DEF DoqInv, DoqTypeOK, StopsHearing
  <2>2. Progress' /\ Outcome'
    BY <1>3 DEF DoqInv, StopsHearing, Progress, Outcome, InTransaction
  <2>3. OneWholeQuery' /\ AnswersAreRelayed'
    BY <1>3 DEF DoqInv, DoqTypeOK, StopsHearing, OneWholeQuery, AnswersAreRelayed, Outcome,
                Present, InTransaction, Ends
  <2> QED BY <2>1, <2>2, <2>3 DEF DoqInv
<1> QED BY <1>1, <1>2, <1>3 DEF DoqEnds
\* A half that was read, or nothing.
ReadsAHalf ==
    \/ read' = read
    \/ \E e \in Ends : /\ Reading(e) /\ read[e] < put[e]
                        /\ read' = [read EXCEPT ![e] = @ + 1]

\* A half more of what was put is read.
LEMMA HalfIsRead ==
    ASSUME DoqInv, ReadsAHalf
    PROVE  /\ read' \in [Ends -> 0..MaxHalves]
           /\ \A e \in Ends : read[e] <= read'[e] /\ read'[e] <= put[e]
<1> USE MaxHalvesType
<1>1. CASE read' = read
  <2>1. read \in [Ends -> 0..MaxHalves] /\ \A e \in Ends : read[e] <= put[e]
    BY DEF DoqInv, DoqTypeOK, Outcome
  <2>2. \A e \in Ends : read[e] \in Nat
    BY HalvesAreCounted DEF DoqInv
  <2>3. \A e \in Ends : read[e] <= read[e]
    BY <2>2
  <2> QED BY <1>1, <2>1, <2>3
<1>2. ASSUME NEW e \in Ends, read[e] < put[e], read' = [read EXCEPT ![e] = @ + 1]
      PROVE  /\ read' \in [Ends -> 0..MaxHalves]
             /\ \A x \in Ends : read[x] <= read'[x] /\ read'[x] <= put[x]
  <2>1. /\ read \in [Ends -> 0..MaxHalves] /\ put \in [Ends -> 0..MaxHalves]
        /\ \A x \in Ends : read[x] <= put[x]
    BY DEF DoqInv, DoqTypeOK, Outcome
  <2>2. read[e] + 1 \in 0..MaxHalves
    BY <1>2, <2>1
  <2> QED BY <1>2, <2>1, <2>2
<1> QED BY <1>1, <1>2 DEF ReadsAHalf

\* A transaction that fails, wherever it is, leaves what it did in order.
LEMMA FailureKeeps ==
    ASSUME DoqInv, InTransaction, ReadsAHalf,
           NEW how \in {"protocol", "upstream", "timeout", "cancelled"}, Returns(how),
           UNCHANGED <<put, ending, flaw, passed>>
    PROVE  DoqInv'
<1>1. finished' \in [Ends -> BOOLEAN] /\ hears' \in [Ends -> {"open", "stopped", "lost"}]
  BY DEF Returns, DoqInv, DoqTypeOK, Ends
<1>2. point' = "done" /\ idle' = 0 /\ result' = how
  BY DEF Returns, WaitAt
<1>0. /\ read' \in [Ends -> 0..MaxHalves]
      /\ \A e \in Ends : read[e] <= read'[e] /\ read'[e] <= put[e]
  BY HalfIsRead
<1>3. DoqTypeOK'
  <2>1. idle' \in 0..IdleTimeout
    BY <1>2, TimeoutAssumption
  <2> QED BY <1>1, <1>2, <1>0, <2>1 DEF DoqInv, DoqTypeOK
<1>4. Progress' /\ Outcome'
  BY <1>2, <1>0 DEF DoqInv, Progress, Outcome, InTransaction
<1>5. OneWholeQuery'
  BY <1>2 DEF DoqInv, OneWholeQuery
<1>6. /\ passed["client"] <= read'["upstream"]
      /\ read'["upstream"] <= passed["client"] + 2
      /\ flaw["upstream"] # 0 => passed["client"] < flaw["upstream"]
      /\ ~Whole(read'["upstream"]) => Whole(passed["client"])
  <2>1. /\ read["upstream"] \in Nat /\ passed["client"] \in Nat
        /\ read \in [Ends -> 0..MaxHalves]
    BY HalvesAreCounted DEF DoqInv, DoqTypeOK, Ends
  <2>2. CASE read'["upstream"] = read["upstream"]
    BY <2>2 DEF DoqInv, AnswersAreRelayed
  <2>3. CASE read'["upstream"] # read["upstream"]
    <3>1. point = "response" /\ read'["upstream"] = read["upstream"] + 1
      BY <2>1, <2>3 DEF ReadsAHalf, Reading, Ends
    <3>2. /\ Whole(passed["client"])
          /\ read["upstream"] \in {passed["client"], passed["client"] + 1}
      BY <3>1 DEF DoqInv, Progress
    <3> QED BY <2>1, <3>1, <3>2 DEF DoqInv, AnswersAreRelayed
  <2> QED BY <2>2, <2>3
<1>7. AnswersAreRelayed'
  BY <1>2, <1>6 DEF AnswersAreRelayed
<1> QED BY <1>3, <1>4, <1>5, <1>7 DEF DoqInv
\* A half that is as it should be.
LEMMA ReadHalfKeeps ==
    ASSUME DoqInv, NEW e \in Ends, ReadHalf(e), Accepts(e)
    PROVE  DoqInv'
<1>0. read[e] + 1 # flaw[e] /\ (e = "client" => read[e] + 1 < 4)
  BY DEF Accepts
<1>1. /\ Reading(e) /\ read[e] < put[e] /\ read' = [read EXCEPT ![e] = @ + 1]
      /\ WaitAt(IF ~Whole(read[e] + 1) THEN point
                ELSE IF e = "client" THEN "end of query" ELSE "reply")
      /\ UNCHANGED <<put, ending, flaw, passed, finished, hears, result>>
  BY DEF ReadHalf
<1>2. /\ read' \in [Ends -> 0..MaxHalves]
      /\ \A x \in Ends : read[x] <= read'[x] /\ read'[x] <= put[x]
  BY <1>1, HalfIsRead DEF ReadsAHalf
<1>3. /\ InTransaction /\ InTransaction'
      /\ point' \in {"query", "end of query", "response", "reply"} /\ idle' = 0
  BY <1>1 DEF InTransaction, Reading, WaitAt
<1>4. DoqTypeOK'
  <2>1. idle' \in 0..IdleTimeout
    BY <1>3, NewTimer
  <2> QED BY <1>1, <1>2, <1>3, <2>1 DEF DoqInv, DoqTypeOK
<1>5. /\ read["client"] \in Nat /\ read["upstream"] \in Nat
      /\ passed["client"] \in Nat /\ passed["upstream"] \in Nat
      /\ flaw["upstream"] \in Nat /\ flaw["client"] \in Nat
  BY HalvesAreCounted DEF DoqInv, Ends
<1>6. \A x \in Ends : flaw'[x] \notin 1..read'[x]
  <2> SUFFICES ASSUME NEW x \in Ends PROVE flaw[x] \notin 1..read'[x]
    BY <1>1
  <2>1. flaw[x] \notin 1..read[x] /\ read[x] \in Nat /\ flaw[x] \in Nat
    BY <1>3, HalvesAreCounted DEF DoqInv, Outcome
  <2>2. CASE x = e
    <3>1. read'[x] = read[x] + 1 /\ flaw[x] # read[x] + 1
      BY <1>1, <1>0, <2>2 DEF DoqInv, DoqTypeOK
    <3> QED BY <2>1, <3>1
  <2>3. CASE x # e
    BY <1>1, <2>1, <2>3 DEF DoqInv, DoqTypeOK
  <2> QED BY <2>2, <2>3
<1>7. Outcome'
  BY <1>1, <1>2, <1>3, <1>6 DEF DoqInv, Outcome
<1>8. CASE e = "client"
  <2>1. /\ read'["client"] = read["client"] + 1 /\ read'["upstream"] = read["upstream"]
        /\ point \in {"query", "end of query"}
    BY <1>1, <1>8 DEF Reading, DoqInv, DoqTypeOK, Ends
  <2>2. /\ passed["upstream"] = 0 /\ passed["client"] = 0 /\ read["upstream"] = 0
        /\ read["client"] + 1 < 4
    BY <1>0, <1>8, <2>1 DEF DoqInv, Progress
  <2>3. \/ /\ point = "query" /\ read["client"] = 0 /\ point' = "query"
        \/ /\ read["client"] = 1 /\ point' = "end of query"
        \/ /\ read["client"] = 2 /\ point' = "end of query"
    <3>1. point' = IF ~Whole(read["client"] + 1) THEN point ELSE "end of query"
      BY <1>1, <1>8 DEF WaitAt
    <3>2. \/ point = "query" /\ read["client"] \in {0, 1}
          \/ point = "end of query" /\ read["client"] = 2
      <4>1. \/ point = "query" /\ read["client"] \in {0, 1}
            \/ point = "end of query" /\ read["client"] \in {2, 3}
        BY <2>1 DEF DoqInv, Progress
      <4>2. read["client"] + 1 < 4
        BY <2>2
      <4>3. \A n \in {2, 3} : n + 1 < 4 => n = 2
        OBVIOUS
      <4> QED BY <4>1, <4>2, <4>3
    <3>3. ~Whole(0 + 1) /\ Whole(1 + 1) /\ ~Whole(2 + 1)
      BY DEF Whole
    <3> QED BY <3>1, <3>2, <3>3
  <2>4. Progress'
    <3>1. /\ passed' = passed /\ point' \in {"query", "end of query"}
          /\ read'["client"] = read["client"] + 1
          /\ read'["upstream"] = 0
      BY <1>1, <2>1, <2>2, <2>3
    <3>2. \/ point' = "query" /\ read'["client"] = 1
          \/ point' = "end of query" /\ read'["client"] \in {2, 3}
      <4>1. 0 + 1 = 1 /\ 1 + 1 = 2 /\ 2 + 1 = 3
        OBVIOUS
      <4> QED BY <2>3, <3>1, <4>1, Zenon
    <3> QED BY <2>2, <3>1, <3>2 DEF Progress
  <2>5. OneWholeQuery'
    BY <1>1, <2>2, <2>3 DEF DoqInv, OneWholeQuery
  <2>6. AnswersAreRelayed'
    BY <1>1, <2>1 DEF DoqInv, AnswersAreRelayed
  <2> QED BY <1>4, <1>7, <2>4, <2>5, <2>6 DEF DoqInv
<1>9. CASE e = "upstream"
  <2>1. /\ read'["upstream"] = read["upstream"] + 1 /\ read'["client"] = read["client"]
        /\ point = "response"
    BY <1>1, <1>9 DEF Reading, DoqInv, DoqTypeOK, Ends
  <2>2. /\ passed["upstream"] = 2 /\ Whole(passed["client"])
        /\ read["upstream"] \in {passed["client"], passed["client"] + 1}
    BY <2>1 DEF DoqInv, Progress
  <2>3. \/ /\ point' = "response" /\ read["upstream"] = passed["client"]
           /\ ~Whole(read'["upstream"])
        \/ /\ point' = "reply" /\ read["upstream"] = passed["client"] + 1
           /\ Whole(read'["upstream"])
    BY <1>1, <1>5, <1>9, <2>1, <2>2 DEF Whole, WaitAt
  <2>4. Progress'
    <3>1. \/ point' = "response" /\ read'["upstream"] = passed["client"] + 1
          \/ /\ point' = "reply" /\ read'["upstream"] = passed["client"] + 2
             /\ Whole(read'["upstream"])
      BY <1>5, <2>1, <2>3
    <3>2. passed' = passed
      BY <1>1
    <3> QED BY <2>2, <3>1, <3>2 DEF Progress
  <2>5. OneWholeQuery'
    BY <1>1, <2>1, <2>2, <2>3 DEF DoqInv, OneWholeQuery
  <2>6. AnswersAreRelayed'
    <3>1. /\ passed["client"] <= read'["upstream"]
          /\ read'["upstream"] <= passed["client"] + 2
          /\ flaw["upstream"] # 0 => passed["client"] < flaw["upstream"]
      BY <1>5, <2>1, <2>3 DEF DoqInv, AnswersAreRelayed
    <3>2. result' = "none" /\ finished' = finished /\ ~finished["client"]
      BY <1>1, <1>3 DEF DoqInv, Outcome
    <3> QED BY <1>1, <2>2, <3>1, <3>2 DEF AnswersAreRelayed
  <2> QED BY <1>4, <1>7, <2>4, <2>5, <2>6 DEF DoqInv
<1> QED BY <1>8, <1>9 DEF Ends

\* Half of a frame is passed on.
LEMMA WriteHalfKeeps ==
    ASSUME DoqInv, NEW e \in Ends, WriteHalf(e)
    PROVE  DoqInv'
<1>1. /\ Writing(e) /\ hears[e] = "open" /\ passed' = [passed EXCEPT ![e] = @ + 1]
      /\ WaitAt(IF Whole(passed[e] + 1) THEN "response" ELSE point)
      /\ finished' = IF e = "upstream" /\ Whole(passed[e] + 1)
                     THEN [finished EXCEPT ![e] = TRUE] ELSE finished
      /\ UNCHANGED <<put, ending, flaw, read, hears, result>>
  BY DEF WriteHalf
<1>2. /\ InTransaction /\ InTransaction'
      /\ point' \in {"forward", "response", "reply"} /\ idle' = 0
  BY <1>1 DEF InTransaction, Writing, WaitAt
<1>3. /\ read["client"] \in Nat /\ read["upstream"] \in Nat
      /\ passed["client"] \in Nat /\ passed["upstream"] \in Nat
      /\ flaw["upstream"] \in Nat
  BY HalvesAreCounted DEF DoqInv, Ends
<1>4. finished' \in [Ends -> BOOLEAN]
  BY <1>1 DEF DoqInv, DoqTypeOK
<1>5. idle' \in 0..IdleTimeout
  BY <1>2, TimeoutAssumption
<1>6. CASE e = "client"
  <2>1. /\ passed'["client"] = passed["client"] + 1
        /\ passed'["upstream"] = passed["upstream"]
        /\ point = "reply" /\ finished' = finished
    BY <1>1, <1>6 DEF Writing, DoqInv, DoqTypeOK, Ends
  <2>2. /\ passed["upstream"] = 2 /\ Whole(read["upstream"])
        /\ read["upstream"] \in {passed["client"] + 1, passed["client"] + 2}
    BY <2>1 DEF DoqInv, Progress
  <2>3. \/ /\ point' = "reply" /\ read["upstream"] = passed["client"] + 2
        \/ /\ point' = "response" /\ read["upstream"] = passed["client"] + 1
           /\ Whole(passed'["client"])
    BY <1>1, <1>3, <1>6, <2>1, <2>2 DEF Whole, WaitAt
  <2>4. passed["client"] + 1 \in 0..MaxHalves
    <3>1. read["upstream"] \in 0..MaxHalves /\ read["upstream"] >= passed["client"] + 1
      <4>1. read["upstream"] \in 0..MaxHalves
        BY DEF DoqInv, DoqTypeOK, Ends
      <4> QED BY <4>1, <1>3, <2>2
    <3> QED BY <3>1, <1>3, MaxHalvesType
  <2>5. passed' \in [Ends -> 0..MaxHalves]
    BY <1>1, <1>6, <2>4 DEF DoqInv, DoqTypeOK
  <2>6. DoqTypeOK'
    BY <1>1, <1>2, <1>4, <1>5, <2>5 DEF DoqInv, DoqTypeOK
  <2>7. Progress'
    <3>1. /\ read' = read /\ passed'["upstream"] = 2
          /\ \/ point' = "reply" /\ read["upstream"] = passed'["client"] + 1
             \/ /\ point' = "response" /\ read["upstream"] = passed'["client"]
                /\ Whole(passed'["client"])
      BY <1>1, <1>3, <2>1, <2>2, <2>3
    <3> QED BY <2>2, <3>1 DEF Progress
  <2>8. Outcome'
    BY <1>1, <1>2, <2>1 DEF DoqInv, Outcome
  <2>9. OneWholeQuery'
    BY <1>1, <2>1, <2>2, <2>3 DEF DoqInv, OneWholeQuery
  <2>10. flaw["upstream"] # 0 => passed["client"] + 1 < flaw["upstream"]
    <3>1. flaw["upstream"] \notin 1..read["upstream"]
      BY <1>2 DEF DoqInv, Outcome, Ends
    <3> QED BY <3>1, <1>3, <2>2
  <2>11. AnswersAreRelayed'
    BY <1>1, <1>2, <1>3, <2>1, <2>2, <2>10 DEF DoqInv, AnswersAreRelayed, Outcome
  <2> QED BY <2>6, <2>7, <2>8, <2>9, <2>11 DEF DoqInv
<1>7. CASE e = "upstream"
  <2>1. /\ passed'["upstream"] = passed["upstream"] + 1
        /\ passed'["client"] = passed["client"]
        /\ point = "forward" /\ finished'["client"] = finished["client"]
    BY <1>1, <1>7 DEF Writing, DoqInv, DoqTypeOK, Ends
  <2>2. passed["upstream"] \in {0, 1} /\ passed["client"] = 0 /\ read["upstream"] = 0
    BY <2>1 DEF DoqInv, Progress
  <2>3. \/ /\ passed["upstream"] = 0 /\ point' = "forward" /\ finished' = finished
        \/ /\ passed["upstream"] = 1 /\ point' = "response"
    BY <1>1, <1>7, <2>1, <2>2 DEF Whole, WaitAt
  <2>4. put["client"] = 2 /\ ending["client"] = "fin" /\ flaw["client"] \notin 1..2
    BY <2>1 DEF DoqInv, OneWholeQuery
  <2>5. passed["upstream"] + 1 \in 0..MaxHalves
    <3>1. put["client"] \in 0..MaxHalves
      BY DEF DoqInv, DoqTypeOK, Ends
    <3> QED BY <3>1, <2>2, <2>4, MaxHalvesType
  <2>6. passed' \in [Ends -> 0..MaxHalves]
    BY <1>1, <1>7, <2>5 DEF DoqInv, DoqTypeOK
  <2>7. DoqTypeOK'
    BY <1>1, <1>2, <1>4, <1>5, <2>6 DEF DoqInv, DoqTypeOK
  <2>8. Progress'
    <3>1. /\ read' = read /\ passed'["client"] = 0
          /\ \/ point' = "forward" /\ passed'["upstream"] = 1
             \/ point' = "response" /\ passed'["upstream"] = 2
      BY <1>1, <2>1, <2>2, <2>3
    <3>2. Whole(0)
      BY DEF Whole
    <3> QED BY <2>2, <3>1, <3>2 DEF Progress
  <2>9. Outcome'
    BY <1>1, <1>2, <2>1, <2>2, <2>3 DEF DoqInv, Outcome
  <2>10. OneWholeQuery'
    <3>1. /\ passed'["upstream"] <= 2 /\ UNCHANGED <<put, ending, flaw>>
          /\ result' = "none"
      BY <1>1, <1>2, <2>1, <2>2 DEF DoqInv, Outcome
    <3>2. passed'["upstream"] < 2 => finished' = finished /\ ~finished["upstream"]
      BY <1>2, <2>1, <2>2, <2>3 DEF DoqInv, Outcome
    <3> QED BY <2>4, <3>1, <3>2 DEF OneWholeQuery
  <2>11. AnswersAreRelayed'
    BY <1>1, <1>2, <2>1, <2>2 DEF DoqInv, AnswersAreRelayed, Outcome
  <2> QED BY <2>7, <2>8, <2>9, <2>10, <2>11 DEF DoqInv
<1> QED BY <1>6, <1>7 DEF Ends
\* The steps that only wait for something else: the end of the query, a session, a
\* stream, a tick.
LEMMA WaitsKeep ==
    ASSUME DoqInv, QueryEnds \/ GetsStream \/ DoqTick
    PROVE  DoqInv'
<1>1. /\ UNCHANGED <<put, ending, flaw, read, passed, finished, hears, result>>
      /\ InTransaction /\ InTransaction' /\ idle' \in 0..IdleTimeout
  <2>1. CASE QueryEnds \/ GetsStream
    BY <2>1, NewTimer DEF QueryEnds, GetsStream, WaitAt, InTransaction
  <2>2. CASE DoqTick
    <3>1. idle \in 0..IdleTimeout /\ idle < IdleTimeout /\ idle' = idle + 1
      BY <2>2 DEF DoqTick, DoqInv, DoqTypeOK
    <3>2. idle' \in 0..IdleTimeout
      BY <3>1, TimeoutAssumption
    <3> QED BY <2>2, <3>2 DEF DoqTick, InTransaction
  <2> QED BY <2>1, <2>2
<1>2. \/ point' = point
      \/ /\ point = "end of query" /\ point' = "pool" /\ read["client"] = 2
         /\ ending["client"] = "fin" /\ read["client"] = put["client"]
      \/ point = "pool" /\ point' = "open"
      \/ point = "open" /\ point' = "forward"
  BY DEF QueryEnds, GetsStream, DoqTick, WaitAt
<1>3. DoqTypeOK'
  BY <1>1, <1>2 DEF DoqInv, DoqTypeOK
<1>4. Outcome'
  BY <1>1 DEF DoqInv, Outcome
<1>5. AnswersAreRelayed'
  BY <1>1 DEF DoqInv, AnswersAreRelayed
<1>6. Progress'
  BY <1>1, <1>2 DEF DoqInv, Progress
<1>7. OneWholeQuery'
  <2>1. flaw["client"] \notin 1..read["client"]
    BY <1>1 DEF DoqInv, Outcome, Ends
  <2> QED BY <1>1, <1>2, <2>1 DEF DoqInv, OneWholeQuery, InTransaction
<1> QED BY <1>3, <1>4, <1>5, <1>6, <1>7 DEF DoqInv

\* The answer is whole.
LEMMA SuccessKeeps ==
    ASSUME DoqInv, AnswerEnds, Returns("ok")
    PROVE  DoqInv'
<1>1. /\ point = "response" /\ InTransaction
      /\ ending["upstream"] = "fin" /\ read["upstream"] = put["upstream"]
      /\ Whole(read["upstream"])
      /\ UNCHANGED <<put, ending, flaw, read, passed>>
  BY DEF AnswerEnds, InTransaction
<1>2. point' = "done" /\ idle' = 0 /\ result' = "ok"
  BY DEF Returns, WaitAt
<1>3. /\ finished' \in [Ends -> BOOLEAN] /\ hears' = hears
      /\ hears["client"] = "open" => finished'["client"]
      /\ finished'["upstream"] \/ ~finished["upstream"]
  BY DEF Returns, DoqInv, DoqTypeOK, Ends
<1>4. DoqTypeOK'
  BY <1>1, <1>2, <1>3, NewTimer DEF DoqInv, DoqTypeOK
<1>5. Progress' /\ Outcome'
  BY <1>1, <1>2 DEF DoqInv, Progress, Outcome, InTransaction
<1>6. /\ passed["upstream"] = 2 /\ Whole(passed["client"])
      /\ read["upstream"] \in {passed["client"], passed["client"] + 1}
  BY <1>1 DEF DoqInv, Progress
<1>7. put["client"] = 2
  BY <1>1 DEF DoqInv, OneWholeQuery
<1>8. OneWholeQuery'
  BY <1>1, <1>2, <1>6 DEF DoqInv, OneWholeQuery
<1>9. passed["client"] = put["upstream"]
  <2>1. passed["client"] \in Nat
    BY HalvesAreCounted DEF DoqInv, Ends
  <2> QED BY <1>1, <1>6, <2>1 DEF Whole
<1>10. AnswersAreRelayed'
  <2>1. /\ passed["client"] <= read["upstream"] /\ read["upstream"] <= passed["client"] + 2
        /\ flaw["upstream"] # 0 => passed["client"] < flaw["upstream"]
    BY DEF DoqInv, AnswersAreRelayed
  <2>2. ending["upstream"] = "fin" /\ Whole(put["upstream"])
    BY <1>1
  <2> QED BY <1>1, <1>2, <1>3, <1>6, <1>7, <1>9, <2>1, <2>2 DEF AnswersAreRelayed
<1> QED BY <1>4, <1>5, <1>8, <1>10 DEF DoqInv

\* Every step keeps a transaction in order.
LEMMA DoqStepsKeep == DoqInv /\ [DoqNext]_doqVars => DoqInv'
<1> SUFFICES ASSUME DoqInv, [DoqNext]_doqVars PROVE DoqInv'
  OBVIOUS
<1>1. CASE DoqEnds
  BY <1>1, DoqEndsKeep
<1>2. CASE DoqReads
  <2>1. ASSUME NEW e \in Ends, ReadHalf(e) PROVE DoqInv'
    <3>1. CASE Accepts(e)
      BY <2>1, <3>1, ReadHalfKeeps
    <3>2. CASE ~Accepts(e)
      <4>1. InTransaction /\ ReadsAHalf
        BY <2>1 DEF ReadHalf, Reading, InTransaction, ReadsAHalf
      <4>2. Returns("protocol") /\ UNCHANGED <<put, ending, flaw, passed>>
        BY <2>1, <3>2 DEF ReadHalf
      <4> QED BY <4>1, <4>2, FailureKeeps
    <3> QED BY <3>1, <3>2
  <2>2. ASSUME NEW e \in Ends, ReadFails(e) PROVE DoqInv'
    <3>1. InTransaction /\ ReadsAHalf
      BY <2>2 DEF ReadFails, Reading, InTransaction, ReadsAHalf
    <3>2. Returns("protocol") /\ UNCHANGED <<put, ending, flaw, passed>>
      BY <2>2 DEF ReadFails
    <3> QED BY <3>1, <3>2, FailureKeeps
  <2>3. CASE QueryEnds
    BY <2>3, WaitsKeep
  <2>4. CASE AnswerEnds
    <3>1. CASE Returns("ok")
      BY <2>4, <3>1, SuccessKeeps
    <3>2. CASE Returns("protocol")
      <4>1. InTransaction /\ ReadsAHalf /\ UNCHANGED <<put, ending, flaw, passed>>
        BY <2>4 DEF AnswerEnds, InTransaction, ReadsAHalf
      <4> QED BY <3>2, <4>1, FailureKeeps
    <3> QED BY <2>4, <3>1, <3>2 DEF AnswerEnds
  <2> QED BY <1>2, <2>1, <2>2, <2>3, <2>4 DEF DoqReads
<1>3. CASE DoqWrites
  <2>1. CASE GetsStream
    BY <2>1, WaitsKeep
  <2>2. CASE GetsNoStream
    <3>1. InTransaction /\ ReadsAHalf
      BY <2>2 DEF GetsNoStream, InTransaction, ReadsAHalf
    <3>2. Returns("upstream") /\ UNCHANGED <<put, ending, flaw, passed>>
      BY <2>2 DEF GetsNoStream
    <3> QED BY <3>1, <3>2, FailureKeeps
  <2>3. ASSUME NEW e \in Ends, WriteHalf(e) PROVE DoqInv'
    BY <2>3, WriteHalfKeeps
  <2>4. ASSUME NEW e \in Ends, WriteFails(e) PROVE DoqInv'
    <3>1. InTransaction /\ ReadsAHalf /\ UNCHANGED <<put, ending, flaw, passed>>
      BY <2>4 DEF WriteFails, Writing, InTransaction, ReadsAHalf
    <3>2. Returns("protocol") \/ Returns("upstream")
      BY <2>4 DEF WriteFails
    <3> QED BY <3>1, <3>2, FailureKeeps
  <2> QED BY <1>3, <2>1, <2>2, <2>3, <2>4 DEF DoqWrites
<1>4. CASE DoqTimesOut
  <2>1. InTransaction /\ ReadsAHalf
    BY <1>4 DEF DoqTimesOut, ReadsAHalf
  <2>2. Returns("timeout") /\ UNCHANGED <<put, ending, flaw, passed>>
    BY <1>4 DEF DoqTimesOut
  <2> QED BY <2>1, <2>2, FailureKeeps
<1>5. CASE DoqCancelled
  <2>1. InTransaction /\ ReadsAHalf
    BY <1>5 DEF DoqCancelled, ReadsAHalf
  <2>2. Returns("cancelled") /\ UNCHANGED <<put, ending, flaw, passed>>
    BY <1>5 DEF DoqCancelled
  <2> QED BY <2>1, <2>2, FailureKeeps
<1>6. CASE DoqTick
  BY <1>6, WaitsKeep
<1>7. CASE UNCHANGED doqVars
  <2>1. DoqTypeOK'
    BY <1>7 DEF doqVars, DoqInv, DoqTypeOK
  <2>2. Progress'
    BY <1>7 DEF doqVars, DoqInv, Progress
  <2>3. Outcome'
    BY <1>7 DEF doqVars, DoqInv, Outcome, InTransaction
  <2>4. OneWholeQuery'
    BY <1>7 DEF doqVars, DoqInv, OneWholeQuery
  <2>5. AnswersAreRelayed'
    BY <1>7 DEF doqVars, DoqInv, AnswersAreRelayed
  <2> QED BY <2>1, <2>2, <2>3, <2>4, <2>5 DEF DoqInv
<1> QED BY <1>1, <1>2, <1>3, <1>4, <1>5, <1>6, <1>7 DEF DoqNext

-----------------------------------------------------------------------------
\* DoH and DoH3: DohTransaction

Replying == {"reply head", "reply data", "reply end"}

\* All of a request that has no fault was collected.
Faultless == ~ClientFault /\ (HasBody => kept = upload)

\* The client's part: nothing but a faultless request leaves the body behind.
ClientInv ==
    /\ kept <= upload
    /\ step = "headers" => kept = 0
    /\ step = "body" => HasBody /\ request.flaws = {}
    /\ step \in Forwarding \cup Replying \/ counted # "nothing" => Faultless

\* The upstream's part: it is heard from the request on, and what it said is
\* looked at before anything is replied.
UpstreamInv ==
    /\ got <= download
    /\ step \in {"headers", "body"} \cup (Forwarding \ {"head", "collect"}) => head = "none"
    /\ step = "collect" => head # "none"
    /\ step \in {"headers", "body"} \cup Forwarding => counted = "nothing" /\ status = 0
    /\ step \in Replying => counted # "nothing" /\ ~UpstreamFault
    /\ step = "reply head" => status = 0
    /\ counted = "success" => ~UpstreamFault /\ head = "dns" /\ got = download

\* A reply that was begun has the status of the upstream's response; one that DoH
\* made, or that H3 has yet to send, blames whom it should.
StatusInv ==
    /\ step \in Replying => (counted = "success" <=> UpstreamStatus = 200)
    /\ status = 200 => counted = "success"
    /\ status = 503 => head = "other" /\ counted = "failure"
    /\ step = "refuse" =>
          /\ protocol = "h3"
          /\ pending \in {400, 404, 405} => ClientFault \/ ~listens
          /\ pending = 502 => UpstreamFault /\ ~ClientFault
          /\ pending \in {413, 415} => ClientFault \/ counted = "failure"
          /\ pending = 504 => ClientFault \/ ~UpstreamFault
          /\ pending # 0
    /\ protocol = "doh" => step \notin Replying \cup {"refuse"}
    /\ InRequest => protocol \in {"doh", "h3"}

DohInv ==
    /\ DohTypeOK
    /\ ClientInv
    /\ UpstreamInv
    /\ StatusInv
    /\ BlameIsRight

\* What the listener promises follows.
LEMMA InvMeans == DohInv => BlameIsRight /\ OnlyAnswersCount
<1> SUFFICES ASSUME DohInv PROVE BlameIsRight /\ OnlyAnswersCount
  OBVIOUS
<1>1. step \in Steps
  BY DEF DohInv, DohTypeOK
<1>2. step \notin {"headers", "body", "refuse", "done"} => step \in Forwarding \cup Replying
  BY <1>1 DEF Steps, Forwarding, Replying
<1>3. step \notin {"headers", "body", "refuse", "done"} \/ counted # "nothing" =>
          ~ClientFault /\ (HasBody => kept = upload)
  BY <1>2 DEF DohInv, ClientInv, Faultless
<1>4. counted = "success" => ~UpstreamFault /\ head = "dns" /\ got = download
  BY DEF DohInv, UpstreamInv
<1>5. (status = 200 => counted = "success")
      /\ (status = 503 => head = "other" /\ counted = "failure")
  BY DEF DohInv, StatusInv
<1> QED BY <1>3, <1>4, <1>5 DEF DohInv, OnlyAnswersCount

\* A new timer.
LEMMA FreshTimer == 0 \in 0..IdleTimeout
  BY TimeoutAssumption

\* Units are counted.
LEMMA UnitsAreCounted ==
    ASSUME DohTypeOK
    PROVE  /\ upload \in Nat /\ kept \in Nat /\ download \in Nat /\ got \in Nat
           /\ Limit \in Nat \ {0}
           /\ kept \in 0..Limit /\ got \in 0..Limit /\ download \in 0..(Limit + 1)
<1>1. /\ upload \in 0..(Limit + 1) /\ kept \in 0..Limit
      /\ download \in 0..(Limit + 1) /\ got \in 0..Limit
  BY DEF DohTypeOK
<1> QED BY <1>1, DohAssumption

\* The invariant, by its parts.
LEMMA Parts ==
    ASSUME DohInv
    PROVE  DohTypeOK /\ ClientInv /\ UpstreamInv /\ StatusInv /\ BlameIsRight
  BY DEF DohInv

\* No more was collected than was sent.
LEMMA CollectsWhatWasSent == DohInv => kept <= upload /\ got <= download
<1> SUFFICES ASSUME DohInv PROVE kept <= upload /\ got <= download
  OBVIOUS
<1>1. kept <= upload
  BY Parts DEF ClientInv
<1>2. got <= download
  BY Parts DEF UpstreamInv
<1> QED BY <1>1, <1>2

\* The text of an error has no phrase of a 404 or a 405 in it unless a check says so.
LEMMA EchoedPhrases == request \in Requests => request.echo \subseteq {413, 415}
  BY DEF Requests

\* What a check refuses is refused with a status that blames the client.
LEMMA ChecksAreStatuses ==
    ASSUME NEW i \in DOMAIN Checks
    PROVE  /\ Checks[i].plain \in {400, 404, 405, 415}
           /\ Checks[i].phrases \subseteq {404, 405, 413, 415}
<1> DEFINE Right(c) == /\ c.plain \in {400, 404, 405, 415}
                       /\ c.phrases \subseteq {404, 405, 413, 415}
<1>1. i \in 1..8
  BY DEF Checks
<1>2. Right(Checks[1]) /\ Right(Checks[3]) /\ Right(Checks[4]) /\ Right(Checks[5])
  BY DEF Checks, Check
<1>3. Right(Checks[6]) /\ Right(Checks[7])
  BY DEF Checks, Check
<1>4. Right(Checks[2]) /\ Right(Checks[8])
  <2>1. Right(Checks[2])
    <3>1. Checks[2] = Check("no host", 400, {}, {413, 415})
      BY DEF Checks
    <3>2. ASSUME NEW quotes PROVE Right(Check("no host", 400, {}, quotes))
      BY DEF Check
    <3> HIDE DEF Right
    <3>3. Right(Check("no host", 400, {}, {413, 415}))
      BY <3>2, Zenon
    <3> QED BY <3>1, <3>3, Zenon
  <2>2. Right(Checks[8])
    <3>1. Checks[8].plain = 400
      BY SMTT(30) DEF Checks, Check
    <3>2. Checks[8].phrases = {}
      BY SMTT(30) DEF Checks, Check
    <3> QED BY <3>1, <3>2
  <2> QED BY <2>1, <2>2
<1> HIDE DEF Right
<1>5. Right(Checks[i])
  BY <1>1, <1>2, <1>3, <1>4
<1> QED BY <1>5 DEF Right

\* A request that has not begun is in order.
LEMMA DohStarts == DohInit => DohInv
<1> SUFFICES ASSUME DohInit PROVE DohInv
  OBVIOUS
<1>1. DohTypeOK
  BY DohAssumption, FreshTimer DEF DohInit, DohFresh, DohTypeOK, Steps
<1>2. ClientInv /\ UpstreamInv
  BY DohAssumption DEF DohInit, DohFresh, ClientInv, UpstreamInv, Forwarding, Replying
<1>3. StatusInv /\ BlameIsRight
  BY DEF DohInit, DohFresh, StatusInv, BlameIsRight, Replying
<1> QED BY <1>1, <1>2, <1>3 DEF DohInv

\* What the client and the upstream do.
LEMMA DohEndsKeep ==
    ASSUME DohInv, DohEnds
    PROVE  DohInv'
<1>1. CASE Uploads
  <2>1. /\ step \in {"headers", "body"} /\ HasBody /\ uploadEnd = "open"
        /\ \/ upload <= Limit /\ upload' = upload + 1 /\ uploadEnd' = uploadEnd
           \/ uploadEnd' \in {"fin", "broken"} /\ upload' = upload
        /\ UNCHANGED <<protocol, request, kept, step, since, head, download, downloadEnd,
                       got, listens, pending, status, counted>>
    BY <1>1 DEF Uploads, upstreamVars
  <2>2. upload \in Nat /\ kept \in Nat /\ Limit \in Nat
    BY UnitsAreCounted DEF DohInv
  <2>3. upload' \in 0..(Limit + 1) /\ kept <= upload'
    BY <2>1, <2>2 DEF DohInv, DohTypeOK, ClientInv
  <2>4. DohTypeOK'
    BY <2>1, <2>3 DEF DohInv, DohTypeOK
  <2>5. counted = "nothing" /\ status = 0
    BY <2>1 DEF DohInv, UpstreamInv
  <2>6. ClientInv'
    BY <2>1, <2>3, <2>5 DEF DohInv, ClientInv, HasBody, Forwarding, Replying
  <2>7. UpstreamInv'
    BY <2>1 DEF DohInv, UpstreamInv, UpstreamFault
  <2>8. StatusInv'
    BY <2>1, <2>5 DEF DohInv, StatusInv, Replying, InRequest
  <2>9. BlameIsRight'
    BY <2>1, <2>5 DEF BlameIsRight
  <2> QED BY <2>4, <2>6, <2>7, <2>8, <2>9 DEF DohInv
<1>2. CASE ClientLeaves
  <2>1. /\ InRequest /\ listens /\ listens' = FALSE
        /\ uploadEnd' = IF uploadEnd = "open" /\ step \in {"headers", "body"}
                        THEN "broken" ELSE uploadEnd
        /\ UNCHANGED <<protocol, request, upload, kept, step, since, head, download,
                       downloadEnd, got, pending, status, counted>>
    BY <1>2 DEF ClientLeaves, upstreamVars
  <2>6. uploadEnd \in {"open", "fin", "broken"}
    BY Parts DEF DohTypeOK
  <2>5. uploadEnd' \in {"open", "fin", "broken"} /\ listens' \in BOOLEAN
    BY <2>1, <2>6
  <2>2. DohTypeOK'
    BY <2>1, <2>5 DEF DohInv, DohTypeOK
  <2>3. CASE step \in {"headers", "body"}
    <3>1. counted = "nothing" /\ status = 0
      BY <2>3 DEF DohInv, UpstreamInv
    <3>2. ClientInv'
      BY <2>1, <2>3, <3>1 DEF DohInv, ClientInv, HasBody, Forwarding, Replying
    <3>3. UpstreamInv'
      BY <2>1 DEF DohInv, UpstreamInv, UpstreamFault
    <3>4. StatusInv'
      BY <2>1, <2>3, <3>1 DEF DohInv, StatusInv, Replying, InRequest
    <3>5. BlameIsRight'
      BY <2>1, <3>1 DEF BlameIsRight
    <3> QED BY <2>2, <3>2, <3>3, <3>4, <3>5 DEF DohInv
  <2>4. CASE step \notin {"headers", "body"}
    <3>1. uploadEnd' = uploadEnd
      BY <2>1, <2>4
    <3>2. ClientInv'
      BY <2>1, <3>1 DEF DohInv, ClientInv, HasBody, Faultless, ClientFault
    <3>3. UpstreamInv'
      BY <2>1 DEF DohInv, UpstreamInv, UpstreamFault
    <3>4. StatusInv'
      BY <2>1, <3>1 DEF DohInv, StatusInv, ClientFault, UpstreamFault, HasBody, UpstreamStatus
    <3>5. BlameIsRight'
      BY <2>1, <3>1 DEF DohInv, BlameIsRight, ClientFault, UpstreamFault, HasBody
    <3> QED BY <2>2, <3>2, <3>3, <3>4, <3>5 DEF DohInv
  <2> QED BY <2>3, <2>4
<1>3. CASE Answers
  <2>1. /\ step \in {"head", "collect"} /\ downloadEnd = "open"
        /\ \/ head = "none" /\ head' \in {"dns", "page", "other"}
              /\ download' = download /\ downloadEnd' = downloadEnd
           \/ head # "none" /\ download <= Limit /\ download' = download + 1
              /\ head' = head /\ downloadEnd' = downloadEnd
           \/ downloadEnd' \in {"fin", "broken"} /\ head' = head /\ download' = download
        /\ UNCHANGED <<protocol, request, upload, uploadEnd, kept, step, since, got,
                       listens, pending, status, counted>>
    BY <1>3 DEF Answers, clientVars
  <2>2. download \in Nat /\ got \in Nat /\ Limit \in Nat
    BY UnitsAreCounted DEF DohInv
  <2>10. got <= download /\ download \in 0..(Limit + 1)
    BY UnitsAreCounted, CollectsWhatWasSent, Parts
  <2>11. download' = download \/ (download <= Limit /\ download' = download + 1)
    BY <2>1
  <2>3. download' \in 0..(Limit + 1) /\ got <= download'
    BY <2>2, <2>10, <2>11
  <2>4. DohTypeOK'
    BY <2>1, <2>3 DEF DohInv, DohTypeOK
  <2>5. counted = "nothing" /\ status = 0
    BY <2>1 DEF DohInv, UpstreamInv, Forwarding
  <2>6. ClientInv'
    BY <2>1 DEF DohInv, ClientInv, HasBody, Faultless, ClientFault
  <2>7. UpstreamInv'
    BY <2>1, <2>3, <2>5 DEF DohInv, UpstreamInv, Forwarding, Replying
  <2>8. StatusInv'
    BY <2>1, <2>5 DEF DohInv, StatusInv, Replying, InRequest
  <2>9. BlameIsRight'
    BY <2>1, <2>5 DEF BlameIsRight
  <2> QED BY <2>4, <2>6, <2>7, <2>8, <2>9 DEF DohInv
<1> QED BY <1>1, <1>2, <1>3 DEF DohEnds

\* The statuses of answers are different, and neither is none.
LEMMA Different == 0 # 200 /\ 0 # 503 /\ 200 # 503
  OBVIOUS

\* The handler changes nothing of what the two ends did, so whoever was at fault is.
LEMMA FaultsStay ==
    ASSUME UNCHANGED <<protocol, clientVars, upstreamVars>>
    PROVE  /\ ClientFault' <=> ClientFault
           /\ UpstreamFault' <=> UpstreamFault
           /\ HasBody' <=> HasBody
           /\ UpstreamStatus' = UpstreamStatus
  BY DEF clientVars, upstreamVars, ClientFault, UpstreamFault, HasBody, UpstreamStatus

\* What the two ends did is what they did.
LEMMA EndsStay ==
    ASSUME UNCHANGED <<protocol, clientVars, upstreamVars>>
    PROVE  /\ protocol' = protocol /\ request' = request
           /\ upload' = upload /\ uploadEnd' = uploadEnd /\ listens' = listens
           /\ head' = head /\ download' = download /\ downloadEnd' = downloadEnd
  BY DEF clientVars, upstreamVars

\* The type of what the handler changes is all that there is to show.
LEMMA TypeStays ==
    ASSUME DohTypeOK, UNCHANGED <<protocol, clientVars, upstreamVars>>,
           kept' \in 0..Limit, step' \in Steps, since' \in 0..IdleTimeout,
           got' \in 0..Limit,
           pending' \in {0, 400, 404, 405, 413, 415, 502, 504},
           status' \in {0, 200, 400, 404, 405, 408, 413, 415, 502, 503, 504},
           counted' \in {"nothing", "success", "failure"}
    PROVE  DohTypeOK'
  BY EndsStay DEF DohTypeOK

\* A request is over: what was right before it stays so.
LEMMA DoneKeeps ==
    ASSUME DohInv, StepTo("done"),
           UNCHANGED <<protocol, clientVars, upstreamVars, kept, got, pending, counted>>,
           status' \in {0, 200, 400, 404, 405, 408, 413, 415, 502, 503, 504},
           BlameIsRight',
           status' = 200 => counted = "success",
           status' = 503 => head = "other" /\ counted = "failure"
    PROVE  DohInv'
<1>1. step' = "done" /\ since' \in 0..IdleTimeout
  BY FreshTimer DEF StepTo
<1>2. DohTypeOK'
  <2>1. /\ kept \in 0..Limit /\ got \in 0..Limit
        /\ pending \in {0, 400, 404, 405, 413, 415, 502, 504}
        /\ counted \in {"nothing", "success", "failure"}
    BY DEF DohInv, DohTypeOK
  <2> QED BY <1>1, <2>1, TypeStays DEF DohInv, Steps
<1>3. ClientInv'
  <2>1. kept <= upload /\ (counted # "nothing" => Faultless)
    BY DEF DohInv, ClientInv
  <2>2. Faultless => Faultless'
    BY FaultsStay, EndsStay DEF Faultless
  <2> QED BY <1>1, <2>1, <2>2, EndsStay DEF ClientInv, Forwarding, Replying
<1>4. UpstreamInv'
  <2>1. got <= download
        /\ (counted = "success" => ~UpstreamFault /\ head = "dns" /\ got = download)
    BY Parts, Zenon DEF UpstreamInv
  <2> QED BY <1>1, <2>1, FaultsStay, EndsStay DEF UpstreamInv, Forwarding, Replying
<1>5. StatusInv'
  BY <1>1 DEF StatusInv, Replying, InRequest, upstreamVars
<1> QED BY <1>2, <1>3, <1>4, <1>5 DEF DohInv

\* An error response of H3 is left to be sent.
LEMMA RefusalKeeps ==
    ASSUME DohInv, StepTo("refuse"), protocol = "h3",
           UNCHANGED <<protocol, clientVars, upstreamVars, kept, got, status>>,
           counted' \in {"nothing", "failure"} \/ counted' = counted,
           counted' # "nothing" => Faultless,
           counted' # counted => status = 0,
           pending' \in {400, 404, 405, 413, 415, 502, 504},
           pending' \in {400, 404, 405} => ClientFault \/ ~listens,
           pending' = 502 => UpstreamFault /\ ~ClientFault,
           pending' \in {413, 415} => ClientFault \/ counted' = "failure",
           pending' = 504 => ClientFault \/ ~UpstreamFault
    PROVE  DohInv'
<1>1. step' = "refuse" /\ since' \in 0..IdleTimeout
  BY FreshTimer DEF StepTo
<1>2. DohTypeOK'
  <2>1. /\ kept \in 0..Limit /\ got \in 0..Limit
        /\ status \in {0, 200, 400, 404, 405, 408, 413, 415, 502, 503, 504}
        /\ counted \in {"nothing", "success", "failure"}
    BY DEF DohInv, DohTypeOK
  <2>2. step' \in Steps /\ counted' \in {"nothing", "success", "failure"}
    BY <1>1, <2>1 DEF Steps
  <2>3. pending' \in {0, 400, 404, 405, 413, 415, 502, 504}
    OBVIOUS
  <2> QED BY <1>1, <2>1, <2>2, <2>3, TypeStays DEF DohInv
<1>3. ClientInv'
  <2>1. kept <= upload
    BY DEF DohInv, ClientInv
  <2>2. Faultless => Faultless'
    BY FaultsStay, EndsStay DEF Faultless
  <2> QED BY <1>1, <2>1, <2>2, EndsStay DEF ClientInv, Forwarding, Replying
<1>4. UpstreamInv'
  <2>1. counted = "success" => ~UpstreamFault /\ head = "dns" /\ got = download
    BY Parts, Zenon DEF UpstreamInv
  <2>2. counted' = "success" => counted = "success"
    OBVIOUS
  <2>3. counted' = "success" => ~UpstreamFault' /\ head' = "dns" /\ got' = download'
    BY <2>1, <2>2, FaultsStay, EndsStay
  <2>4. got' <= download'
    BY CollectsWhatWasSent, EndsStay
  <2> QED BY <1>1, <2>3, <2>4 DEF UpstreamInv, Forwarding, Replying
<1>5. StatusInv'
  <2>1. (status' = 200 => counted' = "success")
        /\ (status' = 503 => head' = "other" /\ counted' = "failure")
    BY DEF DohInv, StatusInv, upstreamVars
  <2>2. pending' # 0 /\ protocol' = "h3" /\ listens' = listens
    BY DEF clientVars
  <2> QED BY <1>1, <2>1, <2>2, FaultsStay DEF StatusInv, Replying, InRequest
<1>6. BlameIsRight'
  <2>1. status' # 0 => counted' = counted
    OBVIOUS
  <2> QED BY <2>1, FaultsStay DEF DohInv, BlameIsRight
<1> QED BY <1>2, <1>3, <1>4, <1>5, <1>6 DEF DohInv

\* A request that was not forwarded is rejected: the client is to blame.
LEMMA RejectionKeeps ==
    ASSUME DohInv, InRequest, step \notin Replying, counted = "nothing", status = 0,
           UNCHANGED <<protocol, clientVars, upstreamVars, kept, got, counted>>,
           ClientFault,
           NEW plain \in {400, 404, 405, 408, 413, 415},
           NEW type \in {"client", "timeout"},
           NEW phrases \in SUBSET {404, 405, 413, 415},
           Rejects(plain, type, phrases)
    PROVE  DohInv'
<1>1. CASE protocol = "doh"
  <2>1. StepTo("done") /\ status' = plain /\ pending' = pending
    BY <1>1 DEF Rejects
  <2>2. BlameIsRight'
    BY <1>1, <2>1, FaultsStay DEF BlameIsRight
  <2> QED BY <2>1, <2>2, DoneKeeps
<1>2. CASE protocol # "doh"
  <2>1. StepTo("refuse") /\ pending' = H3Status(type, phrases) /\ status' = status
    BY <1>2 DEF Rejects
  <2>2. pending' \in {400, 404, 405, 413, 415, 504}
    BY <2>1 DEF H3Status
  <2>3. protocol = "h3"
    BY <1>2 DEF DohInv, StatusInv
  <2> QED BY <2>1, <2>2, <2>3, RefusalKeeps
<1> QED BY <1>1, <1>2

\* Forwarding has failed: the upstream is to blame.
LEMMA ForwardingFails ==
    ASSUME DohInv, step \in Forwarding, UpstreamFault,
           UNCHANGED <<protocol, clientVars, upstreamVars, kept, got>>,
           NEW plain \in {502, 504}, NEW phrases \in SUBSET {413},
           ForwardFails(plain, phrases)
    PROVE  DohInv'
<1>1. Faultless /\ ~ClientFault
  BY DEF DohInv, ClientInv, Faultless
<1>2. counted = "nothing" /\ status = 0 /\ counted' = "failure"
  BY DEF DohInv, UpstreamInv, ForwardFails
<1>3. Rejects(plain, "upstream", phrases \cup request.echo)
  BY DEF ForwardFails
<1>4. CASE protocol = "doh"
  <2>1. step' = "done" /\ since' \in 0..IdleTimeout /\ status' = plain /\ pending' = pending
    BY <1>3, <1>4, FreshTimer DEF Rejects, StepTo
  <2>2. DohTypeOK'
    <3>1. /\ kept \in 0..Limit /\ got \in 0..Limit
          /\ pending \in {0, 400, 404, 405, 413, 415, 502, 504}
      BY DEF DohInv, DohTypeOK
    <3> QED BY <1>2, <2>1, <3>1, TypeStays DEF DohInv, Steps
  <2>3. ClientInv'
    <3>1. kept <= upload
      BY DEF DohInv, ClientInv
    <3>2. Faultless'
      BY <1>1, FaultsStay, EndsStay DEF Faultless
    <3> QED BY <2>1, <3>1, <3>2, EndsStay DEF ClientInv, Forwarding, Replying
  <2>4. UpstreamInv'
    <3>1. got <= download
      BY DEF DohInv, UpstreamInv
    <3> QED BY <1>2, <2>1, <3>1, EndsStay DEF UpstreamInv, Forwarding, Replying
  <2>5. StatusInv'
    BY <1>2, <2>1 DEF StatusInv, Replying, InRequest
  <2>6. BlameIsRight'
    BY <1>1, <1>4, <2>1, FaultsStay DEF BlameIsRight
  <2> QED BY <2>2, <2>3, <2>4, <2>5, <2>6 DEF DohInv
<1>5. CASE protocol # "doh"
  <2>1. /\ StepTo("refuse") /\ status' = status
        /\ pending' = H3Status("upstream", phrases \cup request.echo)
    BY <1>3, <1>5 DEF Rejects
  <2>6. request \in Requests
    BY DEF DohInv, DohTypeOK
  <2>5. request.echo \subseteq {413, 415}
    BY <2>6, EchoedPhrases
  <2>7. phrases \subseteq {413}
    OBVIOUS
  <2>2. 404 \notin phrases \cup request.echo /\ 405 \notin phrases \cup request.echo
    BY <2>5, <2>7
  <2>3. pending' \in {413, 415, 502}
    BY <2>1, <2>2 DEF H3Status
  <2>4. protocol = "h3"
    BY <1>5 DEF DohInv, StatusInv, InRequest, Forwarding
  <2> QED BY <1>1, <1>2, <2>1, <2>3, <2>4, RefusalKeeps
<1> QED BY <1>4, <1>5

\* A step of a faultless request on its way to the upstream and back.
LEMMA ProgressKeeps ==
    ASSUME DohInv, step \in {"headers", "body"} \cup Forwarding,
           UNCHANGED <<protocol, clientVars, upstreamVars, pending, status, counted>>,
           since' \in 0..IdleTimeout,
           step' \in {"body"} \cup Forwarding,
           kept' \in 0..Limit, kept' <= upload,
           got' \in 0..Limit, got' <= download,
           step' = "body" => HasBody /\ request.flaws = {},
           step' \in Forwarding => ~ClientFault /\ (HasBody => kept' = upload),
           step' \in {"body"} \cup (Forwarding \ {"head", "collect"}) => head = "none",
           step' = "collect" => head # "none"
    PROVE  DohInv'
<1>1. counted = "nothing" /\ status = 0
  BY DEF DohInv, UpstreamInv
<1>2. step' \in Steps
  BY DEF Steps, Forwarding
<1>3. DohTypeOK'
  BY <1>2, EndsStay DEF DohInv, DohTypeOK
<1>4. ClientInv'
  <2>1. step' \notin Replying \cup {"headers"} /\ upload' = upload
    BY DEF Forwarding, Replying, clientVars
  <2>2. request' = request
    BY DEF clientVars
  <2> QED BY <1>1, <2>1, <2>2, FaultsStay DEF ClientInv, Faultless
<1>5. UpstreamInv'
  <2>1. step' \notin Replying /\ step' # "reply head"
    BY DEF Forwarding, Replying
  <2>2. head' = head /\ download' = download
    BY DEF upstreamVars
  <2> QED BY <1>1, <2>1, <2>2 DEF UpstreamInv
<1>6. StatusInv'
  <2>1. step' \notin Replying \cup {"refuse"}
    BY DEF Forwarding, Replying
  <2>2. protocol \in {"doh", "h3"}
    BY DEF DohInv, StatusInv, InRequest, Forwarding
  <2> QED BY <1>1, <2>1, <2>2 DEF StatusInv
<1>7. BlameIsRight'
  BY <1>1 DEF BlameIsRight
<1> QED BY <1>3, <1>4, <1>5, <1>6, <1>7 DEF DohInv

\* The head of the request, and its body, are read.
LEMMA BeginningKeeps ==
    ASSUME DohInv, Begins \/ HeadersFail \/ BodyUnit \/ BodyEnds \/ BodyFails
    PROVE  DohInv'
<1>0. upload \in Nat /\ kept \in Nat /\ got \in 0..Limit /\ Limit \in Nat \ {0}
  BY UnitsAreCounted DEF DohInv, DohTypeOK
<1>1. step \in {"headers", "body"} => counted = "nothing" /\ status = 0
  BY DEF DohInv, UpstreamInv
<1>2. got <= download /\ kept <= upload /\ kept \in 0..Limit
  BY UnitsAreCounted, CollectsWhatWasSent, Parts
<1>3. CASE Begins
  <2>1. /\ step = "headers" /\ got' = got /\ kept' = kept
        /\ UNCHANGED <<protocol, clientVars, upstreamVars, counted>>
    BY <1>3 DEF Begins
  <2>2. CASE request.flaws = {} /\ StepTo(AfterHead) /\ UNCHANGED <<pending, status>>
    <3>1. step' = (IF HasBody THEN "body" ELSE "session") /\ since' \in 0..IdleTimeout
      BY <2>2, FreshTimer DEF StepTo, AfterHead
    <3>2. step' \in {"body"} \cup Forwarding /\ step' # "collect"
      BY <3>1 DEF Forwarding
    <3>3. step' = "body" => HasBody /\ request.flaws = {}
      BY <2>2, <3>1
    <3>4. step' \in Forwarding => ~ClientFault /\ (HasBody => kept' = upload)
      BY <2>2, <3>1 DEF Forwarding, ClientFault
    <3>5. head = "none"
      BY <2>1 DEF DohInv, UpstreamInv
    <3> QED BY <1>2, <2>1, <2>2, <3>1, <3>2, <3>3, <3>4, <3>5, <1>0, ProgressKeeps
  <2>3. CASE \E i \in DOMAIN Checks :
               /\ Checks[i].flaw \in request.flaws
               /\ Rejects(Checks[i].plain, "client",
                          Checks[i].phrases
                             \cup (request.echo \cap Checks[i].quotes))
    <3>0. PICK i \in DOMAIN Checks :
               /\ Checks[i].flaw \in request.flaws
               /\ Rejects(Checks[i].plain, "client",
                          Checks[i].phrases
                             \cup (request.echo \cap Checks[i].quotes))
      BY <2>3
    <3> DEFINE phrases == Checks[i].phrases \cup (request.echo \cap Checks[i].quotes)
    <3>1. ClientFault
      BY <3>0 DEF ClientFault
    <3>2. request.echo \subseteq {413, 415}
      BY EchoedPhrases DEF DohInv, DohTypeOK
    <3>3. Checks[i].plain \in {400, 404, 405, 408, 413, 415}
          /\ phrases \in SUBSET {404, 405, 413, 415}
      BY <3>0, <3>2, ChecksAreStatuses
    <3>4. InRequest /\ step \notin Replying
      BY <2>1 DEF InRequest, Replying
    <3>5. Rejects(Checks[i].plain, "client", phrases)
      BY <3>0
    <3> HIDE DEF phrases
    <3>6. PICK plain \in {400, 404, 405, 408, 413, 415},
               said \in SUBSET {404, 405, 413, 415} : Rejects(plain, "client", said)
      BY <3>3, <3>5
    <3> QED BY <1>1, <2>1, <3>1, <3>4, <3>6, RejectionKeeps
  <2> QED BY <1>3, <2>2, <2>3 DEF Begins
<1>4. CASE HeadersFail
  <2>1. /\ step = "headers" /\ StepTo("done")
        /\ UNCHANGED <<protocol, clientVars, upstreamVars, kept, got, pending, counted>>
        /\ status' = status
    BY <1>4 DEF HeadersFail
  <2>2. BlameIsRight'
    BY <1>1, <2>1 DEF BlameIsRight
  <2> QED BY <1>1, <2>1, <2>2, DoneKeeps
<1>5. CASE BodyUnit
  <2>1. /\ step = "body" /\ kept < upload /\ got' = got
        /\ UNCHANGED <<protocol, clientVars, upstreamVars, counted>>
    BY <1>5 DEF BodyUnit
  <2>2. HasBody /\ request.flaws = {}
    BY <2>1 DEF DohInv, ClientInv
  <2>3. CASE kept = Limit
    <3>1. Rejects(413, "client", {413}) /\ kept' = kept
      BY <1>5, <2>3 DEF BodyUnit
    <3>2. upload \notin 1..Limit
      BY <1>0, <2>1, <2>3
    <3>3. ClientFault
      BY <2>2, <3>2 DEF ClientFault
    <3>4. InRequest /\ step \notin Replying
      BY <2>1 DEF InRequest, Replying
    <3> QED BY <1>1, <2>1, <3>1, <3>3, <3>4, RejectionKeeps
  <2>4. CASE kept # Limit
    <3>1. kept' = kept + 1 /\ StepTo(step) /\ UNCHANGED <<pending, status>>
      BY <1>5, <2>4 DEF BodyUnit
    <3>2. step' = "body" /\ since' \in 0..IdleTimeout
      BY <2>1, <3>1, FreshTimer DEF StepTo
    <3>3. kept' \in 0..Limit /\ kept' <= upload
      BY <1>0, <1>2, <2>1, <2>4, <3>1
    <3>4. step' \notin Forwarding
      BY <3>2 DEF Forwarding
    <3>5. head = "none"
      BY <2>1 DEF DohInv, UpstreamInv
    <3> QED BY <1>0, <1>2, <2>1, <2>2, <3>1, <3>2, <3>3, <3>4, <3>5, ProgressKeeps
  <2> QED BY <2>3, <2>4
<1>6. CASE BodyEnds
  <2>1. /\ step = "body" /\ got' = got /\ kept' = kept
        /\ kept = upload /\ uploadEnd = "fin"
        /\ UNCHANGED <<protocol, clientVars, upstreamVars, counted>>
    BY <1>6 DEF BodyEnds
  <2>2. HasBody /\ request.flaws = {}
    BY <2>1 DEF DohInv, ClientInv
  <2>3. CASE kept = 0
    <3>1. Rejects(400, "client", {413})
      BY <1>6, <2>3 DEF BodyEnds
    <3>2. upload \notin 1..Limit
      BY <1>0, <2>1, <2>3
    <3>3. ClientFault
      BY <2>2, <3>2 DEF ClientFault
    <3>4. InRequest /\ step \notin Replying
      BY <2>1 DEF InRequest, Replying
    <3> QED BY <1>1, <2>1, <3>1, <3>3, <3>4, RejectionKeeps
  <2>4. CASE kept # 0
    <3>1. StepTo("session") /\ UNCHANGED <<pending, status>>
      BY <1>6, <2>4 DEF BodyEnds
    <3>2. step' = "session" /\ since' \in 0..IdleTimeout
      BY <3>1, FreshTimer DEF StepTo
    <3>3. upload \in 1..Limit
      BY <1>0, <1>2, <2>1, <2>4
    <3>4. ~ClientFault /\ kept' = upload
      BY <2>1, <2>2, <3>3 DEF ClientFault
    <3>5. head = "none" /\ step' \in Forwarding
      BY <2>1, <3>2 DEF DohInv, UpstreamInv, Forwarding
    <3>6. kept' \in 0..Limit /\ kept' <= upload /\ got' \in 0..Limit /\ got' <= download
      BY <1>0, <1>2, <2>1
    <3> QED BY <2>1, <3>1, <3>2, <3>4, <3>5, <3>6, ProgressKeeps
  <2> QED BY <2>3, <2>4
<1>7. CASE BodyFails
  <2>1. /\ step = "body" /\ uploadEnd = "broken" /\ Rejects(400, "client", {})
        /\ UNCHANGED <<protocol, clientVars, upstreamVars, kept, got, counted>>
    BY <1>7 DEF BodyFails
  <2>2. ClientFault
    BY <2>1 DEF DohInv, ClientInv, ClientFault
  <2>3. InRequest /\ step \notin Replying
    BY <2>1 DEF InRequest, Replying
  <2> QED BY <1>1, <2>1, <2>2, <2>3, RejectionKeeps
<1> QED BY <1>3, <1>4, <1>5, <1>6, <1>7

\* The request goes to the upstream, and its answer comes back.
LEMMA ForwardingKeeps ==
    ASSUME DohInv,
           SessionOpens \/ Sends \/ SendFails \/ HeadArrives \/ HeadFails
              \/ AnswerUnit \/ AnswerIsWhole \/ AnswerFails
    PROVE  DohInv'
<1>0. /\ kept \in 0..Limit /\ got \in 0..Limit /\ Limit \in Nat
      /\ download \in Nat /\ kept <= upload /\ got <= download
  BY UnitsAreCounted, CollectsWhatWasSent, Parts
<1>1. step \in Forwarding =>
         /\ Faultless /\ ~ClientFault /\ (HasBody => kept = upload)
         /\ counted = "nothing" /\ status = 0 /\ step \notin {"headers", "body"}
  BY DEF DohInv, ClientInv, UpstreamInv, Faultless, Forwarding
<1>2. CASE SessionOpens \/ Sends
  <2>1. /\ step \in Forwarding \ {"head", "collect"}
        /\ step' \in Forwarding \ {"collect"}
        /\ since' = 0 /\ kept' = kept /\ got' = got
        /\ UNCHANGED <<protocol, clientVars, upstreamVars, pending, status, counted>>
    BY <1>2 DEF SessionOpens, Sends, StepTo, Forwarding
  <2>2. head = "none"
    BY <2>1 DEF DohInv, UpstreamInv
  <2>3. step' \notin {"body", "collect"}
    BY <2>1 DEF Forwarding
  <2> QED BY <1>0, <1>1, <2>1, <2>2, <2>3, FreshTimer, ProgressKeeps
<1>3. CASE SendFails
  <2>1. /\ step \in Forwarding \ {"head", "collect"} /\ ForwardFails(502, {})
        /\ UNCHANGED <<protocol, clientVars, upstreamVars, kept, got>>
    BY <1>3 DEF SendFails, Forwarding
  <2>2. UpstreamFault
    BY <2>1 DEF DohInv, UpstreamInv, UpstreamFault
  <2> QED BY <2>1, <2>2, ForwardingFails
<1>4. CASE HeadArrives
  <2>1. /\ step = "head" /\ head # "none" /\ step' = "collect" /\ since' = 0
        /\ kept' = kept /\ got' = got
        /\ UNCHANGED <<protocol, clientVars, upstreamVars, pending, status, counted>>
    BY <1>4 DEF HeadArrives, StepTo
  <2>2. step \in Forwarding /\ step' \in Forwarding
    BY <2>1 DEF Forwarding
  <2> QED BY <1>0, <1>1, <2>1, <2>2, FreshTimer, ProgressKeeps
<1>5. CASE HeadFails
  <2>1. /\ step = "head" /\ head = "none" /\ ForwardFails(502, {})
        /\ UNCHANGED <<protocol, clientVars, upstreamVars, kept, got>>
    BY <1>5 DEF HeadFails
  <2>2. UpstreamFault /\ step \in Forwarding
    BY <2>1 DEF UpstreamFault, Forwarding
  <2> QED BY <2>1, <2>2, ForwardingFails
<1>6. CASE AnswerUnit
  <2>1. /\ step = "collect" /\ step \in Forwarding /\ got < download
        /\ UNCHANGED <<protocol, clientVars, upstreamVars, kept>>
    BY <1>6 DEF AnswerUnit, Forwarding
  <2>2. CASE got = Limit
    <3>1. ForwardFails(502, {413}) /\ got' = got
      BY <1>6, <2>2 DEF AnswerUnit
    <3>2. ~(download <= Limit)
      BY <1>0, <2>1, <2>2
    <3>3. UpstreamFault
      BY <3>2 DEF UpstreamFault
    <3> QED BY <2>1, <3>1, <3>3, ForwardingFails
  <2>3. CASE got # Limit
    <3>1. got' = got + 1 /\ StepTo(step) /\ UNCHANGED <<pending, status, counted>>
      BY <1>6, <2>3 DEF AnswerUnit
    <3>2. step' = "collect" /\ step' \in Forwarding /\ since' = 0
      BY <2>1, <3>1 DEF StepTo
    <3>3. got' \in 0..Limit /\ got' <= download
      BY <1>0, <2>1, <2>3, <3>1
    <3>4. head # "none"
      BY <2>1 DEF DohInv, UpstreamInv
    <3> QED BY <1>0, <1>1, <2>1, <3>1, <3>2, <3>3, <3>4, FreshTimer, ProgressKeeps
  <2> QED BY <2>2, <2>3
<1>7. CASE AnswerFails
  <2>1. /\ step = "collect" /\ downloadEnd = "broken" /\ ForwardFails(502, {})
        /\ UNCHANGED <<protocol, clientVars, upstreamVars, kept, got>>
    BY <1>7 DEF AnswerFails
  <2>2. UpstreamFault /\ step \in Forwarding
    BY <2>1 DEF UpstreamFault, Forwarding
  <2> QED BY <2>1, <2>2, ForwardingFails
<1>8. CASE AnswerIsWhole
  <2>1. /\ step = "collect" /\ step \in Forwarding /\ got = download /\ downloadEnd = "fin"
        /\ UNCHANGED <<protocol, clientVars, upstreamVars, kept, got>>
    BY <1>8 DEF AnswerIsWhole, Forwarding
  <2>2. CASE head = "page" \/ (head = "dns" /\ got = 0)
    <3>1. ForwardFails(502, {}) \/ ForwardFails(502, {413})
      BY <1>8, <2>2 DEF AnswerIsWhole
    <3>2. UpstreamFault
      BY <1>0, <2>1, <2>2 DEF UpstreamFault
    <3> QED BY <2>1, <3>1, <3>2, ForwardingFails
  <2>3. CASE ~(head = "page" \/ (head = "dns" /\ got = 0))
    <3>1. Forwarded(UpstreamStatus)
      BY <1>8, <2>3 DEF AnswerIsWhole
    <3>2. head \in {"dns", "other"} /\ (head = "dns" => got # 0)
      BY <2>1, <2>3 DEF DohInv, DohTypeOK, UpstreamInv
    <3>3. ~UpstreamFault
      BY <1>0, <2>1, <3>2 DEF UpstreamFault
    <3>13. UpstreamStatus = IF head = "dns" THEN 200 ELSE 503
      BY <3>2 DEF UpstreamStatus
    <3>14. (UpstreamStatus = 200) <=> head = "dns"
      BY <3>13
    <3>15. /\ counted' = IF UpstreamStatus = 200 THEN "success" ELSE "failure"
           /\ IF protocol = "doh"
              THEN step' = "done" /\ since' = 0 /\ status' = UpstreamStatus
                   /\ pending' = pending
              ELSE step' = "reply head" /\ since' = 0 /\ pending' = pending
                   /\ status' = status
      BY <3>1 DEF Forwarded, StepTo
    <3>4. /\ counted' = IF head = "dns" THEN "success" ELSE "failure"
          /\ pending' = pending /\ since' = 0
          /\ IF protocol = "doh"
             THEN step' = "done" /\ status' = IF head = "dns" THEN 200 ELSE 503
             ELSE step' = "reply head" /\ status' = status
      BY <3>13, <3>14, <3>15
    <3>5. counted' \in {"success", "failure"} /\ (counted' = "success" <=> head = "dns")
      BY <3>4
    <3>6. step' \in {"done", "reply head"} /\ (step' = "reply head" => status' = 0)
      BY <1>1, <2>1, <3>4
    <3>16. \/ status' = 0
           \/ head = "dns" /\ status' = 200
           \/ head # "dns" /\ status' = 503
      BY <1>1, <2>1, <3>4
    <3>7. status' \in {0, 200, 503}
      BY <3>16
    <3>8. DohTypeOK'
      <4>1. pending \in {0, 400, 404, 405, 413, 415, 502, 504}
        BY DEF DohInv, DohTypeOK
      <4>2. step' \in Steps
        BY <3>6 DEF Steps
      <4>3. counted' \in {"nothing", "success", "failure"}
        BY <3>5
      <4>4. status' \in {0, 200, 400, 404, 405, 408, 413, 415, 502, 503, 504}
        BY <3>7
      <4>5. kept' \in 0..Limit /\ got' \in 0..Limit /\ since' \in 0..IdleTimeout
        BY <1>0, <2>1, <3>4, FreshTimer
      <4>6. pending' \in {0, 400, 404, 405, 413, 415, 502, 504}
        <5>1. pending' = pending
          BY <3>4
        <5> QED BY <4>1, <5>1
      <4> QED BY <2>1, <4>2, <4>3, <4>4, <4>5, <4>6, TypeStays DEF DohInv
    <3>9. ClientInv'
      <4>1. Faultless'
        BY <1>1, <2>1, FaultsStay, EndsStay DEF Faultless
      <4> QED BY <1>0, <2>1, <3>6, <4>1, EndsStay DEF ClientInv
    <3>10. UpstreamInv'
      <4>1. step' = "reply head" => status' = 0
        BY <3>6
      <4>2. step' \notin {"headers", "body", "collect"} \cup Forwarding
        BY <3>6 DEF Forwarding
      <4>3. counted' = "success" => head' = "dns" /\ got' = download'
        BY <2>1, <3>5, EndsStay
      <4>4. ~UpstreamFault' /\ counted' # "nothing" /\ got' <= download'
        BY <1>0, <2>1, <3>3, <3>5, FaultsStay, EndsStay
      <4> QED BY <4>1, <4>2, <4>3, <4>4 DEF UpstreamInv, Forwarding
    <3>11. StatusInv'
      <4>1. counted' = "success" <=> UpstreamStatus' = 200
        BY <2>1, <3>5, <3>14, FaultsStay
      <4>5. head' = head
        BY <2>1, EndsStay
      <4>6. head # "dns" => head = "other" /\ counted' = "failure"
        BY <3>2, <3>4
      <4>9. head = "dns" => status' # 503
        BY <3>16
      <4>7. head = "dns" => counted' = "success" /\ status' # 503
        BY <3>5, <4>9
      <4>8. head # "dns" => status' # 200
        BY <3>16
      <4>2. (status' = 200 => counted' = "success")
            /\ (status' = 503 => head' = "other" /\ counted' = "failure")
        BY <4>5, <4>6, <4>7, <4>8
      <4>3. protocol \in {"doh", "h3"} /\ protocol' = protocol
        BY <2>1, EndsStay DEF DohInv, StatusInv, InRequest
      <4>4. protocol' = "doh" => step' = "done"
        BY <3>4, <4>3
      <4> QED BY <3>6, <4>1, <4>2, <4>3, <4>4 DEF StatusInv, Replying, InRequest
    <3>12. BlameIsRight'
      BY <3>7 DEF BlameIsRight
    <3> QED BY <3>8, <3>9, <3>10, <3>11, <3>12 DEF DohInv
  <2> QED BY <2>2, <2>3
<1> QED BY <1>2, <1>3, <1>4, <1>5, <1>6, <1>7, <1>8

\* Nothing happens, but that time may pass.
LEMMA WaitingKeeps ==
    ASSUME DohInv, UNCHANGED <<protocol, clientVars, upstreamVars>>,
           since' \in 0..IdleTimeout,
           kept' = kept, step' = step, got' = got,
           pending' = pending, status' = status, counted' = counted
    PROVE  DohInv'
<1>1. DohTypeOK'
  BY EndsStay DEF DohInv, DohTypeOK
<1>2. ClientInv'
  <2>1. Faultless => Faultless'
    BY FaultsStay, EndsStay DEF Faultless
  <2> QED BY <2>1, FaultsStay, EndsStay DEF DohInv, ClientInv
<1>3. UpstreamInv'
  <2>1. ~UpstreamFault => ~UpstreamFault'
    BY FaultsStay
  <2>2. head' = head /\ download' = download
    BY EndsStay
  <2> QED BY <2>1, <2>2 DEF DohInv, UpstreamInv
<1>4. StatusInv'
  BY FaultsStay, EndsStay DEF DohInv, StatusInv, InRequest
<1>5. BlameIsRight'
  BY FaultsStay, EndsStay DEF DohInv, BlameIsRight
<1> QED BY <1>1, <1>2, <1>3, <1>4, <1>5 DEF DohInv

\* The response of H3, or its error response, goes to the client, and whatever time
\* does.
LEMMA ReplyingKeeps ==
    ASSUME DohInv,
           Replies \/ ReplyFails \/ Refuses \/ RefusalFails
              \/ DohTimesOut \/ DohTick \/ DohCancelled
    PROVE  DohInv'
<1>0. /\ status \in {0, 200, 400, 404, 405, 408, 413, 415, 502, 503, 504}
      /\ pending \in {0, 400, 404, 405, 413, 415, 502, 504}
      /\ counted \in {"nothing", "success", "failure"}
      /\ step \in Steps
  BY DEF DohInv, DohTypeOK
<1>1. /\ BlameIsRight
      /\ (status = 200 => counted = "success")
      /\ (status = 503 => head = "other" /\ counted = "failure")
  BY DEF DohInv, StatusInv
<1>2. step \in Replying =>
         /\ counted # "nothing" /\ Faultless /\ ~ClientFault /\ ~UpstreamFault
         /\ (counted = "success" <=> UpstreamStatus = 200)
         /\ protocol = "h3"
  BY DEF DohInv, ClientInv, UpstreamInv, StatusInv, Faultless, InRequest, Replying
<1>3. UpstreamStatus \in {200, 503} /\ (UpstreamStatus = 503 => head = "other")
  BY DEF UpstreamStatus
<1>4. CASE Replies
  <2>1. /\ step \in Replying
        /\ step' \in {"reply data", "reply end", "done"} /\ since' \in 0..IdleTimeout
    BY <1>4, FreshTimer DEF Replies, StepTo, Replying
  <2>8. status' = UpstreamStatus \/ status' = status
    BY <1>4 DEF Replies
  <2>9. UNCHANGED <<protocol, clientVars, upstreamVars>>
    BY <1>4 DEF Replies
  <2>10. kept' = kept /\ got' = got /\ pending' = pending /\ counted' = counted
    BY <1>4 DEF Replies
  <2>2. UpstreamStatus = 503 => counted = "failure"
    <3>1. counted # "nothing" /\ (counted = "success" => UpstreamStatus = 200)
      BY <1>2, <2>1
    <3>2. counted \in {"nothing", "success", "failure"}
      BY <1>0
    <3> QED BY <3>1, <3>2, Different
  <2>3. (status' = 200 => counted = "success")
        /\ (status' = 503 => head = "other" /\ counted = "failure")
    <3>1. CASE status' = status
      BY <1>1, <3>1
    <3>2. CASE status' = UpstreamStatus
      BY <1>2, <1>3, <2>1, <2>2, <3>2
    <3> QED BY <2>8, <3>1, <3>2
  <2>4. status' \in {0, 200, 400, 404, 405, 408, 413, 415, 502, 503, 504}
    <3>1. UpstreamStatus \in {0, 200, 400, 404, 405, 408, 413, 415, 502, 503, 504}
      BY <1>3
    <3> QED BY <1>0, <2>8, <3>1
  <2>5. BlameIsRight'
    <3>1. CASE status' = status
      BY <1>1, <2>9, <2>10, <3>1, FaultsStay, EndsStay DEF BlameIsRight
    <3>2. CASE status' \in {200, 503}
      BY <3>2 DEF BlameIsRight
    <3> QED BY <1>3, <2>8, <3>1, <3>2
  <2>6. CASE step' = "done"
    <3>1. StepTo("done")
      BY <1>4, <2>6 DEF Replies, StepTo
    <3> QED BY <2>3, <2>4, <2>5, <2>9, <2>10, <3>1, DoneKeeps
  <2>7. CASE step' # "done"
    <3>1. step' \in Replying \ {"reply head"}
      BY <2>1, <2>7 DEF Replying
    <3>2. DohTypeOK'
      <4>1. step' \in Steps
        BY <2>1 DEF Steps
      <4>2. kept \in 0..Limit /\ got \in 0..Limit
        BY DEF DohInv, DohTypeOK
      <4>3. kept' \in 0..Limit /\ got' \in 0..Limit
        BY <2>10, <4>2
      <4>4. pending' \in {0, 400, 404, 405, 413, 415, 502, 504}
        BY <1>0, <2>10
      <4>5. counted' \in {"nothing", "success", "failure"}
        BY <1>0, <2>10
      <4>6. since' \in 0..IdleTimeout /\ DohTypeOK
        BY <2>1 DEF DohInv
      <4> QED BY <2>4, <2>9, <4>1, <4>3, <4>4, <4>5, <4>6, TypeStays
    <3>3. ClientInv'
      <4>3. Faultless
        BY <1>2, <2>1
      <4>1. Faultless'
        BY <4>3, <2>9, <2>10, FaultsStay, EndsStay DEF Faultless
      <4>2. kept' <= upload'
        BY <2>9, <2>10, EndsStay DEF DohInv, ClientInv
      <4> QED BY <2>1, <4>1, <4>2 DEF ClientInv
    <3>4. UpstreamInv'
      <4>1. step' \notin {"headers", "body", "collect", "reply head"} \cup Forwarding
        BY <2>1 DEF Forwarding
      <4>2. counted' # "nothing" /\ ~UpstreamFault'
        <5>1. counted # "nothing" /\ ~UpstreamFault
          BY <1>2, <2>1
        <5> QED BY <5>1, <2>9, <2>10, FaultsStay
      <4>3. got' <= download'
            /\ (counted' = "success" => head' = "dns" /\ got' = download')
        BY <2>9, <2>10, EndsStay DEF DohInv, UpstreamInv
      <4> QED BY <4>1, <4>2, <4>3 DEF UpstreamInv
    <3>5. StatusInv'
      <4>1. counted' = "success" <=> UpstreamStatus' = 200
        BY <1>2, <2>1, <2>9, <2>10, FaultsStay
      <4>2. protocol' = "h3" /\ counted' = counted /\ head' = head
        BY <1>2, <2>1, <2>9, <2>10, EndsStay
      <4>3. step' # "refuse"
        BY <2>1
      <4> QED BY <2>3, <4>1, <4>2, <4>3 DEF StatusInv
    <3> QED BY <2>5, <3>2, <3>3, <3>4, <3>5 DEF DohInv
  <2> QED BY <2>6, <2>7
<1>5. CASE ReplyFails
  <2>1. /\ step \in Replying /\ ~listens
        /\ UNCHANGED <<protocol, clientVars, upstreamVars, kept, got, counted>>
    BY <1>5 DEF ReplyFails, Replying
  <2>2. protocol = "h3" /\ Faultless
    BY <1>2, <2>1
  <2>3. StepTo("refuse") /\ pending' = 400 /\ status' = status
    BY <1>5, <2>2 DEF ReplyFails, Rejects, H3Status
  <2> QED BY <2>1, <2>2, <2>3, RefusalKeeps
<1>6. CASE Refuses
  <2>1. /\ step = "refuse" /\ listens /\ StepTo("done")
        /\ status' = IF status = 0 THEN pending ELSE status
        /\ UNCHANGED <<protocol, clientVars, upstreamVars, kept, got, pending, counted>>
    BY <1>6 DEF Refuses
  <2>2. /\ protocol = "h3"
        /\ pending \in {400, 404, 405} => ClientFault
        /\ pending = 502 => UpstreamFault /\ ~ClientFault
        /\ pending \in {413, 415} => ClientFault \/ counted = "failure"
        /\ pending = 504 => ClientFault \/ ~UpstreamFault
    BY <2>1 DEF DohInv, StatusInv
  <2>3. status' \in {0, 200, 400, 404, 405, 408, 413, 415, 502, 503, 504}
    BY <1>0, <2>1
  <2>4. (status' = 200 => counted = "success")
        /\ (status' = 503 => head = "other" /\ counted = "failure")
    BY <1>0, <1>1, <2>1
  <2>5. BlameIsRight'
    <3>1. CASE status # 0
      BY <1>1, <2>1, <3>1, FaultsStay DEF BlameIsRight
    <3>2. CASE status = 0
      <4>1. status' = pending /\ status' # 408
        BY <1>0, <2>1, <3>2
      <4>2. counted' = counted /\ protocol' = "h3"
        BY <2>1, <2>2
      <4> QED BY <2>1, <2>2, <4>1, <4>2, FaultsStay DEF BlameIsRight
    <3> QED BY <3>1, <3>2
  <2> QED BY <2>1, <2>3, <2>4, <2>5, DoneKeeps
<1>7. CASE RefusalFails \/ DohCancelled
  <2>1. /\ StepTo("done") /\ status' = status
        /\ UNCHANGED <<protocol, clientVars, upstreamVars, kept, got, pending, counted>>
    BY <1>7 DEF RefusalFails, DohCancelled
  <2>2. BlameIsRight'
    BY <1>1, <2>1, FaultsStay DEF BlameIsRight
  <2> QED BY <1>0, <1>1, <2>1, <2>2, DoneKeeps
<1>8. CASE DohTick
  <2>1. since' = since + 1 /\ since < IdleTimeout
    BY <1>8 DEF DohTick
  <2>2. since' \in 0..IdleTimeout
    BY <2>1, TimeoutAssumption DEF DohInv, DohTypeOK
  <2>3. /\ kept' = kept /\ step' = step /\ got' = got
        /\ pending' = pending /\ status' = status /\ counted' = counted
    BY <1>8 DEF DohTick
  <2>4. UNCHANGED <<protocol, clientVars, upstreamVars>>
    BY <1>8 DEF DohTick
  <2> QED BY <2>2, <2>3, <2>4, WaitingKeeps
<1>9. CASE DohTimesOut
  <2>1. Timed /\ ~Due /\ UNCHANGED <<protocol, clientVars, upstreamVars, kept, got>>
    BY <1>9 DEF DohTimesOut
  <2>2. CASE step = "body"
    <3>1. Rejects(408, "timeout", {}) /\ counted' = counted
      BY <1>9, <2>2 DEF DohTimesOut
    <3>2. uploadEnd = "open"
      BY <2>1, <2>2 DEF Due
    <3>3. ClientFault
      BY <2>2, <3>2 DEF DohInv, ClientInv, ClientFault
    <3>4. counted = "nothing" /\ status = 0
      BY <2>2 DEF DohInv, UpstreamInv
    <3>5. InRequest /\ step \notin Replying
      BY <2>2 DEF InRequest, Replying
    <3> QED BY <2>1, <3>1, <3>3, <3>4, <3>5, RejectionKeeps
  <2>3. CASE step \in Replying
    <3>1. Rejects(408, "timeout", {}) /\ counted' = counted
      BY <1>9, <2>3 DEF DohTimesOut, Replying
    <3>2. protocol = "h3" /\ Faultless /\ ~UpstreamFault
      BY <1>2, <2>3
    <3>3. StepTo("refuse") /\ pending' = 504 /\ status' = status
      BY <3>1, <3>2 DEF Rejects, H3Status
    <3> QED BY <2>1, <3>1, <3>2, <3>3, RefusalKeeps
  <2>4. CASE step \notin {"body"} \cup Replying
    <3>1. ForwardFails(504, {})
      BY <1>9, <2>4 DEF DohTimesOut, Replying
    <3>2. step \in Forwarding
      <4>1. step \notin {"headers", "refuse", "done"} \cup {"body"} \cup Replying
        BY <2>1, <2>4 DEF Timed
      <4>2. step \in Steps
        BY <1>0
      <4> QED BY <4>1, <4>2 DEF Steps, Forwarding, Replying
    <3>3. CASE step \in {"head", "collect"}
      <4>1. (step = "head" /\ head = "none") \/ (step = "collect" /\ downloadEnd = "open")
        BY <2>1, <3>3 DEF Due
      <4>2. UpstreamFault
        BY <4>1 DEF UpstreamFault
      <4> QED BY <2>1, <3>1, <3>2, <4>2, ForwardingFails
    <3>4. CASE step \notin {"head", "collect"}
      <4>1. head = "none"
        BY <3>2, <3>4 DEF DohInv, UpstreamInv
      <4>2. UpstreamFault
        BY <4>1 DEF UpstreamFault
      <4> QED BY <2>1, <3>1, <3>2, <4>2, ForwardingFails
    <3> QED BY <3>3, <3>4
  <2> QED BY <2>2, <2>3, <2>4
<1> QED BY <1>4, <1>5, <1>6, <1>7, <1>8, <1>9

\* Every step of a request keeps what is right of it.
LEMMA DohStepsKeep == DohInv /\ [DohNext]_dohVars => DohInv'
<1> SUFFICES ASSUME DohInv, [DohNext]_dohVars PROVE DohInv'
  OBVIOUS
<1>1. CASE DohNext
  BY <1>1, DohEndsKeep, BeginningKeeps, ForwardingKeeps, ReplyingKeeps
     DEF DohNext, DohReads, DohWrites
<1>2. CASE UNCHANGED dohVars
  <2>1. /\ kept' = kept /\ step' = step /\ since' = since /\ got' = got
        /\ pending' = pending /\ status' = status /\ counted' = counted
    BY <1>2 DEF dohVars
  <2>2. UNCHANGED <<protocol, clientVars, upstreamVars>>
    BY <1>2 DEF dohVars, clientVars, upstreamVars
  <2>3. since' \in 0..IdleTimeout
    BY <2>1 DEF DohInv, DohTypeOK
  <2> QED BY <2>1, <2>2, <2>3, WaitingKeeps
<1> QED BY <1>1, <1>2
=============================================================================
