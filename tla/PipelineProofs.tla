--------------------------- MODULE PipelineProofs ---------------------------
(***************************************************************************)
(* Proofs about RequestPipeline: what holds for every cap and every length *)
(* of a body.  The argument: the tracker a layer asks before it answers    *)
(* agrees with the wire, except for the innermost one, which also notes    *)
(* the starts the size limit drops; that only happens when a 413 or a 504  *)
(* is still to be sent.                                                    *)
(***************************************************************************)
EXTENDS RequestPipeline, TLAPS

\* The trackers of the size limit and of the timeout know what is on the
\* wire while the application runs.
TrackersAgree ==
    pc \in Bracketed =>
        ("size" \in started <=> wire # "none") /\ ("timeout" \in started <=> wire # "none")

\* How far the response is, at each place of the application.
InnerOK ==
    /\ pc = "handler" => wire = "none" /\ "unhandled" \notin started
    /\ pc = "streaming" => wire = "started" \/ (wire = "none" /\ Exceeded)
    /\ pc = "finishing" => wire = "complete" \/ (wire = "none" /\ Exceeded)
    /\ pc \in {"streaming", "finishing"} => "unhandled" \in started

\* And at each layer that answers, with the status it answers with.
AnswerOK ==
    /\ pc = "unhandled" => (error = 500 /\ wire = "none")
                           \/ (error = 0 /\ (wire = "started" \/ (wire = "none" /\ Exceeded)))
    /\ pc \in {"size", "timeout", "trusted_host", "cors"} =>
           (error = 0 /\ wire = "started") \/ (error # 0 /\ wire = "none")
    /\ pc = "size" => error \in {0, 413} /\ ("timeout" \in started <=> wire # "none")
    /\ pc = "timeout" => error \in {0, 504}

\* The access log has noted what is on the wire.
NotedOK == wire # "none" => noted = status

\* The start and the end of an exchange.
EndsOK ==
    /\ pc = "idle" => wire = "none"
    /\ pc \in {"trusted_host", "cors"} => received = 0
    /\ pc = "done" <=> ended # "no"

\* Where the request is, against what is on the wire.
Exchange ==
    /\ OneResponse
    /\ NoBareError
    /\ TrackersAgree
    /\ InnerOK
    /\ AnswerOK
    /\ NotedOK
    /\ EndsOK
    /\ LoggedIsSent
    /\ ReleasedAtTheEnd

IInv == TypeOK /\ Exchange

-----------------------------------------------------------------------------
LEMMA InitInv == Init => IInv
  <1> SUFFICES ASSUME Init PROVE IInv
    OBVIOUS
  <1>1. TypeOK
    BY PipelineAssumption DEF Init, TypeOK, AnyRequest, Request, Status, HandlerStatus, Inner, Bracketed
  <1>2. Exchange
    BY DEF Init, Exchange, OneResponse, NoBareError, TrackersAgree, InnerOK, AnswerOK, NotedOK, EndsOK,
       LoggedIsSent, ReleasedAtTheEnd, AnyRequest, Inner, Bracketed
  <1> QED  BY <1>1, <1>2 DEF IInv

Wires == {"none", "started", "complete", "garbled"}

\* A start keeps the types of what it touches.
LEMMA PutStartType ==
  ASSUME started \subseteq Layers, NEW code \in Status, NEW passed \in SUBSET Layers, PutStart(code, passed)
  PROVE  started' \subseteq Layers /\ status' \in Status /\ noted' \in Status /\ wire' \in Wires
  <1>1. started' \subseteq Layers
    BY DEF PutStart
  <1> QED  BY <1>1 DEF PutStart, Put, Wires

LEMMA ArriveType == TypeOK /\ ReleasedAtTheEnd /\ Arrive => TypeOK'
  <1> SUFFICES ASSUME TypeOK, ReleasedAtTheEnd, Arrive PROVE TypeOK'
    OBVIOUS
  <1>1. pc' \in {"handler", "trusted_host", "cors", "size"}
    BY DEF Arrive
  <1>2. error' \in {0, 200, 400, 413}
    BY <1>1 DEF Arrive
  <1>3. inFlight' \in {0, 1}
    BY DEF Arrive, TypeOK, ReleasedAtTheEnd, Bracketed, Inner
  <1> QED
    BY <1>1, <1>2, <1>3, PipelineAssumption DEF Arrive, TypeOK, Status, HandlerStatus, Inner, Bracketed

LEMMA StepType == IInv /\ [Next]_vars => TypeOK'
  <1> SUFFICES ASSUME TypeOK, ReleasedAtTheEnd, [Next]_vars PROVE TypeOK'
    BY DEF IInv, Exchange
  <1> USE DEF TypeOK, ReleasedAtTheEnd, Release, Inner, Bracketed, Status, HandlerStatus
  <1>1. CASE Arrive
    BY <1>1, ArriveType
  <1>2. CASE Receive
    BY <1>2, PipelineAssumption DEF Receive, EndsOK
  <1>3. CASE HandlerStarts
    <2>1. PICK code \in HandlerStatus : InnerStart(code)
      BY <1>3 DEF HandlerStarts
    <2>2. CASE Dropped
      <3>1. started' = started \cup {"unhandled"} /\ UNCHANGED <<wire, status, noted>>
        BY <2>1, <2>2 DEF InnerStart
      <3>2. started' \subseteq Layers
        BY <3>1 DEF Layers
      <3>3. UNCHANGED <<wire, status, noted>>
        BY <3>1
      <3> QED  BY <1>3, <3>2, <3>3 DEF HandlerStarts
    <2>3. CASE ~Dropped
      <3>1. PutStart(code, Layers)
        BY <2>1, <2>3 DEF InnerStart
      <3> QED  BY <1>3, <3>1, PutStartType DEF HandlerStarts, Wires
    <2> QED  BY <2>2, <2>3
  <1>4. CASE HandlerEnds
    BY <1>4 DEF HandlerEnds, InnerBody, Put
  <1>5. CASE HandlerReturns
    BY <1>5 DEF HandlerReturns, LeaveSizeLimit, Answer, Finish
  <1>6. CASE HandlerRaises
    BY <1>6 DEF HandlerRaises, RaiseThroughSizeLimit, Escape, Answer, Finish
  <1>7. CASE SendUnhandled
    <2>1. CASE error = 500 /\ ~Dropped
      <3>1. PutStart(500, {"size", "timeout"})
        BY <1>7, <2>1 DEF SendUnhandled
      <3>2. started' \subseteq Layers /\ status' \in Status /\ noted' \in Status /\ wire' \in Wires
        BY <3>1, PutStartType DEF Layers
      <3> QED  BY <1>7, <2>1, <3>2 DEF SendUnhandled, Wires
    <2>2. CASE ~(error = 500 /\ ~Dropped)
      BY <1>7, <2>2 DEF SendUnhandled, InnerBody, Put, LeaveSizeLimit, Answer, Finish
    <2> QED  BY <2>1, <2>2
  <1>8. CASE SendOwn
    <2>1. CASE error # 0
      <3>1. PutStart(error, Passed(pc))
        BY <1>8, <2>1 DEF SendOwn
      <3>2. error \in Status /\ Passed(pc) \in SUBSET Layers
        BY <2>1 DEF Passed, Layers
      <3>3. started' \subseteq Layers /\ status' \in Status /\ noted' \in Status /\ wire' \in Wires
        BY <3>1, <3>2, PutStartType
      <3> QED  BY <1>8, <2>1, <3>3 DEF SendOwn, Wires
    <2>2. CASE error = 0
      BY <1>8, <2>2 DEF SendOwn, Put, Finish
    <2> QED  BY <2>1, <2>2
  <1>9. CASE TimeOut
    BY <1>9 DEF TimeOut, Escape, Answer, Finish
  <1>10. CASE UNCHANGED vars
    BY <1>10 DEF vars
  <1> QED  BY <1>1, <1>2, <1>3, <1>4, <1>5, <1>6, <1>7, <1>8, <1>9, <1>10 DEF Next, Handler, Send

LEMMA StepExchange == IInv /\ [Next]_vars => Exchange'
  <1> SUFFICES ASSUME TypeOK, Exchange, [Next]_vars PROVE Exchange'
    BY DEF IInv
  <1> USE DEF Exchange, OneResponse, NoBareError, TrackersAgree, InnerOK, AnswerOK, NotedOK, EndsOK,
          LoggedIsSent, ReleasedAtTheEnd, Release, Inner, Bracketed, Exceeded, Dropped
  <1>1. CASE Arrive
    BY <1>1, PipelineAssumption DEF Arrive
  <1>2. CASE Receive
    BY <1>2, PipelineAssumption DEF Receive, TypeOK
  <1>3. CASE HandlerStarts
    BY <1>3 DEF HandlerStarts, InnerStart, PutStart, Put, Layers
  <1>4. CASE HandlerEnds
    BY <1>4 DEF HandlerEnds, InnerBody, Put
  <1>5. CASE HandlerReturns
    BY <1>5 DEF HandlerReturns, LeaveSizeLimit, Answer, Finish
  <1>6. CASE HandlerRaises
    BY <1>6 DEF HandlerRaises, RaiseThroughSizeLimit, Escape, Answer, Finish
  <1>7. CASE SendUnhandled
    BY <1>7 DEF SendUnhandled, InnerBody, PutStart, Put, LeaveSizeLimit, Answer, Finish
  <1>8. CASE SendOwn
    BY <1>8 DEF SendOwn, PutStart, Put, Passed, Finish
  <1>9. CASE TimeOut
    BY <1>9 DEF TimeOut, Escape, Answer, Finish
  <1>10. CASE UNCHANGED vars
    BY <1>10 DEF vars
  <1> QED  BY <1>1, <1>2, <1>3, <1>4, <1>5, <1>6, <1>7, <1>8, <1>9, <1>10 DEF Next, Handler, Send

LEMMA StepInv == IInv /\ [Next]_vars => IInv'
  BY StepType, StepExchange DEF IInv

THEOREM Invariant == Spec => []IInv
  <1> QED  BY InitInv, StepInv, PTL DEF Spec

\* The trackers and the cap stay in range, whatever a body sends.
THEOREM TypeCorrect == Spec => []TypeOK
  <1>1. IInv => TypeOK
    BY DEF IInv, Exchange
  <1> QED  BY <1>1, Invariant, PTL

\* No interleaving of the handler, its errors and the timeout gives the
\* client two responses.
THEOREM AnswersOnce == Spec => []OneResponse
  <1>1. IInv => OneResponse
    BY DEF IInv, Exchange
  <1> QED  BY <1>1, Invariant, PTL

\* An exception leaves the layers only over a response that had started.
THEOREM NoErrorIsBare == Spec => []NoBareError
  <1>1. IInv => NoBareError
    BY DEF IInv, Exchange
  <1> QED  BY <1>1, Invariant, PTL

\* Whatever ends a request, the in-flight counter lets it go, once.
THEOREM ReleasedOnce == Spec => []ReleasedAtTheEnd
  <1>1. IInv => ReleasedAtTheEnd
    BY DEF IInv, Exchange
  <1> QED  BY <1>1, Invariant, PTL

\* docs/guides/observability.md:97 - the access log line has the real status.
THEOREM LogIsTrue == Spec => []LoggedIsSent
  <1>1. IInv => LoggedIsSent
    BY DEF IInv, Exchange
  <1> QED  BY <1>1, Invariant, PTL

-----------------------------------------------------------------------------
Refused == Exceeded /\ wire = "none" /\ wire' = "started" => status' \in {413, 504}

\* After the cap was passed, only the 413 or a 504 starts a response.
THEOREM OversizeGetsNoAnswer == Spec => OversizeIsRefused
  <1>1. IInv /\ [Next]_vars => [Refused]_vars
    <2> SUFFICES ASSUME IInv, [Next]_vars, Exceeded, wire = "none", wire' = "started"
                 PROVE  status' \in {413, 504}
      BY DEF Refused
    <2> USE DEF IInv, Exchange, TrackersAgree, AnswerOK, Inner, Bracketed, Exceeded, Dropped
    <2>1. CASE HandlerStarts
      BY <2>1 DEF HandlerStarts, InnerStart, Dropped
    <2>2. CASE SendUnhandled
      BY <2>2 DEF SendUnhandled, InnerBody, Dropped
    <2>3. CASE SendOwn
      <3>1. pc \notin {"trusted_host", "cors"}
        BY PipelineAssumption DEF EndsOK
      <3> QED  BY <2>3, <3>1 DEF SendOwn, PutStart, Put
    <2>4. CASE HandlerEnds
      BY <2>4 DEF HandlerEnds, InnerBody, Dropped
    <2> QED
      BY <2>1, <2>2, <2>3, <2>4 DEF Next, Arrive, Handler, Receive, HandlerReturns,
         HandlerRaises, Send, TimeOut, vars
  <1>2. Spec => [][Refused]_vars
    BY <1>1, Invariant, PTL DEF Spec
  <1> QED  BY <1>2 DEF OversizeIsRefused, Refused
=============================================================================
