-------------------------- MODULE RequestPipeline --------------------------
(***************************************************************************)
(* One request on its way through the middlewares (app/core/middlewares.py,*)
(* in the order configure_middlewares gives them) to a handler that may    *)
(* read, answer, stream, fail or hang, and its response on the way back.   *)
(*                                                                         *)
(* A step ends at an await: a message sent or received.  The layers that   *)
(* only pass messages on appear as what they note of them; a layer that    *)
(* answers itself sends a start and then a body.  The wire is what the     *)
(* server has been given; a stream of bodies counts as its last one.       *)
(***************************************************************************)
EXTENDS Integers

CONSTANTS
    Limit,      \* MAX_REQUEST_BODY_BYTES, in chunks; 0 disables the cap
    MaxChunks,  \* bound on the chunks of a body
    Timeouts    \* REQUEST_TIMEOUT_SECONDS > 0

ASSUME PipelineAssumption ==
    /\ Limit \in Nat
    /\ MaxChunks \in Nat
    /\ Timeouts \in BOOLEAN

VARIABLES
    request,     \* what arrived
    pc,          \* where the request is
    error,       \* the status a layer is answering with
    received,    \* chunks counted by the size limit
    started,     \* the trackers that have seen a start
    wire,        \* what the client has: none, started, complete, garbled
    status,      \* the status it was given
    noted,       \* the status the access log would write
    logged,      \* the status it wrote; 0 before
    inFlight,    \* the in-flight counter
    ended        \* the exchange is over: answered, aborted, bare

vars == <<request, pc, error, received, started, wire, status, noted, logged, inFlight, ended>>

Request == [host : BOOLEAN, preflight : BOOLEAN, probe : BOOLEAN,
            declared : {"none", "fits", "exceeds"}]
AnyRequest == [host |-> TRUE, preflight |-> FALSE, probe |-> FALSE, declared |-> "none"]

\* The layers that track whether a response has started.
Layers == {"unhandled", "size", "timeout"}

\* A handler's own statuses, a manufactured error among them.
HandlerStatus == {200, 400, 500}
Status == HandlerStatus \cup {413, 504}

(***************************************************************************)
(* Messages on their way out: each tracker between the sender and the      *)
(* server notes a start before it passes it on.                            *)
(***************************************************************************)
Put(message) ==
    wire' = IF wire = "none" /\ message = "start" THEN "started"
            ELSE IF wire = "started" /\ message = "body" THEN "complete" ELSE "garbled"

\* Variant: the access log sits inside the layers that answer themselves.
PutStart_NotedInside(code, passed) ==
    /\ Put("start")
    /\ status' = code /\ noted' = IF passed = Layers THEN code ELSE noted
    /\ started' = started \cup passed

\* A start that reaches the outer layers with these trackers passed.
PutStart(code, passed) ==
    /\ Put("start")
    /\ status' = code /\ noted' = code
    /\ started' = started \cup passed

\* The flag counting_receive sets, with the count it sets it from.
Exceeded == Limit > 0 /\ received > Limit

\* Variant: what the application answers to a failed read goes out.
Dropped_Never == FALSE

\* guarded_send drops the application's answer to a read that failed at the
\* cap; the 413 replaces it.
Dropped == Exceeded /\ "size" \notin started

\* A start sent from inside: the inner tracker is set even if it is dropped.
InnerStart(code) ==
    IF Dropped
    THEN /\ started' = started \cup {"unhandled"}
         /\ UNCHANGED <<wire, status, noted>>
    ELSE PutStart(code, Layers)

InnerBody ==
    /\ IF Dropped THEN UNCHANGED wire ELSE Put("body")
    /\ UNCHANGED <<started, status, noted>>

(***************************************************************************)
(* The way out.  The access log's finally writes its line, and the         *)
(* exchange is over; an exception that gets this far has a response behind *)
(* it, or Starlette answers for it outside of every layer.                 *)
(***************************************************************************)
Finish(how) ==
    /\ pc' = "done"
    /\ logged' = IF request.probe THEN 0 ELSE noted
    /\ ended' = how

Escape == Finish(IF wire = "none" THEN "bare" ELSE "aborted")

Answer(layer, code) ==
    /\ pc' = layer
    /\ error' = code
    /\ UNCHANGED <<logged, ended>>

\* Leaving the size limit without an exception: its own 413 if the cap was
\* passed before anything went out.
LeaveSizeLimit ==
    IF Dropped
    THEN Answer("size", 413)
    ELSE Finish("answered") /\ UNCHANGED error

\* Variant: an oversize body's exception is not swallowed.
RaiseThroughSizeLimit_Always == Escape /\ UNCHANGED error

\* Leaving it with one: swallowed for the 413, or raised through the timeout.
RaiseThroughSizeLimit ==
    IF Dropped
    THEN Answer("size", 413)
    ELSE Escape /\ UNCHANGED error

\* The finally of the in-flight bracket, which a probe does not enter.
Release == inFlight' = IF request.probe THEN inFlight ELSE inFlight - 1

\* The application runs, up to its return.
Inner == {"handler", "streaming", "finishing"}

\* Inside of the in-flight bracket.
Bracketed == Inner \cup {"unhandled"}

-----------------------------------------------------------------------------
\* A request passes the outer layers without an await, up to the first that
\* answers it or to the handler.
Arrive ==
    /\ pc \in {"idle", "done"}
    /\ request' \in Request
    /\ pc' = IF ~request'.host THEN "trusted_host"
             ELSE IF request'.preflight THEN "cors"
             ELSE IF Limit > 0 /\ request'.declared = "exceeds" THEN "size" ELSE "handler"
    /\ error' \in IF pc' = "trusted_host" THEN {400} ELSE IF pc' = "cors" THEN {200, 400}
                  ELSE IF pc' = "size" THEN {413} ELSE {0}
    /\ inFlight' = IF pc' = "handler" /\ ~request'.probe THEN inFlight + 1 ELSE inFlight
    /\ received' = 0 /\ started' = {}
    /\ wire' = "none" /\ status' = 0 /\ noted' = 500 /\ logged' = 0 /\ ended' = "no"

\* counting_receive: a read past the cap fails in the handler's hands, after
\* it was counted.  A streaming handler may still read.
Receive ==
    /\ pc \in {"handler", "streaming"} /\ received < MaxChunks
    /\ received' = received + 1
    /\ UNCHANGED <<request, pc, error, started, wire, status, noted, logged, inFlight, ended>>

\* The application answers: itself, through an exception handler, or FastAPI
\* with a 400 for a read that failed.
HandlerStarts ==
    /\ pc = "handler" /\ "unhandled" \notin started
    /\ \E code \in HandlerStatus : InnerStart(code)
    /\ pc' = "streaming"
    /\ UNCHANGED <<request, error, received, logged, inFlight, ended>>

\* Its last body goes out; it may still have cleaning up to do.
HandlerEnds ==
    /\ pc = "streaming"
    /\ InnerBody
    /\ pc' = "finishing"
    /\ UNCHANGED <<request, error, received, logged, inFlight, ended>>

HandlerReturns ==
    /\ pc = "finishing"
    /\ Release
    /\ LeaveSizeLimit
    /\ UNCHANGED <<request, received, started, wire, status, noted>>

\* Variant: the 500 is sent whether or not a response has started.
HandlerRaises_NoTracker ==
    /\ pc \in Inner
    /\ Answer("unhandled", 500) /\ UNCHANGED inFlight
    /\ UNCHANGED <<request, received, started, wire, status, noted>>

\* UnhandledErrorMiddleware: a 500, unless a start has passed it.
HandlerRaises ==
    /\ pc \in Inner
    /\ IF "unhandled" \in started
       THEN Release /\ RaiseThroughSizeLimit
       ELSE Answer("unhandled", 500) /\ UNCHANGED inFlight
    /\ UNCHANGED <<request, received, started, wire, status, noted>>

\* The 500 goes out through the layers outside of it.
SendUnhandled ==
    /\ pc = "unhandled"
    /\ IF error = 500
       THEN /\ IF Dropped THEN UNCHANGED <<started, wire, status, noted>>
                          ELSE PutStart(500, {"size", "timeout"})
            /\ error' = 0
            /\ UNCHANGED <<pc, logged, ended, inFlight>>
       ELSE /\ InnerBody
            /\ Release
            /\ LeaveSizeLimit
    /\ UNCHANGED <<request, received>>

\* The trackers between the wire and a layer that answers itself.
Passed(layer) == IF layer = "size" THEN {"timeout"} ELSE {}

\* A 413, 504, 400 or preflight answer: its start, then its body.
SendOwn ==
    /\ pc \in {"size", "timeout", "trusted_host", "cors"}
    /\ IF error # 0
       THEN /\ PutStart(error, Passed(pc))
            /\ error' = 0
            /\ UNCHANGED <<pc, logged, ended>>
       ELSE /\ Put("body")
            /\ Finish("answered")
            /\ UNCHANGED <<error, started, status, noted>>
    /\ UNCHANGED <<request, received, inFlight>>

\* Variant: a 504 is sent whether or not a response has started.
TimeOut_NoTracker ==
    /\ Timeouts
    /\ pc \in Bracketed \cup {"size"}
    /\ IF pc \in Bracketed THEN Release ELSE UNCHANGED inFlight
    /\ Answer("timeout", 504)
    /\ UNCHANGED <<request, received, started, wire, status, noted>>

\* Variant: the clock stops with the start of the response.
TimeOut_BeforeStart ==
    /\ Timeouts
    /\ pc \in Bracketed \cup {"size"} /\ "timeout" \notin started
    /\ IF pc \in Bracketed THEN Release ELSE UNCHANGED inFlight
    /\ Answer("timeout", 504)
    /\ UNCHANGED <<request, received, started, wire, status, noted>>

\* Variant: the release is not in a finally.
TimeOut_StillHeld ==
    /\ Timeouts
    /\ pc \in Bracketed \cup {"size"}
    /\ IF "timeout" \in started THEN Escape /\ UNCHANGED error ELSE Answer("timeout", 504)
    /\ UNCHANGED <<request, received, started, wire, status, noted, inFlight>>

\* fail_after cancels whatever is awaited inside of it.  The cancellation is
\* no Exception: it passes the inner layers, whose finally releases the
\* request, and no 413 is sent on the way.
TimeOut ==
    /\ Timeouts
    /\ pc \in Bracketed \cup {"size"}
    /\ IF pc \in Bracketed THEN Release ELSE UNCHANGED inFlight
    /\ IF "timeout" \in started THEN Escape /\ UNCHANGED error ELSE Answer("timeout", 504)
    /\ UNCHANGED <<request, received, started, wire, status, noted>>

-----------------------------------------------------------------------------
Init ==
    /\ request = AnyRequest
    /\ pc = "idle" /\ error = 0
    /\ received = 0 /\ started = {}
    /\ wire = "none" /\ status = 0 /\ noted = 500 /\ logged = 0
    /\ inFlight = 0 /\ ended = "no"

Handler == Receive \/ HandlerStarts \/ HandlerEnds \/ HandlerReturns
           \/ HandlerRaises
Send == SendUnhandled \/ SendOwn

Next == Arrive \/ Handler \/ Send \/ TimeOut

Spec == Init /\ [][Next]_vars

\* The clock runs and a send completes; the handler owes nothing.
FairSpec == Spec /\ WF_vars(Send) /\ WF_vars(TimeOut)

-----------------------------------------------------------------------------
\* Every variable holds a value of its kind, and the counter counts at most
\* this one request.
TypeOK ==
    /\ request \in Request
    /\ pc \in Bracketed \cup {"idle", "size", "timeout", "trusted_host", "cors", "done"}
    /\ error \in Status \cup {0}
    /\ received \in 0..MaxChunks
    /\ started \subseteq Layers
    /\ inFlight \in {0, 1}
    /\ wire \in {"none", "started", "complete", "garbled"}
    /\ status \in Status \cup {0} /\ logged \in Status \cup {0} /\ noted \in Status
    /\ ended \in {"no", "answered", "aborted", "bare"}

\* Whatever the handler does and whenever the timeout strikes, the client is
\* given one start, then one end, and never a second response.
OneResponse == wire # "garbled"

\* A request that ends normally has been answered in full, and an exception
\* leaves the layers only over a response that had started: no client gets
\* Starlette's own 500, without the headers of the outer layers.
NoBareError ==
    /\ ended # "bare"
    /\ ended = "answered" => wire = "complete"
    /\ ended = "aborted" => wire \in {"started", "complete"}

\* Once a body has passed the cap, no response starts but the 413, or a 504
\* that comes before it: the application's answer to the failed read does
\* not get out.
OversizeIsRefused ==
    [][Exceeded /\ wire = "none" /\ wire' = "started" => status' \in {413, 504}]_vars

\* docs/guides/observability.md:97 - "504 and 413 responses are logged with
\* their real status": the line has the status the client was given, and
\* every request but a probe has one.
LoggedIsSent ==
    pc = "done" => IF request.probe THEN logged = 0 ELSE logged = status

\* A request is counted in flight exactly while the handler or its 500 runs,
\* and not after it has ended, whatever ended it.
ReleasedAtTheEnd == inFlight = IF pc \in Bracketed /\ ~request.probe THEN 1 ELSE 0

\* Every request ends, even under a handler that hangs.
EveryRequestEnds == pc = "handler" ~> pc = "done"
=============================================================================
