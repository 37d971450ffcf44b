----------------------------- MODULE Lifecycle -----------------------------
(***************************************************************************)
(* Graceful shutdown: the in-flight counter (app/core/lifecycle.py), the   *)
(* middleware that keeps it, the shutdown half of the lifespan             *)
(* (app/main.py) and the readiness probe, with requests that come, finish, *)
(* hang or are cancelled while the server goes down.                       *)
(*                                                                         *)
(* A step is the code between two awaits.  The server is external.  The    *)
(* drain's docstring expects it to have stopped accepting before the       *)
(* lifespan shuts down, and uvicorn also waits for its requests or cancels *)
(* them (docs/guides/deployment.md).  That is the server that stops first; *)
(* the other kind shuts the lifespan down at any moment and keeps          *)
(* accepting.  Which one it is never changes.                              *)
(*                                                                         *)
(* late is a history variable: properties read it and no step does.        *)
(***************************************************************************)
EXTENDS Integers, FiniteSets

CONSTANTS
    Reqs,             \* requests other than probes
    DrainTimeout,     \* SHUTDOWN_DRAIN_TIMEOUT; 0 skips the wait
    Servers           \* the kinds of server the program may run under

ASSUME LifecycleAssumption ==
    /\ IsFiniteSet(Reqs)
    /\ DrainTimeout \in Nat
    /\ Servers \subseteq {"stops_first", "keeps_accepting"}

VARIABLES
    server,         \* the kind of server
    task,           \* each request: none, accepted, running, cancelled, done
    serving,        \* the server accepts requests
    in_flight,      \* _in_flight
    idle,           \* _idle: its event is set
    shutting_down,  \* _shutting_down
    pc,             \* the lifespan: up, drain, woken, aclose, dispose, down
    drained,        \* how the drain ended: none, true, false, error
    http, engine,   \* "open" or "closed"
    late            \* requests that entered after the drain saw the count at zero

app == <<shutting_down, pc, drained, http, engine>>
vars == <<server, task, serving, in_flight, idle, late, app>>

\* Requests between acquire and release.
Bracketed == {r \in Reqs : task[r] \in {"running", "cancelled"}}

(***************************************************************************)
(* The middleware around a request.                                        *)
(***************************************************************************)
Accept(r) ==
    /\ serving /\ task[r] \in {"none", "done"}
    /\ task' = [task EXCEPT ![r] = "accepted"]
    /\ UNCHANGED <<server, serving, in_flight, idle, late, app>>

\* The observer: r comes in before the drain is over, or after.
NoteEntry(r) == late' = IF pc \in {"up", "drain"} THEN late \ {r} ELSE late \cup {r}

\* Variant: the event stays set.
Enter_StillIdle(r) ==
    /\ task[r] = "accepted"
    /\ task' = [task EXCEPT ![r] = "running"]
    /\ in_flight' = in_flight + 1
    /\ NoteEntry(r)
    /\ UNCHANGED <<server, serving, idle, app>>

\* acquire.
Enter(r) ==
    /\ task[r] = "accepted"
    /\ task' = [task EXCEPT ![r] = "running"]
    /\ in_flight' = in_flight + 1
    /\ idle' = FALSE
    /\ NoteEntry(r)
    /\ UNCHANGED <<server, serving, app>>

\* Variant: a request that is cancelled is not released.
Leave_FinishedOnly(r) ==
    /\ task[r] \in {"running", "cancelled"}
    /\ task' = [task EXCEPT ![r] = "done"]
    /\ in_flight' = IF task[r] = "cancelled" THEN in_flight ELSE in_flight - 1
    /\ idle' = (in_flight' = 0)
    /\ pc' = IF pc = "drain" /\ idle' THEN "woken" ELSE pc
    /\ UNCHANGED <<server, serving, shutting_down, drained, http, engine, late>>

\* Variant: whoever leaves sets the event.
Leave_AnyWakes(r) ==
    /\ task[r] \in {"running", "cancelled"}
    /\ task' = [task EXCEPT ![r] = "done"]
    /\ in_flight' = IF in_flight - 1 <= 0 THEN 0 ELSE in_flight - 1
    /\ idle' = TRUE
    /\ pc' = IF pc = "drain" /\ idle' THEN "woken" ELSE pc
    /\ UNCHANGED <<server, serving, shutting_down, drained, http, engine, late>>

\* release, however the request ended.  At zero the event is set, which
\* makes a waiting drain ready to run; clearing it later does not stop that.
Leave(r) ==
    /\ task[r] \in {"running", "cancelled"}
    /\ task' = [task EXCEPT ![r] = "done"]
    /\ in_flight' = IF in_flight - 1 <= 0 THEN 0 ELSE in_flight - 1
    /\ idle' = IF in_flight - 1 <= 0 THEN TRUE ELSE idle
    /\ pc' = IF pc = "drain" /\ idle' THEN "woken" ELSE pc
    /\ UNCHANGED <<server, serving, shutting_down, drained, http, engine, late>>

(***************************************************************************)
(* The server.                                                             *)
(***************************************************************************)
Stop ==
    /\ serving
    /\ serving' = FALSE
    /\ UNCHANGED <<server, task, in_flight, idle, late, app>>

\* --timeout-graceful-shutdown: the requests are cancelled.  One that has not
\* run yet never will; one that is running unwinds through its release.
CancelTasks ==
    /\ ~serving /\ pc = "up"
    /\ \E r \in Reqs : task[r] \in {"accepted", "running"}
    /\ task' = [r \in Reqs |-> IF task[r] = "accepted" THEN "done"
                               ELSE IF task[r] = "running" THEN "cancelled" ELSE task[r]]
    /\ UNCHANGED <<server, serving, in_flight, idle, late, app>>

LifespanMayEnd ==
    server = "stops_first" =>
        ~serving /\ \A r \in Reqs : task[r] \notin {"accepted", "running"}

(***************************************************************************)
(* The lifespan, after its yield.                                          *)
(***************************************************************************)
DrainEnds(result) ==
    /\ drained' = result
    /\ pc' = "aclose"

\* Variant: the resources are closed without waiting.
BeginShutdown_NoDrain ==
    /\ pc = "up" /\ LifespanMayEnd
    /\ shutting_down' = TRUE
    /\ DrainEnds("true")
    /\ UNCHANGED <<server, task, serving, in_flight, idle, late, http, engine>>

\* begin_shutdown, and drain up to its await.
BeginShutdown ==
    /\ pc = "up" /\ LifespanMayEnd
    /\ shutting_down' = TRUE
    /\ IF in_flight = 0 THEN DrainEnds("true")
       ELSE IF DrainTimeout = 0 THEN DrainEnds("false")
       ELSE /\ pc' = IF idle THEN "woken" ELSE "drain"
            /\ UNCHANGED drained
    /\ UNCHANGED <<server, task, serving, in_flight, idle, late, http, engine>>

DrainReturns ==
    /\ pc = "woken"
    /\ DrainEnds("true")
    /\ UNCHANGED <<server, task, serving, in_flight, idle, late, shutting_down, http, engine>>

DrainTimesOut ==
    /\ pc \in {"drain", "woken"}
    /\ DrainEnds("false")
    /\ UNCHANGED <<server, task, serving, in_flight, idle, late, shutting_down, http, engine>>

\* The server cancels the lifespan itself.
DrainFails ==
    /\ pc \in {"drain", "woken"}
    /\ DrainEnds("error")
    /\ UNCHANGED <<server, task, serving, in_flight, idle, late, shutting_down, http, engine>>

\* Variant: a failure to close the client skips the engine.
CloseClient_Unguarded ==
    /\ pc = "aclose"
    /\ \/ http' = "closed" /\ pc' = "dispose"
       \/ UNCHANGED http /\ pc' = "down"
    /\ UNCHANGED <<server, task, serving, in_flight, idle, late, shutting_down, drained, engine>>

\* aclose, which may fail: the finally goes on to the engine.
CloseClient ==
    /\ pc = "aclose"
    /\ http' \in {"closed", http}
    /\ pc' = "dispose"
    /\ UNCHANGED <<server, task, serving, in_flight, idle, late, shutting_down, drained, engine>>

DisposeEngine ==
    /\ pc = "dispose"
    /\ engine' = "closed"
    /\ pc' = "down"
    /\ UNCHANGED <<server, task, serving, in_flight, idle, late, shutting_down, drained, http>>

\* The process has nothing left to do.
Exited ==
    /\ pc = "down" /\ \A r \in Reqs : task[r] \in {"none", "done"}
    /\ ~serving
    /\ UNCHANGED vars

-----------------------------------------------------------------------------
Init ==
    /\ server \in Servers
    /\ task = [r \in Reqs |-> "none"]
    /\ serving = TRUE
    /\ in_flight = 0
    /\ idle = TRUE
    /\ shutting_down = FALSE
    /\ pc = "up"
    /\ drained = "none"
    /\ http = "open" /\ engine = "open"
    /\ late = {}

Request(r) == Accept(r) \/ Enter(r) \/ Leave(r)
Server == Stop \/ CancelTasks
Drain == DrainReturns \/ DrainTimesOut \/ DrainFails
Lifespan == BeginShutdown \/ Drain \/ CloseClient \/ DisposeEngine

Next == (\E r \in Reqs : Request(r)) \/ Server \/ Lifespan \/ Exited

Spec == Init /\ [][Next]_vars

\* The loop runs every ready task, and the lifespan's own waits are bounded.
\* A request may run for ever unless it is cancelled; a server that was told
\* to stop shuts the lifespan down, and its graceful timeout is finite.
FairSpec ==
    /\ Spec
    /\ \A r \in Reqs : WF_vars(Enter(r)) /\ WF_vars(task[r] = "cancelled" /\ Leave(r))
    /\ WF_vars(CancelTasks) /\ WF_vars((pc # "up" \/ ~serving) /\ Lifespan)

-----------------------------------------------------------------------------
\* Every variable holds a value of its kind, and the counter stays within the
\* number of requests.
TypeOK ==
    /\ server \in Servers
    /\ late \subseteq Reqs
    /\ task \in [Reqs -> {"none", "accepted", "running", "cancelled", "done"}]
    /\ serving \in BOOLEAN /\ idle \in BOOLEAN /\ shutting_down \in BOOLEAN
    /\ in_flight \in 0..Cardinality(Reqs)
    /\ pc \in {"up", "drain", "woken", "aclose", "dispose", "down"}
    /\ drained \in {"none", "true", "false", "error"}
    /\ http \in {"open", "closed"} /\ engine \in {"open", "closed"}

\* The counter is the number of requests inside the bracket, however each of
\* them ends, and the event is set exactly when there is none: clamping the
\* counter at zero never hides a request.
CounterIsExact ==
    /\ in_flight = Cardinality(Bracketed)
    /\ idle <=> in_flight = 0

\* app/main.py:43 - "only then are the HTTP client and engine disposed so no
\* in-flight request loses its connection": under the server the docstring
\* relies on, they close under a request only when the drain gave up waiting
\* for it.
ClosedOnlyWhenQuiet ==
    server = "stops_first" /\ "closed" \in {http, engine} /\ Bracketed # {}
        => drained \in {"false", "error"}

\* What the drain promises under any server, also one that accepts throughout:
\* a request that loses its client or engine after a drain that succeeded came
\* in after the count had reached zero.  Whoever was inside before the
\* shutdown, or came while the drain still waited, was waited for.
OnlyLatecomersLose ==
    "closed" \in {http, engine} => drained \in {"false", "error"} \/ Bracketed \subseteq late

\* Once the server is told to stop, the engine is disposed: a hanging
\* request, a failed drain or a client that does not close only delays it.
EngineIsDisposed == ~serving ~> engine = "closed"
=============================================================================
