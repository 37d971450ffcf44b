----------------------------- MODULE HttpClient -----------------------------
(***************************************************************************)
(* The shared outbound client (app/http/client.py): concurrent calls, each *)
(* one a retry loop inside the circuit breaker of its host, against        *)
(* upstreams that fail and recover.                                        *)
(*                                                                         *)
(* A step is the code between two awaits.  The breaker is purgatory's, as  *)
(* the client and its tests use it: it opens on the threshold-th failed    *)
(* call in a row, admits trials after its TTL, and a trial's result closes *)
(* or reopens it.  A call that leaves the breaker's context by an          *)
(* exception has failed, whatever the exception.                           *)
(***************************************************************************)
EXTENDS Integers, FiniteSets

CONSTANTS
    Calls,      \* concurrent callers
    Hosts,      \* upstream hosts
    NoHost,     \* the host of a relative URL
    Requests,   \* what the application calls: host, method, retry_on_status
    Attempts,   \* HTTP_RETRY_ATTEMPTS
    Threshold,  \* _BREAKER_THRESHOLD
    Ttl,        \* _BREAKER_TTL
    Faults      \* what an attempt may end with, and "cancelled"

\* A call: its host, whether the method is one of _IDEMPOTENT_METHODS, and
\* whether it asks to retry on a transient status.
Call == [host : Hosts \cup {NoHost}, idempotent : BOOLEAN, on_status : BOOLEAN]

ASSUME HttpAssumption ==
    /\ Requests \subseteq Call
    /\ Attempts \in Nat \ {0}
    /\ Threshold \in Nat \ {0}
    /\ Ttl \in Nat
    /\ NoHost \notin Hosts

\* What an attempt ends with: an answer, a failure before anything was sent
\* (_NOT_SENT_ERRORS), a failure after that, or an error httpx2 raises that
\* is no transport failure (too many redirects).
NotSent == {"connect", "connect_timeout"}
MaybeSent == {"read_timeout", "dropped"}
Outcomes == NotSent \cup MaybeSent \cup {"ok", "transient", "other"}

VARIABLES
    breaker,   \* the circuit of each host
    pc,        \* each caller: idle, asked, attempt, backoff
    call,      \* its call: host, idempotent method?, retry_on_status?
    tries,     \* attempts its call has started
    wire,      \* what its attempt has ended with
    sent,      \* attempts of its call that the upstream may have applied
    answer,    \* what its call ended with
    healthy    \* the upstreams that work

vars == <<breaker, pc, call, tries, wire, sent, answer, healthy>>

Answers == {"response", "transient", "open", "timeout", "bad_gateway", "error",
            "misconfigured", "cancelled"}

(***************************************************************************)
(* The circuit of a host.                                                  *)
(***************************************************************************)
Closed == [state |-> "closed", failures |-> 0, age |-> 0]
Opened == [state |-> "open", failures |-> 0, age |-> 0]
HalfOpen == [state |-> "half", failures |-> 0, age |-> 0]

Refuses(b) == b.state = "open" /\ b.age <= Ttl
Admitting(b) == IF b.state = "open" THEN HalfOpen ELSE b

\* A result that comes in while the circuit is open changes nothing.
AfterFailure(b) ==
    IF b.state = "closed" /\ b.failures + 1 < Threshold
    THEN [b EXCEPT !.failures = b.failures + 1]
    ELSE IF b.state = "open" THEN b ELSE Opened

AfterSuccess(b) == IF b.state = "open" THEN b ELSE Closed

\* Variant: every host shares one circuit.
BreakerKey_Shared(c) == CHOOSE h \in Hosts : TRUE

BreakerKey(c) == call[c].host

(***************************************************************************)
(* request.                                                                *)
(***************************************************************************)
\* Variant: transport failures are retried whatever the method.
RetryOn_AnyMethod(c) ==
    NotSent \cup MaybeSent \cup (IF call[c].on_status THEN {"transient"} ELSE {})

\* Variant: only failures before sending are retried.
RetryOn_NotSent(c) == NotSent

RetryOn(c) ==
    NotSent \cup (IF call[c].idempotent THEN MaybeSent ELSE {})
            \cup (IF call[c].on_status THEN {"transient"} ELSE {})

\* The status of the exception raised, or the response handed back.
AnswerFor(outcome) ==
    IF outcome = "ok" THEN "response"
    ELSE IF outcome = "transient" THEN "transient"
    ELSE IF outcome \in {"connect_timeout", "read_timeout"} THEN "timeout"
    ELSE IF outcome \in {"connect", "dropped"} THEN "bad_gateway"
    ELSE "error"

Finish(c, result) ==
    /\ pc' = [pc EXCEPT ![c] = "idle"]
    /\ answer' = [answer EXCEPT ![c] = result]

Ask(c) ==
    /\ pc[c] = "idle"
    /\ \E new \in Requests : call' = [call EXCEPT ![c] = new]
    /\ pc' = [pc EXCEPT ![c] = "asked"]
    /\ answer' = [answer EXCEPT ![c] = "none"]
    /\ tries' = [tries EXCEPT ![c] = 0]
    /\ sent' = [sent EXCEPT ![c] = 0]
    /\ wire' = [wire EXCEPT ![c] = "none"]
    /\ UNCHANGED <<breaker, healthy>>

\* A URL without a host is refused before it can share a circuit.
RejectHostless(c) ==
    /\ pc[c] = "asked" /\ call[c].host = NoHost
    /\ Finish(c, "misconfigured")
    /\ UNCHANGED <<breaker, call, tries, wire, sent, healthy>>

FailFast(c) ==
    /\ pc[c] = "asked" /\ call[c].host # NoHost
    /\ Refuses(breaker[BreakerKey(c)])
    /\ Finish(c, "open")
    /\ UNCHANGED <<breaker, call, tries, wire, sent, healthy>>

Enter(c) ==
    /\ pc[c] = "asked" /\ call[c].host # NoHost
    /\ ~Refuses(breaker[BreakerKey(c)])
    /\ breaker' = [breaker EXCEPT ![BreakerKey(c)] = Admitting(@)]
    /\ pc' = [pc EXCEPT ![c] = "attempt"]
    /\ tries' = [tries EXCEPT ![c] = 1]
    /\ UNCHANGED <<call, wire, sent, answer, healthy>>

\* The attempt gets its result: one that is not applied, one that may be.
Respond(c) ==
    /\ pc[c] = "attempt" /\ wire[c] = "none"
    /\ \E outcome \in IF call[c].host \in healthy THEN {"ok"}
                      ELSE (Outcomes \cap Faults) \cup {"ok"} :
           /\ wire' = [wire EXCEPT ![c] = outcome]
           /\ sent' = [sent EXCEPT ![c] = IF outcome \in NotSent THEN @ ELSE @ + 1]
    /\ UNCHANGED <<breaker, pc, call, tries, answer, healthy>>

Arrived(c) == pc[c] = "attempt" /\ wire[c] # "none"
Retried(c) == wire[c] \in RetryOn(c) /\ tries[c] < Attempts

\* Without retry_on_status, a response is a success whatever its status.
Succeeded(c) == wire[c] = "ok" \/ (wire[c] = "transient" /\ ~call[c].on_status)

\* Variant: the breaker is inside the retry loop and sees every attempt.
Retry_SeenByBreaker(c) ==
    /\ Arrived(c) /\ Retried(c)
    /\ pc' = [pc EXCEPT ![c] = "backoff"]
    /\ wire' = [wire EXCEPT ![c] = "none"]
    /\ breaker' = [breaker EXCEPT ![BreakerKey(c)] = AfterFailure(@)]
    /\ UNCHANGED <<call, tries, sent, answer, healthy>>

Retry(c) ==
    /\ Arrived(c) /\ Retried(c)
    /\ pc' = [pc EXCEPT ![c] = "backoff"]
    /\ wire' = [wire EXCEPT ![c] = "none"]
    /\ UNCHANGED <<breaker, call, tries, sent, answer, healthy>>

\* Variant: the circuit is asked again before each attempt.
Resend_ThroughBreaker(c) ==
    /\ pc[c] = "backoff"
    /\ IF Refuses(breaker[BreakerKey(c)])
       THEN Finish(c, "open") /\ UNCHANGED tries
       ELSE /\ pc' = [pc EXCEPT ![c] = "attempt"]
            /\ tries' = [tries EXCEPT ![c] = @ + 1]
            /\ UNCHANGED answer
    /\ UNCHANGED <<breaker, call, wire, sent, healthy>>

Resend(c) ==
    /\ pc[c] = "backoff"
    /\ pc' = [pc EXCEPT ![c] = "attempt"]
    /\ tries' = [tries EXCEPT ![c] = @ + 1]
    /\ UNCHANGED <<breaker, call, wire, sent, answer, healthy>>

\* Variant: the response is handed back from outside the circuit's context.
Succeed_Unrecorded(c) ==
    /\ Arrived(c) /\ Succeeded(c)
    /\ Finish(c, AnswerFor(wire[c]))
    /\ UNCHANGED <<breaker, call, tries, wire, sent, healthy>>

Succeed(c) ==
    /\ Arrived(c) /\ Succeeded(c)
    /\ Finish(c, AnswerFor(wire[c]))
    /\ breaker' = [breaker EXCEPT ![BreakerKey(c)] = AfterSuccess(@)]
    /\ UNCHANGED <<call, tries, wire, sent, healthy>>

\* A transient status at the end of the budget is handed back to the caller,
\* and has counted as a failure on its way out of the breaker.
GiveUp(c) ==
    /\ Arrived(c) /\ ~Retried(c) /\ ~Succeeded(c)
    /\ Finish(c, AnswerFor(wire[c]))
    /\ breaker' = [breaker EXCEPT ![BreakerKey(c)] = AfterFailure(@)]
    /\ UNCHANGED <<call, tries, wire, sent, healthy>>

\* TimeoutMiddleware cancels the caller at its await; the attempt it cuts
\* off may have been applied, and the breaker sees an exception.
Cancel(c) ==
    /\ "cancelled" \in Faults
    /\ pc[c] \in {"attempt", "backoff"}
    /\ Finish(c, "cancelled")
    /\ sent' = [sent EXCEPT ![c] = IF pc[c] = "attempt" /\ wire[c] = "none" THEN @ + 1 ELSE @]
    /\ breaker' = [breaker EXCEPT ![BreakerKey(c)] = AfterFailure(@)]
    /\ UNCHANGED <<call, tries, wire, healthy>>

(***************************************************************************)
(* The environment.                                                        *)
(***************************************************************************)
FailOrRecover ==
    /\ \E h \in Hosts :
           healthy' = IF h \in healthy THEN healthy \ {h} ELSE healthy \cup {h}
    /\ UNCHANGED <<breaker, pc, call, tries, wire, sent, answer>>

\* Ages stop just past the limit they are compared with.
Tick ==
    /\ breaker' = [h \in Hosts |->
           IF Refuses(breaker[h]) THEN [breaker[h] EXCEPT !.age = @ + 1] ELSE breaker[h]]
    /\ UNCHANGED <<pc, call, tries, wire, sent, answer, healthy>>

-----------------------------------------------------------------------------
Init ==
    /\ breaker = [h \in Hosts |-> Closed]
    /\ pc = [c \in Calls |-> "idle"]
    /\ \E first \in Requests : call = [c \in Calls |-> first]
    /\ tries = [c \in Calls |-> 0]
    /\ wire = [c \in Calls |-> "none"]
    /\ sent = [c \in Calls |-> 0]
    /\ answer = [c \in Calls |-> "none"]
    /\ healthy = Hosts

Start(c) == RejectHostless(c) \/ FailFast(c) \/ Enter(c)
Proceed(c) == Retry(c) \/ Resend(c) \/ Succeed(c) \/ GiveUp(c)

Next ==
    \/ \E c \in Calls : Ask(c) \/ Start(c) \/ Respond(c) \/ Proceed(c) \/ Cancel(c)
    \/ FailOrRecover \/ Tick

Spec == Init /\ [][Next]_vars

\* The loop runs every ready task, an attempt ends within
\* HTTP_TIMEOUT_SECONDS, and time passes.
FairSpec ==
    /\ Spec
    /\ \A c \in Calls : WF_vars(Start(c)) /\ WF_vars(Respond(c)) /\ WF_vars(Proceed(c))
    /\ WF_vars(Tick)

-----------------------------------------------------------------------------
\* Every variable holds a value of its kind, and a call never starts more
\* attempts than it is allowed.
TypeOK ==
    /\ breaker \in [Hosts -> [state : {"closed", "open", "half"},
                              failures : 0..(Threshold - 1), age : 0..(Ttl + 1)]]
    /\ pc \in [Calls -> {"idle", "asked", "attempt", "backoff"}]
    /\ call \in [Calls -> Requests]
    /\ tries \in [Calls -> 0..Attempts]
    /\ wire \in [Calls -> Outcomes \cup {"none"}]
    /\ sent \in [Calls -> 0..Attempts]
    /\ answer \in [Calls -> Answers \cup {"none"}]
    /\ healthy \subseteq Hosts

\* A write that may have been applied is not sent again: a POST or PATCH
\* without retry_on_status reaches the upstream at most once, whatever its
\* attempts end with and wherever it is cancelled.
AppliedAtMostOnce ==
    \A c \in Calls : ~call[c].idempotent /\ ~call[c].on_status => sent[c] <= 1

\* The circuit is asked before the first attempt and never between attempts.
RefusedMeansUnsent ==
    \A c \in Calls : answer[c] = "open" => tries[c] = 0 /\ sent[c] = 0

GivesUpOnlyWhenSpent ==
    \A c \in Calls : answer[c] \in {"timeout", "bad_gateway"} =>
        tries[c] = Attempts \/ (~call[c].idempotent /\ sent[c] > 0)

\* What a caller is told is true of what was sent: nothing of it, if the
\* answer is a 503 for an open circuit; and if it is that the upstream failed,
\* the budget was spent or trying again could have applied a write twice.
AnswersAreTruthful == RefusedMeansUnsent /\ GivesUpOnlyWhenSpent

\* docs/guides/outbound-http.md:115 - "each logical call counts as a single
\* success or failure": a circuit's count and its opening move only in the
\* step that ends a call to that very host, and by one.
OneResultPerCall ==
    [][\A h \in Hosts :
          breaker'[h].failures > breaker[h].failures
          \/ (breaker'[h].state = "open" /\ breaker[h].state # "open")
          => /\ \E c \in Calls : /\ call[c].host = h
                                 /\ pc[c] \in {"attempt", "backoff"} /\ pc'[c] = "idle"
             /\ breaker'[h].failures <= breaker[h].failures + 1]_vars

\* A circuit does not stay open on an upstream that has recovered: while it
\* is called by callers that are not cancelled any more, it closes for good,
\* whatever late failures come in.
CircuitRecovers ==
    \A h \in Hosts :
        /\ <>[](h \in healthy /\ \A c \in Calls : answer[c] # "cancelled")
        /\ []<>(\E c \in Calls : pc[c] = "asked" /\ call[c].host = h)
        => <>[](breaker[h].state = "closed")
=============================================================================
