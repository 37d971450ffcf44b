----------------------------- MODULE HttpProofs -----------------------------
(***************************************************************************)
(* Proofs about HttpClient: what holds for any number of callers and hosts *)
(* and any limits.  The argument for the single application of a write:    *)
(* while such a call still has an attempt to make, none of its attempts    *)
(* has been sent, for only a failure before sending brings it back to the  *)
(* loop.                                                                   *)
(***************************************************************************)
EXTENDS HttpClient, TLAPS

\* A POST or PATCH that did not ask for retries on a status.
PlainWrite(c) == ~call[c].idempotent /\ ~call[c].on_status

\* Before the breaker nothing has happened; inside it there is a host.
EntryOK(c) ==
    /\ pc[c] = "asked" => tries[c] = 0 /\ sent[c] = 0 /\ wire[c] = "none"
    /\ pc[c] # "idle" => answer[c] = "none"
    /\ pc[c] \in {"attempt", "backoff"} => call[c].host \in Hosts /\ tries[c] >= 1

\* What may have been sent, against what was started.
SentOK(c) ==
    /\ sent[c] <= tries[c]
    /\ pc[c] = "attempt" /\ wire[c] = "none" => sent[c] < tries[c]
    /\ pc[c] = "attempt" /\ wire[c] \notin NotSent \cup {"none"} => sent[c] >= 1
    /\ pc[c] = "backoff" => tries[c] < Attempts /\ wire[c] = "none"

\* A plain write is unsent as long as it has another attempt before it.
UnsentOK(c) ==
    PlainWrite(c) =>
        /\ pc[c] = "backoff" => sent[c] = 0
        /\ pc[c] = "attempt" /\ wire[c] \in NotSent \cup {"none"} => sent[c] = 0

CallOK(c) == EntryOK(c) /\ SentOK(c) /\ UnsentOK(c)

IInv ==
    /\ TypeOK
    /\ \A c \in Calls : CallOK(c)
    /\ AppliedAtMostOnce
    /\ RefusedMeansUnsent
    /\ GivesUpOnlyWhenSpent

-----------------------------------------------------------------------------
Circuits == [state : {"closed", "open", "half"}, failures : 0..(Threshold - 1), age : 0..(Ttl + 1)]

\* The circuit stays a circuit, and only a failure counts or opens it, by one.
LEMMA CircuitSteps ==
    ASSUME NEW b \in Circuits
    PROVE  /\ Closed \in Circuits
           /\ Admitting(b) \in Circuits /\ AfterFailure(b) \in Circuits /\ AfterSuccess(b) \in Circuits
           /\ Admitting(b).failures <= b.failures /\ AfterSuccess(b).failures <= b.failures
           /\ AfterFailure(b).failures <= b.failures + 1
           /\ Admitting(b).state = "open" => b.state = "open"
           /\ AfterSuccess(b).state = "open" => b.state = "open"
  <1>1. Closed \in Circuits /\ Opened \in Circuits /\ HalfOpen \in Circuits
    BY HttpAssumption DEF Circuits, Closed, Opened, HalfOpen
  <1>2. AfterFailure(b) \in Circuits /\ AfterFailure(b).failures <= b.failures + 1
    BY <1>1, HttpAssumption DEF AfterFailure, Circuits, Opened
  <1>3. /\ Admitting(b) \in Circuits /\ Admitting(b).failures <= b.failures
        /\ Admitting(b).state = "open" => b.state = "open"
    BY <1>1 DEF Admitting, Circuits, HalfOpen
  <1>4. /\ AfterSuccess(b) \in Circuits /\ AfterSuccess(b).failures <= b.failures
        /\ AfterSuccess(b).state = "open" => b.state = "open"
    BY <1>1 DEF AfterSuccess, Circuits, Closed
  <1> QED  BY <1>1, <1>2, <1>3, <1>4

\* A step that treats its own circuit as a call does keeps the circuits.
LEMMA CircuitsKept ==
    ASSUME IInv, NEW h \in Hosts, NEW b,
           b \in {Admitting(breaker[h]), AfterSuccess(breaker[h]), AfterFailure(breaker[h])},
           breaker' = [breaker EXCEPT ![h] = b]
    PROVE  breaker' \in [Hosts -> Circuits]
  <1>1. breaker \in [Hosts -> Circuits]
    BY DEF IInv, TypeOK, Circuits
  <1>2. b \in Circuits
    BY <1>1, CircuitSteps
  <1> QED  BY <1>1, <1>2

LEMMA InitInv == Init => IInv
  <1> SUFFICES ASSUME Init PROVE IInv
    OBVIOUS
  <1>1. TypeOK
    BY HttpAssumption DEF Init, TypeOK, Closed
  <1> QED
    BY <1>1, HttpAssumption DEF Init, IInv, CallOK, EntryOK, SentOK, UnsentOK, PlainWrite, NotSent,
       AppliedAtMostOnce, RefusedMeansUnsent, GivesUpOnlyWhenSpent

-----------------------------------------------------------------------------
\* Each step of a caller keeps its own part of the invariant; the parts of
\* the others are untouched.
Others(c) ==
    \A d \in Calls \ {c} : /\ pc'[d] = pc[d] /\ call'[d] = call[d] /\ tries'[d] = tries[d]
                           /\ wire'[d] = wire[d] /\ sent'[d] = sent[d] /\ answer'[d] = answer[d]

\* What the invariant says of one caller.
Fine(c) ==
    /\ CallOK(c)
    /\ PlainWrite(c) => sent[c] <= 1
    /\ answer[c] = "open" => tries[c] = 0 /\ sent[c] = 0
    /\ answer[c] \in {"timeout", "bad_gateway"} =>
           tries[c] = Attempts \/ (~call[c].idempotent /\ sent[c] > 0)

LEMMA Parts == IInv <=> TypeOK /\ \A c \in Calls : Fine(c)
  BY DEF IInv, Fine, AppliedAtMostOnce, RefusedMeansUnsent, GivesUpOnlyWhenSpent, PlainWrite

LEMMA OneCaller ==
    ASSUME IInv, TypeOK', NEW c \in Calls, Others(c), Fine(c)'
    PROVE  IInv'
  <1>1. ASSUME NEW d \in Calls PROVE Fine(d)'
    <2>1. CASE d = c
      BY <2>1
    <2>2. CASE d # c
      BY <2>2, Parts DEF Others, Fine, CallOK, EntryOK, SentOK, UnsentOK, PlainWrite
    <2> QED  BY <2>1, <2>2
  <1> QED  BY <1>1, Parts, Zenon DEF IInv, Fine, AppliedAtMostOnce, RefusedMeansUnsent,
              GivesUpOnlyWhenSpent, PlainWrite

-----------------------------------------------------------------------------
\* Every action of a caller, one lemma each.
LEMMA AskInv == ASSUME IInv, NEW c \in Calls, Ask(c) PROVE IInv'
  <1>1. TypeOK' /\ Others(c)
    BY HttpAssumption DEF IInv, TypeOK, Ask, Others
  <1>2. /\ pc'[c] = "asked" /\ answer'[c] = "none" /\ tries'[c] = 0 /\ sent'[c] = 0
        /\ wire'[c] = "none"
    BY DEF IInv, TypeOK, Ask
  <1>3. Fine(c)'
    BY <1>2 DEF Fine, CallOK, EntryOK, SentOK, UnsentOK, NotSent
  <1> QED  BY <1>1, <1>3, OneCaller

\* A call that ends keeps what was sent and tried; only its answer is new.
LEMMA FinishInv ==
    ASSUME IInv, NEW c \in Calls, NEW result \in Answers, Finish(c, result),
           breaker' \in [Hosts -> Circuits], UNCHANGED <<call, tries, wire, healthy>>,
           sent' = sent \/ sent' = [sent EXCEPT ![c] = @ + 1],
           sent'[c] <= tries[c],
           PlainWrite(c) => sent'[c] <= 1,
           result = "open" => tries[c] = 0 /\ sent'[c] = 0,
           result \in {"timeout", "bad_gateway"} =>
               tries[c] = Attempts \/ (~call[c].idempotent /\ sent'[c] > 0)
    PROVE  IInv'
  <1>1. sent' \in [Calls -> 0..Attempts]
    BY HttpAssumption DEF IInv, TypeOK
  <1>2. TypeOK' /\ Others(c)
    BY <1>1 DEF IInv, TypeOK, Finish, Others, Circuits
  <1>3. pc'[c] = "idle" /\ answer'[c] = result
    BY DEF IInv, TypeOK, Finish
  <1>4. CallOK(c)'
    BY <1>3 DEF CallOK, EntryOK, SentOK, UnsentOK
  <1>5. Fine(c)'
    BY <1>3, <1>4 DEF Fine, PlainWrite
  <1> QED  BY <1>2, <1>5, OneCaller

\* A caller is refused before anything is sent.
LEMMA RefusedInv == ASSUME IInv, NEW c \in Calls, RejectHostless(c) \/ FailFast(c) PROVE IInv'
  <1>1. Fine(c) /\ CallOK(c) /\ tries[c] = 0 /\ sent[c] = 0 /\ sent' = sent
    BY Parts DEF RejectHostless, FailFast, Fine, CallOK, EntryOK
  <1>2. breaker' \in [Hosts -> Circuits]
    BY DEF IInv, TypeOK, Circuits, RejectHostless, FailFast
  <1>3. UNCHANGED <<call, tries, wire, healthy>>
    BY DEF RejectHostless, FailFast
  <1>4. CASE RejectHostless(c)
    <2>1. Finish(c, "misconfigured") /\ "misconfigured" \in Answers
      BY <1>4 DEF RejectHostless, Answers
    <2> QED  BY <1>1, <1>2, <1>3, <2>1, FinishInv
  <1>5. CASE FailFast(c)
    <2>1. Finish(c, "open") /\ "open" \in Answers
      BY <1>5 DEF FailFast, Answers
    <2> QED  BY <1>1, <1>2, <1>3, <2>1, FinishInv
  <1> QED  BY <1>4, <1>5

LEMMA EnterInv == ASSUME IInv, NEW c \in Calls, Enter(c) PROVE IInv'
  <1>1. call[c].host \in Hosts /\ tries[c] = 0 /\ sent[c] = 0 /\ wire[c] = "none" /\ answer[c] = "none"
    BY Parts, HttpAssumption DEF IInv, TypeOK, Enter, Fine, CallOK, EntryOK, Call
  <1>2. breaker' \in [Hosts -> Circuits]
    <2>1. /\ call[c].host \in Hosts
          /\ breaker' = [breaker EXCEPT ![call[c].host] = Admitting(breaker[call[c].host])]
      BY <1>1 DEF Enter, BreakerKey
    <2> QED  BY <2>1, CircuitsKept
  <1>3. TypeOK' /\ Others(c)
    BY <1>2, HttpAssumption DEF IInv, TypeOK, Enter, Others, Circuits
  <1>4. /\ pc'[c] = "attempt" /\ tries'[c] = 1 /\ sent'[c] = 0 /\ wire'[c] = "none"
        /\ answer'[c] = "none" /\ call'[c].host \in Hosts
    BY <1>1 DEF IInv, TypeOK, Enter
  <1>5. Fine(c)'
    BY <1>4 DEF Fine, CallOK, EntryOK, SentOK, UnsentOK, NotSent
  <1> QED  BY <1>3, <1>5, OneCaller

LEMMA RespondInv == ASSUME IInv, NEW c \in Calls, Respond(c) PROVE IInv'
  <1>1. PICK outcome \in Outcomes :
            /\ wire' = [wire EXCEPT ![c] = outcome]
            /\ sent' = [sent EXCEPT ![c] = IF outcome \in NotSent THEN @ ELSE @ + 1]
    BY DEF Respond, Outcomes
  <1>2. /\ pc[c] = "attempt" /\ wire[c] = "none" /\ outcome # "none"
        /\ answer[c] = "none" /\ sent[c] < tries[c] /\ sent[c] \in Nat /\ tries[c] \in 0..Attempts
        /\ call[c].host \in Hosts /\ tries[c] >= 1 /\ (PlainWrite(c) => sent[c] = 0)
    BY Parts DEF IInv, TypeOK, Respond, Fine, CallOK, EntryOK, SentOK, UnsentOK, Outcomes, NotSent, MaybeSent
  <1>3. /\ wire'[c] = outcome
        /\ sent'[c] = IF outcome \in NotSent THEN sent[c] ELSE sent[c] + 1
        /\ UNCHANGED <<pc, call, tries, answer>>
    BY <1>1 DEF IInv, TypeOK, Respond
  <1>4. TypeOK' /\ Others(c)
    BY <1>1, <1>2, HttpAssumption DEF IInv, TypeOK, Respond, Others
  <1>5. EntryOK(c)' /\ SentOK(c)'
    BY <1>2, <1>3, HttpAssumption DEF EntryOK, SentOK
  <1>6. UnsentOK(c)'
    BY <1>2, <1>3 DEF UnsentOK, PlainWrite
  <1>7. Fine(c)'
    BY <1>2, <1>3, <1>5, <1>6, HttpAssumption DEF Fine, CallOK, PlainWrite
  <1> QED  BY <1>4, <1>7, OneCaller

\* Back to the loop: a plain write gets here only unsent.
LEMMA RetryInv == ASSUME IInv, NEW c \in Calls, Retry(c) PROVE IInv'
  <1>1. /\ pc[c] = "attempt" /\ tries[c] < Attempts /\ wire[c] \in RetryOn(c)
        /\ answer[c] = "none" /\ sent[c] <= tries[c] /\ sent[c] \in Nat /\ tries[c] \in Nat
        /\ call[c].host \in Hosts /\ tries[c] >= 1
        /\ PlainWrite(c) /\ wire[c] \in NotSent => sent[c] = 0
    BY Parts DEF IInv, TypeOK, Retry, Arrived, Retried, Fine, CallOK, EntryOK, SentOK, UnsentOK
  <1>2. PlainWrite(c) => sent[c] = 0
    BY <1>1 DEF PlainWrite, RetryOn
  <1>3. TypeOK' /\ Others(c)
    BY DEF IInv, TypeOK, Retry, Others, Outcomes
  <1>4. pc'[c] = "backoff" /\ wire'[c] = "none" /\ UNCHANGED <<call, tries, sent, answer>>
    BY DEF IInv, TypeOK, Retry
  <1>5. CallOK(c)'
    BY <1>1, <1>2, <1>4 DEF CallOK, EntryOK, SentOK, UnsentOK, PlainWrite
  <1>6. Fine(c)'
    BY <1>1, <1>2, <1>4, <1>5 DEF Fine, PlainWrite
  <1> QED  BY <1>3, <1>6, OneCaller

LEMMA ResendInv == ASSUME IInv, NEW c \in Calls, Resend(c) PROVE IInv'
  <1>1. /\ pc[c] = "backoff" /\ tries[c] < Attempts /\ wire[c] = "none"
        /\ answer[c] = "none" /\ sent[c] <= tries[c] /\ sent[c] \in Nat /\ tries[c] \in Nat
        /\ call[c].host \in Hosts /\ tries[c] >= 1 /\ (PlainWrite(c) => sent[c] = 0)
    BY Parts DEF IInv, TypeOK, Resend, Fine, CallOK, EntryOK, SentOK, UnsentOK
  <1>2. TypeOK' /\ Others(c)
    BY <1>1, HttpAssumption DEF IInv, TypeOK, Resend, Others
  <1>3. /\ pc'[c] = "attempt" /\ tries'[c] = tries[c] + 1
        /\ UNCHANGED <<call, wire, sent, answer>>
    BY DEF IInv, TypeOK, Resend
  <1>4. CallOK(c)'
    <2>1. EntryOK(c)'
      BY <1>1, <1>3 DEF EntryOK
    <2>2. SentOK(c)'
      BY <1>1, <1>3 DEF SentOK
    <2>3. UnsentOK(c)'
      BY <1>1, <1>3 DEF UnsentOK, PlainWrite
    <2> QED  BY <2>1, <2>2, <2>3 DEF CallOK
  <1>5. Fine(c)'
    BY <1>1, <1>3, <1>4 DEF Fine, PlainWrite
  <1> QED  BY <1>2, <1>5, OneCaller

\* What is known of a call whose attempt has arrived.
LEMMA ArrivedFacts ==
    ASSUME IInv, NEW c \in Calls, Arrived(c)
    PROVE  /\ call[c].host \in Hosts /\ wire[c] \in Outcomes
           /\ sent[c] <= tries[c] /\ tries[c] \in 0..Attempts /\ sent[c] \in Nat
           /\ PlainWrite(c) => sent[c] <= 1
           /\ wire[c] \notin NotSent => sent[c] >= 1
  BY Parts DEF IInv, TypeOK, Arrived, Fine, CallOK, EntryOK, SentOK, Outcomes

LEMMA SucceedInv == ASSUME IInv, NEW c \in Calls, Succeed(c) PROVE IInv'
  <1>1. Arrived(c) /\ Succeeded(c) /\ UNCHANGED <<call, tries, wire, sent, healthy>>
        /\ Finish(c, AnswerFor(wire[c]))
    BY DEF Succeed
  <1>2. breaker' \in [Hosts -> Circuits]
    <2>1. /\ call[c].host \in Hosts
          /\ breaker' = [breaker EXCEPT ![call[c].host] = AfterSuccess(breaker[call[c].host])]
      BY <1>1, ArrivedFacts DEF Succeed, BreakerKey
    <2> QED  BY <2>1, CircuitsKept
  <1>3. AnswerFor(wire[c]) \in {"response", "transient"} /\ AnswerFor(wire[c]) \in Answers
    BY <1>1 DEF Succeeded, AnswerFor, Answers
  <1> QED  BY <1>1, <1>2, <1>3, ArrivedFacts, FinishInv

LEMMA GiveUpInv == ASSUME IInv, NEW c \in Calls, GiveUp(c) PROVE IInv'
  <1>1. Arrived(c) /\ ~Retried(c) /\ UNCHANGED <<call, tries, wire, sent, healthy>>
        /\ Finish(c, AnswerFor(wire[c]))
    BY DEF GiveUp
  <1>2. breaker' \in [Hosts -> Circuits]
    <2>1. /\ call[c].host \in Hosts
          /\ breaker' = [breaker EXCEPT ![call[c].host] = AfterFailure(breaker[call[c].host])]
      BY <1>1, ArrivedFacts DEF GiveUp, BreakerKey
    <2> QED  BY <2>1, CircuitsKept
  <1>3. AnswerFor(wire[c]) # "open" /\ AnswerFor(wire[c]) \in Answers
    BY DEF AnswerFor, Answers
  <1>4. AnswerFor(wire[c]) \in {"timeout", "bad_gateway"} => wire[c] \in NotSent \cup MaybeSent
    BY DEF AnswerFor, NotSent, MaybeSent
  <1>5. tries[c] = Attempts \/ wire[c] \notin RetryOn(c)
    BY <1>1, ArrivedFacts, HttpAssumption DEF Retried
  <1>6. wire[c] \in (NotSent \cup MaybeSent) \ RetryOn(c) => ~call[c].idempotent /\ wire[c] \notin NotSent
    BY DEF RetryOn
  <1>7. AnswerFor(wire[c]) \in {"timeout", "bad_gateway"} =>
            tries[c] = Attempts \/ (~call[c].idempotent /\ sent[c] > 0)
    BY <1>1, <1>4, <1>5, <1>6, ArrivedFacts
  <1> QED  BY <1>1, <1>2, <1>3, <1>7, ArrivedFacts, FinishInv

LEMMA CancelInv == ASSUME IInv, NEW c \in Calls, Cancel(c) PROVE IInv'
  <1>1. /\ call[c].host \in Hosts /\ sent[c] \in Nat /\ tries[c] \in Nat /\ sent[c] <= tries[c]
        /\ pc[c] = "attempt" /\ wire[c] = "none" => sent[c] < tries[c] /\ (PlainWrite(c) => sent[c] = 0)
        /\ PlainWrite(c) => sent[c] <= 1
    BY Parts DEF IInv, TypeOK, Cancel, Fine, CallOK, EntryOK, SentOK, UnsentOK
  <1>2. /\ sent' = sent \/ (pc[c] = "attempt" /\ wire[c] = "none" /\ sent' = [sent EXCEPT ![c] = @ + 1])
        /\ Finish(c, "cancelled") /\ UNCHANGED <<call, tries, wire, healthy>>
    BY DEF Cancel, IInv, TypeOK
  <1>3. sent'[c] <= tries[c] /\ (PlainWrite(c) => sent'[c] <= 1)
    BY <1>1, <1>2 DEF IInv, TypeOK
  <1>4. breaker' \in [Hosts -> Circuits]
    <2>1. /\ call[c].host \in Hosts
          /\ breaker' = [breaker EXCEPT ![call[c].host] = AfterFailure(breaker[call[c].host])]
      BY <1>1 DEF Cancel, BreakerKey
    <2> QED  BY <2>1, CircuitsKept
  <1>5. "cancelled" \in Answers
    BY DEF Answers
  <1> QED  BY <1>2, <1>3, <1>4, <1>5, FinishInv

\* The environment touches no call.
LEMMA EnvironmentInv == ASSUME IInv, FailOrRecover \/ Tick \/ UNCHANGED vars PROVE IInv'
  <1>1. UNCHANGED <<pc, call, tries, wire, sent, answer>>
    BY DEF FailOrRecover, Tick, vars
  <1>2. healthy' \subseteq Hosts
    BY DEF IInv, TypeOK, FailOrRecover, Tick, vars
  <1>3. breaker' \in [Hosts -> Circuits]
    <2>1. ASSUME NEW b \in Circuits, Refuses(b) PROVE [b EXCEPT !.age = @ + 1] \in Circuits
      BY <2>1, HttpAssumption DEF Circuits, Refuses
    <2>2. CASE Tick
      BY <2>1, <2>2 DEF IInv, TypeOK, Tick, Circuits
    <2> QED  BY <2>2 DEF IInv, TypeOK, FailOrRecover, vars, Circuits
  <1>4. TypeOK'
    BY <1>1, <1>2, <1>3 DEF IInv, TypeOK, Circuits
  <1>5. ASSUME NEW c \in Calls PROVE Fine(c)'
    BY <1>1, Parts DEF Fine, CallOK, EntryOK, SentOK, UnsentOK, PlainWrite
  <1> QED  BY <1>1, <1>4, <1>5 DEF IInv, Fine, CallOK, EntryOK, SentOK, UnsentOK, PlainWrite,
              AppliedAtMostOnce, RefusedMeansUnsent, GivesUpOnlyWhenSpent

THEOREM Invariant == Spec => []IInv
  <1>1. Init => IInv
    BY InitInv
  <1>2. IInv /\ [Next]_vars => IInv'
    BY AskInv, RefusedInv, EnterInv, RespondInv, RetryInv, ResendInv, SucceedInv, GiveUpInv,
       CancelInv, EnvironmentInv DEF Next, Start, Proceed
  <1> QED  BY <1>1, <1>2, PTL DEF Spec

\* Every variable keeps its kind, and no call starts more attempts than it is
\* allowed (HTTP_RETRY_ATTEMPTS).
THEOREM TypeCorrect == Spec => []TypeOK
  <1>1. IInv => TypeOK
    BY DEF IInv
  <1> QED  BY <1>1, Invariant, PTL

\* A POST or PATCH without retry_on_status is never sent to its upstream
\* again once it may have been applied.
THEOREM WritesAreAppliedAtMostOnce == Spec => []AppliedAtMostOnce
  <1>1. IInv => AppliedAtMostOnce
    BY DEF IInv
  <1> QED  BY <1>1, Invariant, PTL

\* The 503 of an open circuit (ServiceUnavailableError) is given before the
\* first attempt; a 502 or 504 comes after the last one, or where a resend
\* could apply the write twice.
THEOREM AnswersTellWhatWasSent == Spec => []AnswersAreTruthful
  <1>1. IInv => AnswersAreTruthful
    BY DEF IInv, AnswersAreTruthful
  <1> QED  BY <1>1, Invariant, PTL

-----------------------------------------------------------------------------
\* The circuits move towards open only with a call that ends on their host.
CountsOne ==
    \A h \in Hosts :
        breaker'[h].failures > breaker[h].failures
        \/ (breaker'[h].state = "open" /\ breaker[h].state # "open")
        => /\ \E c \in Calls : /\ call[c].host = h
                               /\ pc[c] \in {"attempt", "backoff"} /\ pc'[c] = "idle"
           /\ breaker'[h].failures <= breaker[h].failures + 1

LEMMA StepCountsOne == IInv /\ [Next]_vars => CountsOne
  <1> SUFFICES ASSUME IInv, [Next]_vars PROVE CountsOne
    OBVIOUS
  <1>0. breaker \in [Hosts -> Circuits] /\ \A h \in Hosts : breaker[h].failures \in Nat
    BY HttpAssumption DEF IInv, TypeOK, Circuits
  <1>1. CASE UNCHANGED breaker
    BY <1>0, <1>1 DEF CountsOne
  <1>2. CASE Tick
    <2>1. \A h \in Hosts : breaker'[h].failures = breaker[h].failures /\ breaker'[h].state = breaker[h].state
      BY <1>0, <1>2 DEF Tick, Circuits
    <2> QED  BY <1>0, <2>1 DEF CountsOne
  <1>3. ASSUME NEW c \in Calls, Enter(c) \/ Succeed(c) PROVE CountsOne
    <2>1. \A h \in Hosts : breaker'[h] \in {breaker[h], Admitting(breaker[h]), AfterSuccess(breaker[h])}
      BY <1>0, <1>3 DEF Enter, Succeed
    <2>2. \A h \in Hosts : /\ breaker'[h].failures <= breaker[h].failures
                           /\ breaker'[h].state = "open" => breaker[h].state = "open"
      BY <1>0, <2>1, CircuitSteps
    <2>3. \A h \in Hosts : breaker'[h] \in Circuits
      BY <1>0, <2>1, CircuitSteps
    <2> QED  BY <1>0, <2>2, <2>3, HttpAssumption DEF CountsOne, Circuits
  <1>4. ASSUME NEW c \in Calls, GiveUp(c) \/ Cancel(c) PROVE CountsOne
    <2>1. pc[c] \in {"attempt", "backoff"} /\ pc'[c] = "idle"
      BY <1>4 DEF GiveUp, Cancel, Arrived, Finish, IInv, TypeOK
    <2>2. ASSUME NEW h \in Hosts
          PROVE  breaker'[h] = breaker[h] \/ (call[c].host = h /\ breaker'[h] = AfterFailure(breaker[h]))
      BY <1>0, <1>4 DEF GiveUp, Cancel, BreakerKey
    <2> QED  BY <1>0, <2>1, <2>2, CircuitSteps DEF CountsOne
  <1> QED
    BY <1>1, <1>2, <1>3, <1>4 DEF Next, vars, Ask, Start, RejectHostless, FailFast, Respond, Proceed,
       Retry, Resend, FailOrRecover

\* docs/guides/outbound-http.md:115 - each logical call counts as a single
\* success or failure, on the circuit of its own host.
THEOREM OneResultEach == Spec => OneResultPerCall
  <1>1. IInv /\ [Next]_vars => [CountsOne]_vars
    BY StepCountsOne
  <1>2. Spec => [][CountsOne]_vars
    BY <1>1, Invariant, PTL DEF Spec
  <1> QED  BY <1>2 DEF OneResultPerCall, CountsOne
=============================================================================
