-------------------------- MODULE LifecycleProofs --------------------------
(***************************************************************************)
(* Proofs about Lifecycle: what holds for any number of requests.  The     *)
(* counter is exact under every server, and so is the drain: a request it  *)
(* left inside came in after the count had reached zero.  That nobody does *)
(* needs the server of the drain's docstring, and the proof shows where:   *)
(* past the start of the shutdown no request can enter, so late is empty.  *)
(***************************************************************************)
EXTENDS Lifecycle, FiniteSetTheorems, TLAPS

IInv == TypeOK /\ CounterIsExact

\* What the lifespan has done so far, at each of its labels.
Progress ==
    /\ pc \in {"up", "drain", "woken"} => drained = "none" /\ http = "open" /\ engine = "open"
    /\ pc \in {"aclose", "dispose", "down"} => drained # "none"

\* A drain that goes on, or has succeeded, leaves only latecomers inside.
Waited == pc = "woken" \/ drained = "true" => Bracketed \subseteq late

\* Under a server that stops first nothing enters once the shutdown has begun.
Closing ==
    server = "stops_first" =>
        /\ late = {}
        /\ pc # "up" => ~serving /\ \A r \in Reqs : task[r] \notin {"accepted", "running"}

-----------------------------------------------------------------------------
\* Counting the bracket: a request that enters adds one, one that leaves
\* takes one away, and any other change of a task keeps the count.
LEMMA BracketFinite == IsFiniteSet(Bracketed) /\ Cardinality(Bracketed) \in Nat
                       /\ Cardinality(Reqs) \in Nat /\ Cardinality(Bracketed) <= Cardinality(Reqs)
  BY LifecycleAssumption, FS_Subset, FS_CardinalityType DEF Bracketed

LEMMA BracketEnter ==
    ASSUME TypeOK, NEW r \in Reqs, task[r] = "accepted", task' = [task EXCEPT ![r] = "running"]
    PROVE  Cardinality(Bracketed') = Cardinality(Bracketed) + 1
  <1>1. Bracketed' = Bracketed \cup {r} /\ r \notin Bracketed
    BY DEF Bracketed, TypeOK
  <1> QED  BY <1>1, BracketFinite, FS_AddElement

LEMMA BracketLeave ==
    ASSUME TypeOK, NEW r \in Reqs, r \in Bracketed, task' = [task EXCEPT ![r] = "done"]
    PROVE  /\ Cardinality(Bracketed') = Cardinality(Bracketed) - 1
           /\ Cardinality(Bracketed) >= 1
  <1>1. Bracketed' = Bracketed \ {r}
    BY DEF Bracketed, TypeOK
  <1>2. Cardinality(Bracketed) # 0
    BY BracketFinite, FS_EmptySet
  <1> QED  BY SMTT(30), <1>1, <1>2, BracketFinite, FS_RemoveElement

LEMMA InitInv == Init => IInv /\ Progress /\ Waited /\ Closing
  <1> SUFFICES ASSUME Init PROVE IInv /\ Progress /\ Waited /\ Closing
    OBVIOUS
  <1>1. Bracketed = {}
    BY DEF Init, Bracketed
  <1>2. Cardinality(Bracketed) = 0
    BY <1>1, FS_EmptySet
  <1>3. in_flight \in 0..Cardinality(Reqs)
    BY BracketFinite DEF Init
  <1>4. TypeOK
    BY <1>3 DEF Init, TypeOK
  <1>5. CounterIsExact
    BY <1>2 DEF Init, CounterIsExact
  <1> QED  BY <1>4, <1>5 DEF Init, IInv, Progress, Waited, Closing

\* Each step of a request and of the server, and every step that leaves the
\* tasks and the counter alone.
LEMMA StepInv == IInv /\ [Next]_vars => IInv'
  <1> SUFFICES ASSUME IInv, [Next]_vars PROVE IInv'
    OBVIOUS
  <1> USE DEF IInv
  <1>1. ASSUME NEW r \in Reqs, Enter(r) PROVE IInv'
    <2>1. Cardinality(Bracketed') = Cardinality(Bracketed) + 1
      BY <1>1, BracketEnter DEF Enter
    <2>2. Cardinality(Bracketed') \in Nat /\ Cardinality(Bracketed') <= Cardinality(Reqs)
      <3>1. Bracketed' \subseteq Reqs
        BY DEF Bracketed
      <3> QED  BY <3>1, LifecycleAssumption, FS_Subset, FS_CardinalityType
    <2>3. in_flight' = Cardinality(Bracketed') /\ (idle' <=> in_flight' = 0)
      BY <1>1, <2>1, BracketFinite DEF Enter, CounterIsExact
    <2>4. in_flight' \in 0..Cardinality(Reqs)
      BY <2>2, <2>3, BracketFinite
    <2>5. TypeOK'
      BY <1>1, <2>4 DEF TypeOK, Enter, NoteEntry, app
    <2> QED  BY <2>3, <2>5 DEF CounterIsExact
  <1>2. ASSUME NEW r \in Reqs, Leave(r) PROVE IInv'
    <2>1. r \in Bracketed
      BY <1>2 DEF Leave, Bracketed
    <2>2. Cardinality(Bracketed') = Cardinality(Bracketed) - 1 /\ Cardinality(Bracketed) >= 1
      BY <1>2, <2>1, BracketLeave DEF Leave
    <2>3. in_flight' = Cardinality(Bracketed') /\ (idle' <=> in_flight' = 0)
      BY <1>2, <2>2, BracketFinite DEF Leave, CounterIsExact, TypeOK
    <2>4. in_flight' \in 0..Cardinality(Reqs)
      BY <2>2, <2>3, BracketFinite
    <2>5. TypeOK'
      BY <1>2, <2>4 DEF TypeOK, Leave
    <2> QED  BY <2>3, <2>5 DEF CounterIsExact
  <1>3. ASSUME Bracketed' = Bracketed, UNCHANGED <<in_flight, idle>>, TypeOK' PROVE IInv'
    BY <1>3 DEF CounterIsExact
  <1>4. ASSUME NEW r \in Reqs, Accept(r) PROVE IInv'
    <2>1. Bracketed' = Bracketed /\ TypeOK'
      BY <1>4 DEF Accept, Bracketed, TypeOK, app
    <2> QED  BY <1>3, <1>4, <2>1 DEF Accept
  <1>5. CASE CancelTasks
    <2>1. Bracketed' = Bracketed /\ TypeOK'
      BY <1>5 DEF CancelTasks, Bracketed, TypeOK, app
    <2> QED  BY <1>3, <1>5, <2>1 DEF CancelTasks
  <1>6. CASE Stop \/ Lifespan \/ Exited \/ UNCHANGED vars
    <2>1. UNCHANGED <<task, in_flight, idle>>
      BY <1>6 DEF Stop, Lifespan, BeginShutdown, Drain, DrainReturns, DrainTimesOut, DrainFails,
         CloseClient, DisposeEngine, Exited, vars, app
    <2>2. TypeOK'
      BY ZenonT(60), <1>6 DEF TypeOK, Stop, Lifespan, BeginShutdown, Drain, DrainReturns, DrainTimesOut,
         DrainFails, DrainEnds, CloseClient, DisposeEngine, Exited, vars, app
    <2> QED  BY <1>3, <2>1, <2>2 DEF Bracketed
  <1> QED  BY <1>1, <1>2, <1>4, <1>5, <1>6 DEF Next, Request, Server

THEOREM Invariant == Spec => []IInv
  <1> QED  BY InitInv, StepInv, PTL DEF Spec

\* Every variable keeps its kind, and the counter its range.
THEOREM TypeCorrect == Spec => []TypeOK
  <1>1. IInv => TypeOK
    BY DEF IInv
  <1> QED  BY <1>1, Invariant, PTL

\* The in-flight counter is the number of requests between acquire and
\* release, and the idle event says whether it is zero, under any server.
THEOREM CounterExact == Spec => []CounterIsExact
  <1>1. IInv => CounterIsExact
    BY DEF IInv
  <1> QED  BY <1>1, Invariant, PTL

-----------------------------------------------------------------------------
\* Each label of the lifespan keeps its facts.
LEMMA StepProgress == IInv /\ Progress /\ [Next]_vars => Progress'
  <1> SUFFICES ASSUME IInv, Progress, [Next]_vars PROVE Progress'
    OBVIOUS
  <1>1. ASSUME NEW r \in Reqs, Request(r) PROVE Progress'
    BY <1>1 DEF Request, Accept, Enter, Leave, Progress, app
  <1>2. CASE Server \/ Exited \/ UNCHANGED vars
    BY <1>2 DEF Server, Stop, CancelTasks, Exited, vars, app, Progress
  <1>3. CASE Lifespan
    BY <1>3 DEF Lifespan, BeginShutdown, Drain, DrainReturns, DrainTimesOut, DrainFails, DrainEnds,
       CloseClient, DisposeEngine, Progress
  <1> QED  BY <1>1, <1>2, <1>3 DEF Next

LEMMA EmptyMeansZero == \A B \in SUBSET Reqs : Cardinality(B) = 0 <=> B = {}
  BY LifecycleAssumption, FS_Subset, FS_EmptySet

\* The drain is woken, or returns, over an empty bracket; whoever enters from
\* then on is a latecomer.
LEMMA StepWaited == IInv /\ Progress /\ Waited /\ [Next]_vars => Waited'
  <1> SUFFICES ASSUME IInv, Progress, Waited, [Next]_vars PROVE Waited'
    OBVIOUS
  <1>0. /\ task \in [Reqs -> {"none", "accepted", "running", "cancelled", "done"}]
        /\ (in_flight = 0 <=> Bracketed = {}) /\ (idle <=> in_flight = 0)
    BY EmptyMeansZero DEF IInv, TypeOK, CounterIsExact, Bracketed
  <1>1. (in_flight' = 0 <=> Bracketed' = {}) /\ (idle' <=> in_flight' = 0)
    <2>1. CounterIsExact' /\ Bracketed' \in SUBSET Reqs
      BY StepInv DEF IInv, Bracketed
    <2> QED  BY <2>1, EmptyMeansZero DEF CounterIsExact
  <1>2. ASSUME NEW r \in Reqs, Accept(r) PROVE Waited'
    BY <1>0, <1>2 DEF Accept, Waited, Bracketed, app
  <1>3. ASSUME NEW r \in Reqs, Enter(r) PROVE Waited'
    <2>1. Bracketed' = Bracketed \cup {r} /\ UNCHANGED <<pc, drained>>
      BY <1>0, <1>3 DEF Enter, Bracketed, app
    <2>2. pc = "woken" \/ drained = "true" => late' = late \cup {r}
      BY <1>3 DEF Enter, NoteEntry, Progress
    <2> QED  BY <2>1, <2>2 DEF Waited
  <1>4. ASSUME NEW r \in Reqs, Leave(r) PROVE Waited'
    <2>1. Bracketed' \subseteq Bracketed /\ UNCHANGED <<late, drained>>
      BY <1>0, <1>4 DEF Leave, Bracketed
    <2>2. CASE pc' = pc
      BY <2>1, <2>2 DEF Waited
    <2>3. CASE pc' # pc
      BY <1>1, <1>4, <2>3 DEF Leave, Waited
    <2> QED  BY <2>2, <2>3
  <1>5. CASE Server \/ Exited \/ UNCHANGED vars
    BY <1>0, <1>5 DEF Server, Stop, CancelTasks, Exited, vars, app, Waited, Bracketed
  <1>6. CASE BeginShutdown
    <2>1. UNCHANGED <<Bracketed, late>>
      BY <1>6 DEF BeginShutdown, Bracketed
    <2>2. pc' = "woken" \/ drained' = "true" => Bracketed = {}
      BY <1>0, <1>6 DEF BeginShutdown, DrainEnds, Progress
    <2> QED  BY <2>1, <2>2 DEF Waited
  <1>7. CASE Drain \/ CloseClient \/ DisposeEngine
    BY <1>7 DEF Drain, DrainReturns, DrainTimesOut, DrainFails, DrainEnds, CloseClient,
       DisposeEngine, Waited, Bracketed
  <1> QED  BY <1>2, <1>3, <1>4, <1>5, <1>6, <1>7 DEF Next, Request, Lifespan

\* With a server that stops first, nothing enters during the shutdown, so
\* nobody is late.
LEMMA StepClosing == IInv /\ Progress /\ Closing /\ [Next]_vars => Closing'
  <1> SUFFICES ASSUME IInv, Progress, Closing, [Next]_vars PROVE Closing'
    OBVIOUS
  <1> USE DEF IInv
  <1>1. ASSUME NEW r \in Reqs, Request(r) PROVE Closing'
    BY <1>1 DEF Request, Accept, Enter, NoteEntry, Leave, Closing, TypeOK, app
  <1>2. CASE Server \/ Exited \/ UNCHANGED vars
    BY <1>2 DEF Server, Stop, CancelTasks, Exited, vars, app, Closing
  <1>3. CASE Lifespan
    BY <1>3 DEF Lifespan, BeginShutdown, LifespanMayEnd, Drain, DrainReturns, DrainTimesOut,
       DrainFails, DrainEnds, CloseClient, DisposeEngine, Closing
  <1> QED  BY <1>1, <1>2, <1>3 DEF Next

LEMMA ShutdownInvariant == Spec => [](IInv /\ Progress /\ Waited /\ Closing)
  <1>1. IInv /\ Progress /\ Waited /\ Closing /\ [Next]_vars
            => (IInv /\ Progress /\ Waited /\ Closing)'
    BY StepInv, StepProgress, StepWaited, StepClosing
  <1> QED  BY <1>1, InitInv, PTL DEF Spec

\* The drain keeps its promise under any server, also one that accepts all
\* along: when the client or the engine closes after a drain that succeeded,
\* whoever is still inside came in after the count had reached zero.
THEOREM DrainWaitsForEverybody == Spec => []OnlyLatecomersLose
  <1>1. IInv /\ Progress /\ Waited => OnlyLatecomersLose
    BY DEF IInv, TypeOK, Progress, Waited, OnlyLatecomersLose
  <1> QED  BY <1>1, ShutdownInvariant, PTL

\* app/main.py:43 - under a server that has stopped accepting and has let go
\* of its requests, the client and the engine close under a request only when
\* the drain was skipped, timed out or failed: there are no latecomers.
THEOREM NoConnectionIsLost == Spec => []ClosedOnlyWhenQuiet
  <1>1. IInv /\ Progress /\ Waited /\ Closing => ClosedOnlyWhenQuiet
    BY DEF IInv, TypeOK, Progress, Waited, Closing, ClosedOnlyWhenQuiet
  <1> QED  BY <1>1, ShutdownInvariant, PTL
=============================================================================
