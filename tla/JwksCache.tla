------------------------------ MODULE JwksCache ------------------------------
(***************************************************************************)
(* The cache of the authorization server's signing keys (JWKSCache in      *)
(* app/core/security.py) under concurrent token checks, a rotating and     *)
(* failing provider, request timeouts and the background refresh.          *)
(*                                                                         *)
(* A step is the code between two awaits.  The asyncio lock is its queue:  *)
(* the head holds it, and the lock is granted in arrival order.            *)
(*                                                                         *)
(* Data: a key is its kid; the provider publishes usable keys and entries  *)
(* the parser skips.  Clocks are ages, which stop just past the limit they *)
(* are compared with (float("-inf") is such an age).                       *)
(*                                                                         *)
(* quiet is a history variable: it sees fetches leave and is read by       *)
(* properties only.                                                        *)
(***************************************************************************)
EXTENDS Integers, Sequences, SequencesExt

CONSTANTS
    Callers,     \* concurrent token checks
    Kids,        \* key ids in tokens and documents
    Task,        \* the background refresh
    Ttl,         \* OAUTH_JWKS_TTL_SECONDS
    MinRefresh,  \* OAUTH_JWKS_MIN_REFRESH_SECONDS
    Faults       \* "down", "bad", "timeout": what may go wrong

ASSUME JwksAssumption ==
    /\ Ttl \in Nat /\ MinRefresh \in Nat
    /\ Task \notin Callers
    /\ Faults \subseteq {"down", "bad", "timeout"}

VARIABLES
    keys,         \* _keys: the kids the cache can answer
    fetched,      \* age of _fetched_at
    attempted,    \* age of _last_attempt
    quiet,        \* how long ago a fetch left last, as an observer sees it
    queue,        \* _lock: its holder, then the waiters
    task,         \* _refresh_task: idle (None or done), created, lock, fetch
    pc, kid,      \* each caller: where it is and the kid it needs
    answer,       \* what its last token check ended with
    provider,     \* what the provider publishes now, and its state
    reply         \* what it sent to the fetch in flight

vars == <<keys, fetched, attempted, quiet, queue, task, pc, kid, answer, provider, reply>>

Actors == Callers \cup {Task}
At(a) == IF a = Task THEN task ELSE pc[a]

\* A document: its usable keys, and whether it has entries that are not.
Document == [good : SUBSET Kids, malformed : BOOLEAN]
States == {"up", "down", "bad"}

(***************************************************************************)
(* The guards of the cache.                                                *)
(***************************************************************************)
IsStale == fetched > Ttl
MayRefetch == attempted > MinRefresh

(***************************************************************************)
(* A fetch: the attempt is stamped before the request leaves.              *)
(***************************************************************************)
NoReply == [state |-> "none", document |-> [good |-> {}, malformed |-> FALSE]]

\* Variant: a fetch is not stamped.
StartFetch_Unstamped == UNCHANGED <<attempted, reply>>

StartFetch == attempted' = 0 /\ UNCHANGED reply

\* Variant: a malformed entry spoils the document.
ParsedKeys_AllOrNothing(document) == IF document.malformed THEN {} ELSE document.good

\* Keys of other uses or types, and malformed ones, are skipped one by one.
ParsedKeys(document) == document.good

StoreKeys(document) ==
    /\ keys' = ParsedKeys(document)
    /\ fetched' = 0

Answered(c, status) ==
    /\ pc' = [pc EXCEPT ![c] = "idle"]
    /\ answer' = [answer EXCEPT ![c] = status]

\* Variant: the kid is not looked up again after the wait.
StatusFor_BeforeWait(c, known) == "not_found"

StatusFor(c, known) == IF kid[c] \in known THEN "key" ELSE "not_found"

\* Variant: cancelling leaves the lock held.
ReleaseOf_Leak(a) == queue

\* The lock without actor a: the holder leaves it, or a waiter gives up.
ReleaseOf(a) == RemoveAt(queue, CHOOSE i \in DOMAIN queue : queue[i] = a)

(***************************************************************************)
(* get_signing_key.                                                        *)
(***************************************************************************)
Ask(c) ==
    /\ pc[c] = "idle"
    /\ \E k \in Kids : kid' = [kid EXCEPT ![c] = k]
    /\ pc' = [pc EXCEPT ![c] = "asked"]
    /\ answer' = [answer EXCEPT ![c] = "none"]
    /\ UNCHANGED <<keys, fetched, attempted, quiet, queue, task, provider, reply>>

\* Variant: a task that ever existed counts as running.
TaskFree_Once == task = "never"

\* _refresh_task is None or done.
TaskFree == task \in {"never", "idle"}

\* A known kid is answered at once; a stale set also starts the background
\* task, unless one is running or the backoff forbids a fetch anyway.
ServeKnown(c) ==
    /\ pc[c] = "asked" /\ kid[c] \in keys
    /\ Answered(c, "key")
    /\ task' = IF IsStale /\ MayRefetch /\ TaskFree THEN "created" ELSE task
    /\ UNCHANGED <<keys, fetched, attempted, quiet, queue, kid, provider, reply>>

\* What a caller does while it holds the lock, up to the await of the fetch.
\* The kid may have arrived while it was queued.
HoldingLock(c, others) ==
    IF kid[c] \notin keys /\ MayRefetch
    THEN /\ StartFetch
         /\ quiet' = 0
         /\ pc' = [pc EXCEPT ![c] = "fetch"]
         /\ queue' = <<c>> \o others
         /\ UNCHANGED answer
    ELSE /\ Answered(c, StatusFor(c, keys))
         /\ queue' = others
         /\ UNCHANGED <<attempted, quiet, reply>>

WaitForUnknown(c) ==
    /\ pc[c] = "asked" /\ kid[c] \notin keys
    /\ IF queue = <<>>
       THEN HoldingLock(c, <<>>)
       ELSE /\ queue' = Append(queue, c)
            /\ pc' = [pc EXCEPT ![c] = "lock"]
            /\ UNCHANGED <<attempted, quiet, reply, answer>>
    /\ UNCHANGED <<keys, fetched, task, kid, provider>>

Resume(c) ==
    /\ pc[c] = "lock" /\ Head(queue) = c
    /\ HoldingLock(c, Tail(queue))
    /\ UNCHANGED <<keys, fetched, task, kid, provider>>

(***************************************************************************)
(* The fetch of a caller ends.  A response that is no key document is a    *)
(* 401 of its own; a transport failure keeps the client's 5xx.             *)
(***************************************************************************)
FetchStatus(state) == IF state = "down" THEN "upstream" ELSE "unusable"

Land(c) ==
    /\ pc[c] = "fetch" /\ reply # NoReply
    /\ IF reply.state = "up"
       THEN /\ StoreKeys(reply.document)
            /\ Answered(c, StatusFor(c, ParsedKeys(reply.document)))
       ELSE /\ Answered(c, FetchStatus(reply.state))
            /\ UNCHANGED <<keys, fetched>>
    /\ queue' = ReleaseOf(c)
    /\ reply' = NoReply
    /\ UNCHANGED <<attempted, quiet, task, kid, provider>>

\* TimeoutMiddleware cancels a caller at its await.
Cancel(c) ==
    /\ "timeout" \in Faults
    /\ pc[c] \in {"lock", "fetch"}
    /\ Answered(c, "timeout")
    /\ queue' = ReleaseOf(c)
    /\ reply' = IF pc[c] = "fetch" THEN NoReply ELSE reply
    /\ UNCHANGED <<keys, fetched, attempted, quiet, task, kid, provider>>

(***************************************************************************)
(* _background_refresh.                                                    *)
(***************************************************************************)
\* Variant: staleness and backoff are not checked again under the lock.
RefreshDue_Unchecked == TRUE

RefreshDue == IsStale /\ MayRefetch

TaskHoldingLock(others) ==
    IF RefreshDue
    THEN /\ StartFetch
         /\ quiet' = 0
         /\ task' = "fetch"
         /\ queue' = <<Task>> \o others
    ELSE /\ task' = "idle"
         /\ queue' = others
         /\ UNCHANGED <<attempted, quiet, reply>>

TaskStart ==
    /\ task = "created"
    /\ IF queue = <<>>
       THEN TaskHoldingLock(<<>>)
       ELSE /\ task' = "lock"
            /\ queue' = Append(queue, Task)
            /\ UNCHANGED <<attempted, quiet, reply>>
    /\ UNCHANGED <<keys, fetched, pc, kid, answer, provider>>

TaskResume ==
    /\ task = "lock" /\ Head(queue) = Task
    /\ TaskHoldingLock(Tail(queue))
    /\ UNCHANGED <<keys, fetched, pc, kid, answer, provider>>

\* A failure is logged and fails no request.
TaskLand ==
    /\ task = "fetch" /\ reply # NoReply
    /\ IF reply.state = "up" THEN StoreKeys(reply.document) ELSE UNCHANGED <<keys, fetched>>
    /\ task' = "idle"
    /\ queue' = ReleaseOf(Task)
    /\ reply' = NoReply
    /\ UNCHANGED <<attempted, quiet, pc, kid, answer, provider>>

(***************************************************************************)
(* The environment: the provider rotates its keys, fails and recovers, and *)
(* answers a fetch with what it publishes at that moment; time passes.     *)
(***************************************************************************)
InFlight == \E a \in Actors : At(a) = "fetch"

Rotate ==
    /\ \E document \in Document \ {provider.document} :
           provider' = [provider EXCEPT !.document = document]
    /\ UNCHANGED <<keys, fetched, attempted, quiet, queue, task, pc, kid, answer, reply>>

FailOrRecover ==
    /\ \E state \in ({"up"} \cup (States \cap Faults)) \ {provider.state} :
           provider' = [provider EXCEPT !.state = state]
    /\ UNCHANGED <<keys, fetched, attempted, quiet, queue, task, pc, kid, answer, reply>>

Respond ==
    /\ InFlight /\ reply = NoReply
    /\ reply' = IF provider.state = "up" THEN provider
                ELSE [NoReply EXCEPT !.state = provider.state]
    /\ UNCHANGED <<keys, fetched, attempted, quiet, queue, task, pc, kid, answer, provider>>

Older(age, limit) == IF age > limit THEN age ELSE age + 1

Tick ==
    /\ fetched' = Older(fetched, Ttl)
    /\ attempted' = Older(attempted, MinRefresh)
    /\ quiet' = Older(quiet, MinRefresh)
    /\ UNCHANGED <<keys, queue, task, pc, kid, answer, provider, reply>>

-----------------------------------------------------------------------------
Init ==
    /\ keys = {}
    /\ fetched = Ttl + 1
    /\ attempted = MinRefresh + 1
    /\ quiet = MinRefresh + 1
    /\ queue = <<>>
    /\ task = "never"
    /\ pc = [c \in Callers |-> "idle"]
    /\ kid \in {[c \in Callers |-> k] : k \in Kids}
    /\ answer = [c \in Callers |-> "none"]
    /\ provider \in [state : {"up"}, document : Document]
    /\ reply = NoReply

Serve(c) == ServeKnown(c) \/ WaitForUnknown(c) \/ Resume(c)
Background == TaskStart \/ TaskResume
Environment == Rotate \/ FailOrRecover \/ Respond \/ Tick

Next ==
    \/ \E c \in Callers : Ask(c) \/ Serve(c) \/ Land(c) \/ Cancel(c)
    \/ Background \/ TaskLand
    \/ Environment

Spec == Init /\ [][Next]_vars

\* The loop runs every ready task, an HTTP call ends (it has a timeout), and
\* time passes.  Strong where a request timeout may strike first: a granted
\* lock is taken within a turn of the loop, and a fetch (HTTP_RETRY_ATTEMPTS
\* attempts of 3 s) is shorter than REQUEST_TIMEOUT_SECONDS, so neither is
\* cut short every time.
FairSpec ==
    /\ Spec
    /\ \A c \in Callers : WF_vars(Serve(c)) /\ SF_vars(Resume(c)) /\ SF_vars(Land(c))
    /\ WF_vars(Background) /\ WF_vars(TaskLand)
    /\ SF_vars(Respond) /\ WF_vars(Tick)

-----------------------------------------------------------------------------
\* Every variable holds a value of its kind, and the ages stay in range.
TypeOK ==
    /\ keys \in SUBSET Kids
    /\ fetched \in 0..(Ttl + 1)
    /\ attempted \in 0..(MinRefresh + 1)
    /\ quiet \in 0..(MinRefresh + 1)
    /\ queue \in Seq(Actors)
    /\ task \in {"never", "idle", "created", "lock", "fetch"}
    /\ pc \in [Callers -> {"idle", "asked", "lock", "fetch"}]
    /\ kid \in [Callers -> Kids]
    /\ answer \in [Callers -> {"none", "key", "not_found", "upstream", "unusable", "timeout"}]
    /\ provider \in [state : States, document : Document]
    /\ reply \in [state : States \cup {"none"}, document : Document]

\* The lock's queue is exactly those that wait for it or fetch, each once,
\* and whoever fetches holds it: a cancelled caller leaves no ghost behind.
LockIsSound ==
    /\ \A a \in Actors : (At(a) \in {"lock", "fetch"}) <=> (\E i \in DOMAIN queue : queue[i] = a)
    /\ \A i, j \in DOMAIN queue : queue[i] = queue[j] => i = j
    /\ \A a \in Actors : At(a) = "fetch" => Head(queue) = a

\* Whoever starts it, a fetch leaves more than MinRefresh after the one
\* before it left, also when that one failed or was cancelled.  Measured by
\* the observer's clock: a stamp missed anywhere would let the provider be
\* hit again while the cache believes itself quiet.
FetchesAreSpaced ==
    [][\A a \in Actors : At(a) # "fetch" /\ At(a)' = "fetch" => quiet > MinRefresh]_vars

\* Nobody is refused a key that arrived while they waited for it.
ArrivedKeyIsServed ==
    [][\A c \in Callers : answer'[c] = "not_found" /\ answer[c] # "not_found"
           => kid[c] \notin keys']_vars

\* Every token check ends.
EveryCheckEnds == \A c \in Callers : pc[c] = "asked" ~> pc[c] = "idle"

\* Once the provider settles on a set of keys, and as long as tokens keep
\* coming, the cache ends with that set: a new key gets in and a withdrawn
\* one gets out, whatever failed before.
CacheFollowsProvider ==
    \A settled \in SUBSET Kids :
        /\ <>[](provider.document.good = settled /\ provider.state = "up")
        /\ []<>(\E c \in Callers : pc[c] = "asked")
        => <>[](keys = settled)
=============================================================================
