----------------------------- MODULE JwksProofs -----------------------------
(***************************************************************************)
(* Theorems of JwksCache, for any number of callers and keys and any time  *)
(* limits.                                                                 *)
(*                                                                         *)
(* LockIsSound is inductive together with the types.  It is proved about   *)
(* the queue as such: Sound says that a queue holds the waiting actors,    *)
(* each once, the fetching one first, and one lemma for each thing that    *)
(* happens to a queue says that it stays so.                               *)
(*                                                                         *)
(* The spacing of fetches needs one fact more: the stamp the cache trusts  *)
(* agrees with the observer's clock.                                       *)
(***************************************************************************)
EXTENDS JwksCache, SequenceTheorems, TLAPS

(***************************************************************************)
(* Queues.                                                                 *)
(***************************************************************************)
Sound(q, waiting, fetching) ==
    /\ q \in Seq(Actors)
    /\ \A a \in Actors : a \in waiting <=> \E i \in 1..Len(q) : q[i] = a
    /\ \A i, j \in 1..Len(q) : q[i] = q[j] => i = j
    /\ \A a \in fetching : a \in waiting /\ q[1] = a

LEMMA RemoveAtElements ==
    ASSUME NEW S, NEW q \in Seq(S), NEW i \in 1..Len(q)
    PROVE  /\ RemoveAt(q, i) \in Seq(S)
           /\ Len(RemoveAt(q, i)) = Len(q) - 1
           /\ \A k \in 1..Len(q) - 1 :
                 RemoveAt(q, i)[k] = IF k < i THEN q[k] ELSE q[k + 1]
  <1> DEFINE left == SubSeq(q, 1, i - 1)
             right == SubSeq(q, i + 1, Len(q))
  <1>1. /\ left \in Seq(S) /\ Len(left) = i - 1
        /\ \A k \in 1..i - 1 : left[k] = q[k]
    OBVIOUS
  <1>2. /\ right \in Seq(S) /\ Len(right) = Len(q) - i
        /\ \A k \in 1..Len(q) - i : right[k] = q[i + k]
    OBVIOUS
  <1> HIDE DEF left, right
  <1>3. /\ left \o right \in Seq(S)
        /\ Len(left \o right) = Len(q) - 1
        /\ \A k \in 1..Len(q) - 1 :
              (left \o right)[k] = IF k <= i - 1 THEN left[k] ELSE right[k - (i - 1)]
    <2>1. Len(left) + Len(right) = Len(q) - 1 /\ Len(left) = i - 1
      BY <1>1, <1>2
    <2>2. /\ left \o right \in Seq(S)
          /\ Len(left \o right) = Len(left) + Len(right)
          /\ \A k \in 1..Len(left) + Len(right) :
                (left \o right)[k] = IF k <= Len(left) THEN left[k] ELSE right[k - Len(left)]
      BY <1>1, <1>2, ConcatProperties, Zenon
    <2> QED  BY <2>1, <2>2, Zenon
  <1>4. ASSUME NEW k \in 1..Len(q) - 1
        PROVE  (left \o right)[k] = IF k < i THEN q[k] ELSE q[k + 1]
    <2>1. CASE k < i
      <3>1. k <= i - 1 /\ k \in 1..i - 1
        BY <2>1
      <3> QED  BY <3>1, <2>1, <1>1, <1>3
    <2>2. CASE ~(k < i)
      <3>1. ~(k <= i - 1) /\ k - (i - 1) \in 1..Len(q) - i /\ i + (k - (i - 1)) = k + 1
        BY <2>2
      <3>2. right[k - (i - 1)] = q[k + 1]
        BY <3>1, <1>2
      <3> QED  BY <3>1, <3>2, <2>2, <1>3
    <2> QED  BY <2>1, <2>2
  <1>5. RemoveAt(q, i) = left \o right
    BY DEF RemoveAt, left, right
  <1> QED  BY <1>3, <1>4, <1>5


LEMMA EmptyIsSound == Sound(<<>>, {}, {})
  BY DEF Sound

\* One that has to wait is put last.
LEMMA AppendIsSound ==
    ASSUME NEW q, NEW waiting \in SUBSET Actors, NEW fetching, Sound(q, waiting, fetching),
           q # <<>>, NEW a \in Actors \ waiting
    PROVE  Sound(Append(q, a), waiting \cup {a}, fetching)
  BY DEF Sound

\* The first one fetches.
LEMMA HeadIsSound ==
    ASSUME NEW q, NEW waiting \in SUBSET Actors, NEW fetching, Sound(q, waiting, fetching),
           q # <<>>, NEW a \in waiting, Head(q) = a
    PROVE  <<a>> \o Tail(q) = q /\ Sound(q, waiting, {a})
  BY DEF Sound

LEMMA SingleIsSound == ASSUME NEW a \in Actors PROVE Sound(<<a>>, {a}, {a})
  BY DEF Sound

LEMMA TailIsSound ==
    ASSUME NEW q, NEW waiting \in SUBSET Actors, Sound(q, waiting, {}),
           q # <<>>, NEW a \in waiting, Head(q) = a
    PROVE  Sound(Tail(q), waiting \ {a}, {})
  <1>1. /\ q \in Seq(Actors) /\ Tail(q) \in Seq(Actors) /\ Len(Tail(q)) = Len(q) - 1
        /\ q[1] = a /\ Len(q) \in Nat \ {0}
        /\ \A k \in 1..Len(q) - 1 : Tail(q)[k] = q[k + 1]
    BY DEF Sound
  <1>2. ASSUME NEW b \in Actors
        PROVE  b \in waiting \ {a} <=> \E k \in 1..Len(Tail(q)) : Tail(q)[k] = b
    <2>1. ASSUME b \in waiting, b # a PROVE \E k \in 1..Len(Tail(q)) : Tail(q)[k] = b
      <3>1. PICK j \in 1..Len(q) : q[j] = b
        BY <2>1 DEF Sound
      <3>2. j - 1 \in 1..Len(q) - 1 /\ (j - 1) + 1 = j
        BY <1>1, <2>1, <3>1
      <3> QED  BY <1>1, <3>1, <3>2
    <2>2. ASSUME NEW k \in 1..Len(Tail(q)) PROVE Tail(q)[k] \in waiting \ {a}
      BY <1>1 DEF Sound
    <2> QED  BY <2>1, <2>2
  <1>3. ASSUME NEW k \in 1..Len(Tail(q)), NEW l \in 1..Len(Tail(q)), Tail(q)[k] = Tail(q)[l]
        PROVE  k = l
    BY <1>1, <1>3 DEF Sound
  <1> QED  BY <1>1, <1>2, <1>3 DEF Sound

\* Somebody leaves, from wherever it is.
LEMMA RemoveIsSound ==
    ASSUME NEW q, NEW waiting \in SUBSET Actors, NEW fetching \in SUBSET waiting,
           Sound(q, waiting, fetching), NEW a \in waiting
    PROVE  Sound(RemoveAt(q, CHOOSE i \in DOMAIN q : q[i] = a), waiting \ {a}, fetching \ {a})
  <1> DEFINE i == CHOOSE k \in DOMAIN q : q[k] = a
             r == RemoveAt(q, i)
  <1>0. q \in Seq(Actors) /\ DOMAIN q = 1..Len(q) /\ Len(q) \in Nat
    BY DEF Sound
  <1>1. i \in 1..Len(q) /\ q[i] = a
    BY <1>0 DEF Sound
  <1> HIDE DEF i
  <1>2. /\ r \in Seq(Actors) /\ Len(r) = Len(q) - 1
        /\ \A k \in 1..Len(q) - 1 : r[k] = IF k < i THEN q[k] ELSE q[k + 1]
    BY <1>0, <1>1, RemoveAtElements
  <1> HIDE DEF r
  <1>3. ASSUME NEW k, NEW l, k \in 1..Len(r), l \in 1..Len(r), r[k] = r[l]
        PROVE  k = l
    BY <1>0, <1>1, <1>2, <1>3 DEF Sound
  <1>4. ASSUME NEW b \in Actors
        PROVE  b \in waiting \ {a} <=> \E k \in 1..Len(r) : r[k] = b
    <2>1. ASSUME b \in waiting, b # a PROVE \E k \in 1..Len(r) : r[k] = b
      <3>1. PICK j \in 1..Len(q) : q[j] = b
        BY <2>1 DEF Sound
      <3>2. CASE j < i
        BY <1>0, <1>1, <1>2, <3>1, <3>2
      <3>3. CASE j > i
        <4>1. j - 1 \in 1..Len(r) /\ ~(j - 1 < i) /\ (j - 1) + 1 = j
          BY <1>0, <1>1, <1>2, <3>3
        <4> QED  BY <1>2, <3>1, <4>1
      <3> QED  BY <1>0, <1>1, <2>1, <3>1, <3>2, <3>3
    <2>2. ASSUME NEW k \in 1..Len(r) PROVE r[k] \in waiting \ {a}
      BY SMTT(30), <1>0, <1>1, <1>2 DEF Sound
    <2> QED  BY <2>1, <2>2
  <1>5. ASSUME NEW b \in fetching \ {a} PROVE b \in waiting \ {a} /\ r[1] = b
    <2>1. b \in Actors /\ q[1] = b
      BY DEF Sound
    <2>2. b \in waiting \ {a}
      OBVIOUS
    <2>3. 1 < i /\ 1 \in 1..Len(r)
      BY <1>0, <1>1, <1>2, <2>1, <2>2, <1>4
    <2> QED  BY <1>2, <2>1, <2>2, <2>3
  <1> QED  BY <1>2, <1>3, <1>4, <1>5 DEF Sound, r, i

-----------------------------------------------------------------------------
(***************************************************************************)
(* The invariant.                                                          *)
(***************************************************************************)
Waiting == {a \in Actors : At(a) \in {"lock", "fetch"}}
Fetching == {a \in Actors : At(a) = "fetch"}

\* The cache's stamp is as old as the last fetch an observer saw leave.
Stamped == attempted = quiet

IInv == TypeOK /\ Sound(queue, Waiting, Fetching) /\ Stamped

LEMMA SoundIsLockIsSound == IInv => LockIsSound
  <1> SUFFICES ASSUME IInv PROVE LockIsSound
    OBVIOUS
  <1>0. queue \in Seq(Actors) /\ DOMAIN queue = 1..Len(queue)
    BY DEF IInv, TypeOK
  <1>1. \A a \in Actors : At(a) \in {"lock", "fetch"} <=> \E i \in DOMAIN queue : queue[i] = a
    BY <1>0, Zenon DEF IInv, Sound, Waiting
  <1>2. \A i, j \in DOMAIN queue : queue[i] = queue[j] => i = j
    BY <1>0, Zenon DEF IInv, Sound
  <1>3. ASSUME NEW a \in Actors, At(a) = "fetch" PROVE Head(queue) = a
    <2>1. queue[1] = a /\ a \in Waiting
      BY <1>3 DEF IInv, Sound, Fetching
    <2>2. queue # <<>>
      BY <1>0, <1>1, <1>3
    <2> QED  BY <1>0, <2>1, <2>2
  <1> QED  BY <1>1, <1>2, <1>3, Zenon DEF LockIsSound

LEMMA InitInvariant == Init => IInv
  <1> SUFFICES ASSUME Init PROVE IInv
    OBVIOUS
  <1>1. TypeOK
    BY JwksAssumption DEF Init, TypeOK, NoReply, Document, States, Actors
  <1>2. Waiting = {} /\ Fetching = {}
    BY DEF Init, Waiting, Fetching, At, Actors
  <1>3. Stamped
    BY DEF Init, Stamped
  <1> QED  BY <1>1, <1>2, <1>3, EmptyIsSound DEF Init, IInv

\* A caller moves and the task does not; the task moves and no caller does.
LEMMA CallerMoves ==
    ASSUME TypeOK, NEW c \in Callers, NEW s, pc' = [pc EXCEPT ![c] = s], UNCHANGED task
    PROVE  \A a \in Actors : At(a)' = IF a = c THEN s ELSE At(a)
  BY JwksAssumption DEF TypeOK, At, Actors

LEMMA TaskMoves ==
    ASSUME TypeOK, UNCHANGED pc
    PROVE  \A a \in Actors : At(a)' = IF a = Task THEN task' ELSE At(a)
  BY DEF At

\* In the hands of actor a, from outside the queue or as its head: it fetches
\* or it leaves.
LEMMA TakeKeepsSound ==
    ASSUME IInv, NEW a \in Actors, NEW s, \A b \in Actors : At(b)' = IF b = a THEN s ELSE At(b),
           NEW others,
           \/ queue = <<>> /\ others = <<>> /\ At(a) \notin {"lock", "fetch"}
           \/ At(a) = "lock" /\ Head(queue) = a /\ others = Tail(queue),
           \/ s = "fetch" /\ queue' = <<a>> \o others
           \/ s = "idle" /\ queue' = others
    PROVE  Sound(queue', Waiting', Fetching')
  <1>0. /\ queue \in Seq(Actors) /\ Waiting \in SUBSET Actors
        /\ Sound(queue, Waiting, Fetching)
    BY DEF IInv, TypeOK, Waiting
  <1>1. Fetching = {}
    <2> SUFFICES ASSUME NEW b \in Fetching PROVE FALSE
      OBVIOUS
    <2>1. b \in Actors /\ b \in Waiting /\ queue[1] = b /\ At(b) = "fetch"
      BY <1>0 DEF Sound, Fetching
    <2>2. queue # <<>>
      BY <1>0, <2>1 DEF Sound
    <2>3. At(a) = "lock" /\ a = b
      BY <1>0, <2>1, <2>2
    <2> QED  BY <2>1, <2>3
  <1>2. CASE s = "fetch" /\ queue' = <<a>> \o others
    <2>1. Waiting' = Waiting \cup {a} /\ Fetching' = {a}
      BY <1>1, <1>2 DEF Waiting, Fetching
    <2>2. CASE queue = <<>>
      <3>1. others = <<>>
        BY <2>2, <1>0 DEF Sound, Waiting
      <3>2. queue' = <<a>> /\ Waiting = {}
        BY <1>0, <1>2, <2>2, <3>1 DEF Sound, Waiting
      <3> QED  BY <2>1, <3>2, SingleIsSound
    <2>3. CASE queue # <<>>
      <3>1. a \in Waiting /\ Head(queue) = a /\ others = Tail(queue)
        BY <2>3 DEF Waiting
      <3>2. queue' = queue /\ Sound(queue, Waiting, {a})
        BY <1>0, <1>2, <2>3, <3>1, HeadIsSound
      <3> QED  BY <2>1, <3>1, <3>2
    <2> QED  BY <2>2, <2>3
  <1>3. CASE s = "idle" /\ queue' = others
    <2>1. Waiting' = Waiting \ {a} /\ Fetching' = {}
      BY <1>1, <1>3 DEF Waiting, Fetching
    <2>2. CASE queue = <<>>
      <3>1. queue' = queue /\ a \notin Waiting
        BY <1>0, <1>3, <2>2 DEF Sound, Waiting
      <3> QED  BY <1>0, <1>1, <2>1, <3>1
    <2>3. CASE queue # <<>>
      <3>1. a \in Waiting /\ Head(queue) = a /\ others = Tail(queue)
        BY <2>3 DEF Waiting
      <3> QED  BY <1>0, <1>1, <1>3, <2>1, <2>3, <3>1, TailIsSound
    <2> QED  BY <2>2, <2>3
  <1> QED  BY <1>2, <1>3

\* Somebody else holds the lock.
LEMMA WaitKeepsSound ==
    ASSUME IInv, NEW a \in Actors, \A b \in Actors : At(b)' = IF b = a THEN "lock" ELSE At(b),
           At(a) \notin {"lock", "fetch"}, queue # <<>>, queue' = Append(queue, a)
    PROVE  Sound(queue', Waiting', Fetching')
  <1>1. Waiting \in SUBSET Actors /\ a \in Actors \ Waiting /\ Sound(queue, Waiting, Fetching)
    BY DEF IInv, Waiting
  <1>2. Waiting' = Waiting \cup {a} /\ Fetching' = Fetching
    BY DEF Waiting, Fetching
  <1> QED  BY <1>1, <1>2, AppendIsSound

\* A fetch ends, or somebody gives up.
LEMMA LeaveKeepsSound ==
    ASSUME IInv, NEW a \in Actors, \A b \in Actors : At(b)' = IF b = a THEN "idle" ELSE At(b),
           At(a) \in {"lock", "fetch"}, queue' = ReleaseOf(a)
    PROVE  Sound(queue', Waiting', Fetching')
  <1>1. /\ Waiting \in SUBSET Actors /\ Fetching \in SUBSET Waiting /\ a \in Waiting
        /\ Sound(queue, Waiting, Fetching)
    BY DEF IInv, Waiting, Fetching
  <1>2. Waiting' = Waiting \ {a} /\ Fetching' = Fetching \ {a}
    BY DEF Waiting, Fetching
  <1> QED  BY <1>1, <1>2, RemoveIsSound DEF ReleaseOf

\* Nobody joins, leaves or gets the lock.
LEMMA OthersKeepSound ==
    ASSUME IInv, UNCHANGED queue,
           \A b \in Actors : At(b)' = At(b) \/ {At(b), At(b)'} \cap {"lock", "fetch"} = {}
    PROVE  Sound(queue', Waiting', Fetching')
  <1>1. Waiting' = Waiting /\ Fetching' = Fetching
    BY DEF Waiting, Fetching
  <1> QED  BY <1>1 DEF IInv

-----------------------------------------------------------------------------
(***************************************************************************)
(* The steps.                                                              *)
(***************************************************************************)
LEMMA ReleaseKeepsActors ==
    ASSUME IInv, NEW a \in Actors, At(a) \in {"lock", "fetch"}
    PROVE  ReleaseOf(a) \in Seq(Actors)
  <1>1. PICK i \in 1..Len(queue) : queue[i] = a
    BY DEF IInv, Sound, Waiting
  <1>2. queue \in Seq(Actors) /\ DOMAIN queue = 1..Len(queue)
    BY DEF IInv, TypeOK
  <1>3. (CHOOSE k \in DOMAIN queue : queue[k] = a) \in 1..Len(queue)
    BY <1>1, <1>2
  <1> QED  BY <1>2, <1>3, RemoveAtElements DEF ReleaseOf

LEMMA StepTypes == IInv /\ [Next]_vars => TypeOK'
  <1> SUFFICES ASSUME IInv, [Next]_vars PROVE TypeOK'
    OBVIOUS
  <1> USE JwksAssumption
  <1>0. TypeOK
    BY DEF IInv
  <1>1. \A a \in Actors : At(a) = "lock" => Tail(queue) \in Seq(Actors) /\ queue # <<>>
    BY DEF IInv, TypeOK, Sound, Waiting
  <1>2. Task \in Actors /\ Callers \subseteq Actors
    BY DEF Actors
  <1>queues. \A a \in Actors : {<<>>, <<a>> \o <<>>, Append(queue, a)} \subseteq Seq(Actors)
    BY DEF IInv, TypeOK
  <1>3. ASSUME NEW c \in Callers, Ask(c) \/ ServeKnown(c) PROVE TypeOK'
    BY SMTT(30), <1>0, <1>3 DEF TypeOK, Ask, ServeKnown, Answered
  <1>4. ASSUME NEW c \in Callers, WaitForUnknown(c) PROVE TypeOK'
    <2>1. queue' \in Seq(Actors)
      BY <1>2, <1>4, <1>queues DEF WaitForUnknown, HoldingLock
    <2>2. {attempted', quiet'} \subseteq 0..(MinRefresh + 1) /\ UNCHANGED reply
      BY <1>0, <1>4 DEF TypeOK, WaitForUnknown, HoldingLock, StartFetch
    <2> QED  BY <1>0, <1>4, <2>1, <2>2 DEF TypeOK, WaitForUnknown, HoldingLock, Answered, StatusFor
  <1>5. ASSUME NEW c \in Callers, Resume(c) PROVE TypeOK'
    <2>1. At(c) = "lock"
      BY <1>5 DEF Resume, At
    <2>2. Tail(queue) \in Seq(Actors) /\ <<c>> \o Tail(queue) \in Seq(Actors)
      BY <1>1, <1>2, <2>1
    <2>3. queue' \in Seq(Actors)
      BY <1>5, <2>2 DEF Resume, HoldingLock
    <2>4. {attempted', quiet'} \subseteq 0..(MinRefresh + 1) /\ UNCHANGED reply
      BY <1>0, <1>5 DEF TypeOK, Resume, HoldingLock, StartFetch
    <2> QED  BY <1>0, <1>5, <2>3, <2>4 DEF TypeOK, Resume, HoldingLock, Answered, StatusFor
  <1>6. ASSUME NEW c \in Callers, Land(c) PROVE TypeOK'
    <2>1. At(c) = "fetch"
      BY <1>6 DEF Land, At
    <2>2. ReleaseOf(c) \in Seq(Actors)
      BY <1>2, <2>1, ReleaseKeepsActors
    <2>3. keys' \in SUBSET Kids /\ fetched' \in 0..(Ttl + 1)
      BY <1>0, <1>6 DEF TypeOK, Land, StoreKeys, ParsedKeys, Document
    <2>4. reply' \in [state : States \cup {"none"}, document : Document]
      BY <1>6 DEF Land, NoReply, Document
    <2> QED  BY <1>0, <1>6, <2>2, <2>3, <2>4 DEF TypeOK, Land, Answered, StatusFor, FetchStatus
  <1>7. ASSUME NEW c \in Callers, Cancel(c) PROVE TypeOK'
    <2>1. At(c) \in {"lock", "fetch"}
      BY <1>7 DEF Cancel, At
    <2>2. ReleaseOf(c) \in Seq(Actors)
      BY <1>2, <2>1, ReleaseKeepsActors
    <2> QED  BY <1>0, <1>7, <2>2 DEF TypeOK, Cancel, Answered, NoReply, Document
  <1>8. CASE TaskStart
    <2>1. queue' \in Seq(Actors)
      BY <1>2, <1>8, <1>queues DEF TaskStart, TaskHoldingLock
    <2>2. {attempted', quiet'} \subseteq 0..(MinRefresh + 1) /\ UNCHANGED reply
      BY <1>0, <1>8 DEF TypeOK, TaskStart, TaskHoldingLock, StartFetch
    <2> QED  BY <1>0, <1>8, <2>1, <2>2 DEF TypeOK, TaskStart, TaskHoldingLock
  <1>9. CASE TaskResume
    <2>1. At(Task) = "lock"
      BY <1>9 DEF TaskResume, At
    <2>2. Tail(queue) \in Seq(Actors) /\ <<Task>> \o Tail(queue) \in Seq(Actors)
      BY <1>1, <1>2, <2>1
    <2>3. queue' \in Seq(Actors)
      BY <1>9, <2>2 DEF TaskResume, TaskHoldingLock
    <2>4. {attempted', quiet'} \subseteq 0..(MinRefresh + 1) /\ UNCHANGED reply
      BY <1>0, <1>9 DEF TypeOK, TaskResume, TaskHoldingLock, StartFetch
    <2> QED  BY <1>0, <1>9, <2>3, <2>4 DEF TypeOK, TaskResume, TaskHoldingLock
  <1>10. CASE TaskLand
    <2>1. At(Task) = "fetch"
      BY <1>10 DEF TaskLand, At
    <2>2. ReleaseOf(Task) \in Seq(Actors)
      BY <1>2, <2>1, ReleaseKeepsActors
    <2> QED  BY <1>0, <1>10, <2>2 DEF TypeOK, TaskLand, StoreKeys, ParsedKeys, NoReply, Document
  <1>11. CASE Rotate
    BY <1>0, <1>11 DEF TypeOK, Rotate
  <1>12. CASE FailOrRecover
    BY <1>0, <1>12 DEF TypeOK, FailOrRecover, States
  <1>13. CASE Respond
    BY <1>0, <1>13 DEF TypeOK, Respond, NoReply, Document
  <1>14. CASE Tick
    BY <1>0, <1>14 DEF TypeOK, Tick, Older
  <1>15. CASE UNCHANGED vars
    BY <1>0, <1>15 DEF TypeOK, vars
  <1> QED  BY <1>3, <1>4, <1>5, <1>6, <1>7, <1>8, <1>9, <1>10, <1>11, <1>12, <1>13, <1>14, <1>15
           DEF Next, Serve, Background, Environment

LEMMA StepSound == IInv /\ [Next]_vars => Sound(queue', Waiting', Fetching')
  <1> SUFFICES ASSUME IInv, [Next]_vars PROVE Sound(queue', Waiting', Fetching')
    OBVIOUS
  <1>0. TypeOK
    BY DEF IInv
  <1>1. Task \in Actors /\ Callers \subseteq Actors /\ Task \notin Callers
    BY JwksAssumption DEF Actors
  <1>2. \A c \in Callers : At(c) = pc[c]
    BY <1>1 DEF At
  <1>3. ASSUME NEW c \in Callers, Ask(c) PROVE Sound(queue', Waiting', Fetching')
    <2>1. \A a \in Actors : At(a)' = IF a = c THEN "asked" ELSE At(a)
      BY <1>0, <1>3, CallerMoves DEF Ask
    <2>2. At(c) = "idle" /\ UNCHANGED queue
      BY <1>2, <1>3 DEF Ask
    <2> QED  BY <2>1, <2>2, OthersKeepSound
  <1>4. ASSUME NEW c \in Callers, ServeKnown(c) PROVE Sound(queue', Waiting', Fetching')
    <2>1. /\ pc[c] = "asked" /\ pc' = [pc EXCEPT ![c] = "idle"] /\ UNCHANGED queue
          /\ task' = task \/ (task \in {"never", "idle"} /\ task' = "created")
      BY <1>4 DEF ServeKnown, Answered, TaskFree
    <2>2. \A b \in Actors : At(b)' = At(b) \/ {At(b), At(b)'} \cap {"lock", "fetch"} = {}
      BY <1>0, <1>1, <2>1 DEF TypeOK, At, Actors
    <2> QED  BY <2>1, <2>2, OthersKeepSound
  <1>5. ASSUME NEW c \in Callers, WaitForUnknown(c) PROVE Sound(queue', Waiting', Fetching')
    <2>1. At(c) = "asked" /\ UNCHANGED task /\ c \in Actors
      BY <1>1, <1>2, <1>5 DEF WaitForUnknown
    <2>2. CASE queue = <<>>
      <3>1. PICK s : /\ pc' = [pc EXCEPT ![c] = s]
                     /\ (s = "fetch" /\ queue' = <<c>> \o <<>>) \/ (s = "idle" /\ queue' = <<>>)
        BY <1>5, <2>2 DEF WaitForUnknown, HoldingLock, Answered
      <3>2. \A a \in Actors : At(a)' = IF a = c THEN s ELSE At(a)
        BY <1>0, <2>1, <3>1, CallerMoves
      <3> QED  BY <2>1, <2>2, <3>1, <3>2, TakeKeepsSound
    <2>3. CASE queue # <<>>
      <3>1. pc' = [pc EXCEPT ![c] = "lock"] /\ queue' = Append(queue, c)
        BY <1>5, <2>3 DEF WaitForUnknown
      <3>2. \A a \in Actors : At(a)' = IF a = c THEN "lock" ELSE At(a)
        BY <1>0, <2>1, <3>1, CallerMoves
      <3> QED  BY <2>1, <2>3, <3>1, <3>2, WaitKeepsSound
    <2> QED  BY <2>2, <2>3
  <1>6. ASSUME NEW c \in Callers, Resume(c) PROVE Sound(queue', Waiting', Fetching')
    <2>1. At(c) = "lock" /\ Head(queue) = c /\ UNCHANGED task /\ c \in Actors
      BY <1>1, <1>2, <1>6 DEF Resume
    <2>2. PICK s : /\ pc' = [pc EXCEPT ![c] = s]
                   /\ \/ s = "fetch" /\ queue' = <<c>> \o Tail(queue)
                      \/ s = "idle" /\ queue' = Tail(queue)
      BY <1>6 DEF Resume, HoldingLock, Answered
    <2>3. \A a \in Actors : At(a)' = IF a = c THEN s ELSE At(a)
      BY <1>0, <2>1, <2>2, CallerMoves
    <2> QED  BY <2>1, <2>2, <2>3, TakeKeepsSound
  <1>7. ASSUME NEW c \in Callers, Land(c) \/ Cancel(c) PROVE Sound(queue', Waiting', Fetching')
    <2>1. /\ At(c) \in {"lock", "fetch"} /\ c \in Actors
          /\ pc' = [pc EXCEPT ![c] = "idle"] /\ UNCHANGED task /\ queue' = ReleaseOf(c)
      BY <1>1, <1>2, <1>7 DEF Land, Cancel, Answered
    <2>2. \A a \in Actors : At(a)' = IF a = c THEN "idle" ELSE At(a)
      BY <1>0, <2>1, CallerMoves
    <2> QED  BY <2>1, <2>2, LeaveKeepsSound
  <1>8. ASSUME Background \/ TaskLand PROVE Sound(queue', Waiting', Fetching')
    <2>1. \A a \in Actors : At(a)' = IF a = Task THEN task' ELSE At(a)
      BY <1>0, <1>8, TaskMoves DEF Background, TaskStart, TaskResume, TaskLand
    <2>2. At(Task) = task
      BY DEF At
    <2>3. CASE TaskStart /\ queue = <<>>
      <3>1. \/ task' = "fetch" /\ queue' = <<Task>> \o <<>>
            \/ task' = "idle" /\ queue' = <<>>
        BY <2>3 DEF TaskStart, TaskHoldingLock
      <3>2. At(Task) = "created"
        BY <2>2, <2>3 DEF TaskStart
      <3> QED  BY <1>1, <2>1, <2>3, <3>1, <3>2, TakeKeepsSound
    <2>4. CASE TaskStart /\ queue # <<>>
      <3>1. task' = "lock" /\ queue' = Append(queue, Task) /\ At(Task) = "created"
        BY <2>2, <2>4 DEF TaskStart
      <3>2. \A a \in Actors : At(a)' = IF a = Task THEN "lock" ELSE At(a)
        BY <2>1, <3>1
      <3> QED  BY <1>1, <2>4, <3>1, <3>2, WaitKeepsSound
    <2>5. CASE TaskResume
      <3>1. /\ At(Task) = "lock" /\ Head(queue) = Task
            /\ \/ task' = "fetch" /\ queue' = <<Task>> \o Tail(queue)
               \/ task' = "idle" /\ queue' = Tail(queue)
        BY <2>2, <2>5 DEF TaskResume, TaskHoldingLock
      <3> QED  BY <1>1, <2>1, <3>1, TakeKeepsSound
    <2>6. CASE TaskLand
      <3>1. At(Task) = "fetch" /\ task' = "idle" /\ queue' = ReleaseOf(Task)
        BY <2>2, <2>6 DEF TaskLand
      <3>2. \A a \in Actors : At(a)' = IF a = Task THEN "idle" ELSE At(a)
        BY <2>1, <3>1
      <3> QED  BY <1>1, <3>1, <3>2, LeaveKeepsSound
    <2> QED  BY <1>8, <2>3, <2>4, <2>5, <2>6 DEF Background
  <1>9. ASSUME Environment \/ UNCHANGED vars PROVE Sound(queue', Waiting', Fetching')
    <2>1. UNCHANGED <<queue, pc, task>>
      BY <1>9 DEF Environment, Rotate, FailOrRecover, Respond, Tick, vars
    <2>2. \A b \in Actors : At(b)' = At(b)
      BY <2>1 DEF At
    <2> QED  BY <2>1, <2>2, OthersKeepSound
  <1> QED  BY <1>3, <1>4, <1>5, <1>6, <1>7, <1>8, <1>9 DEF Next, Serve

\* Every fetch that leaves is stamped, and the two clocks tick together.
LEMMA StepStamped == Stamped /\ [Next]_vars => Stamped'
  <1> SUFFICES ASSUME Stamped, [Next]_vars PROVE Stamped'
    OBVIOUS
  <1>1. ASSUME NEW c \in Callers, Ask(c) \/ ServeKnown(c) \/ Land(c) \/ Cancel(c)
        PROVE  Stamped'
    BY <1>1 DEF Stamped, Ask, ServeKnown, Land, Cancel
  <1>2. ASSUME NEW c \in Callers, WaitForUnknown(c) \/ Resume(c) PROVE Stamped'
    BY <1>2 DEF Stamped, WaitForUnknown, Resume, HoldingLock, StartFetch
  <1>3. CASE TaskStart \/ TaskResume
    BY <1>3 DEF Stamped, TaskStart, TaskResume, TaskHoldingLock, StartFetch
  <1>4. CASE TaskLand
    BY <1>4 DEF Stamped, TaskLand
  <1>5. CASE Rotate \/ FailOrRecover \/ Respond \/ UNCHANGED vars
    BY <1>5 DEF Stamped, Rotate, FailOrRecover, Respond, vars
  <1>6. CASE Tick
    BY <1>6 DEF Stamped, Tick
  <1> QED  BY <1>1, <1>2, <1>3, <1>4, <1>5, <1>6 DEF Next, Serve, Background, Environment

LEMMA StepInvariant == IInv /\ [Next]_vars => IInv'
  BY StepTypes, StepSound, StepStamped DEF IInv

-----------------------------------------------------------------------------
(***************************************************************************)
(* The theorems.                                                           *)
(***************************************************************************)
LEMMA Invariant == Spec => []IInv
  BY InitInvariant, StepInvariant, PTL DEF Spec

\* Every variable of the cache and its provider keeps its type.
THEOREM TypeCorrect == Spec => []TypeOK
  <1>1. IInv => TypeOK
    BY DEF IInv
  <1> QED  BY <1>1, Invariant, PTL

\* However many checks queue, and whichever of them a timeout cancels, the
\* lock's queue is exactly those that wait or fetch, each once, the fetching
\* one first: there is never a second fetch, nor a lock that nobody holds.
THEOREM LockStaysSound == Spec => []LockIsSound
  BY Invariant, SoundIsLockIsSound, PTL

\* By an observer's clock, no fetch leaves inside the backoff window of the
\* one before it, whoever started either and however that one ended: every
\* departure was stamped, and nobody departs on a fresh stamp.
THEOREM FetchesStaySpaced == Spec => FetchesAreSpaced
  <1> DEFINE Spaced == \A a \in Actors : At(a) # "fetch" /\ At(a)' = "fetch" => quiet > MinRefresh
  <1>1. IInv /\ [Next]_vars => [Spaced]_vars
    <2> SUFFICES ASSUME IInv, Next, NEW a \in Actors, At(a) # "fetch", At(a)' = "fetch"
                 PROVE  quiet > MinRefresh
      BY DEF vars
    <2>0. TypeOK /\ Task \notin Callers
      BY JwksAssumption DEF IInv
    <2>1. MayRefetch
      <3>1. CASE a = Task
        <4>1. task # "fetch" /\ task' = "fetch"
          BY <3>1 DEF At
        <4> QED  BY <4>1 DEF Next, Ask, Serve, ServeKnown, WaitForUnknown, HoldingLock, Resume,
                    Land, Cancel, Background, TaskStart, TaskResume, TaskHoldingLock, RefreshDue,
                    TaskLand, Environment, Rotate, FailOrRecover, Respond, Tick, Answered
      <3>2. CASE a \in Callers
        <4>1. pc[a] # "fetch" /\ pc'[a] = "fetch"
          BY <2>0, <3>2 DEF At
        <4>2. PICK c \in Callers : Ask(c) \/ Serve(c) \/ Land(c) \/ Cancel(c)
          BY <4>1 DEF Next, Background, TaskStart, TaskResume, TaskLand, Environment, Rotate,
                FailOrRecover, Respond, Tick
        <4> QED  BY <2>0, <3>2, <4>1, <4>2
                 DEF TypeOK, Ask, Serve, ServeKnown, WaitForUnknown, HoldingLock, Resume, Land,
                     Cancel, Answered
      <3> QED  BY <3>1, <3>2 DEF Actors
    <2> QED  BY <2>1 DEF MayRefetch, IInv, Stamped
  <1> QED  BY <1>1, Invariant, PTL DEF Spec, FetchesAreSpaced, Spaced

\* No caller is told that a key does not exist which the cache holds by then.
THEOREM ArrivedStaysServed == Spec => ArrivedKeyIsServed
  <1> DEFINE Served == \A c \in Callers : answer'[c] = "not_found" /\ answer[c] # "not_found"
                           => kid[c] \notin keys'
  <1>1. IInv /\ [Next]_vars => [Served]_vars
    <2> SUFFICES ASSUME IInv, Next, NEW c \in Callers, answer'[c] = "not_found",
                        answer[c] # "not_found"
                 PROVE  kid[c] \notin keys'
      BY DEF vars
    <2>0. TypeOK
      BY DEF IInv
    <2>1. PICK d \in Callers : Ask(d) \/ Serve(d) \/ Land(d) \/ Cancel(d)
      BY DEF Next, Background, TaskStart, TaskResume, TaskLand, Environment, Rotate,
            FailOrRecover, Respond, Tick
    <2> QED  BY <2>0, <2>1
             DEF TypeOK, Ask, Serve, ServeKnown, WaitForUnknown, HoldingLock, Resume, Land,
                 StoreKeys, ParsedKeys, StatusFor, FetchStatus, Cancel, Answered
  <1> QED  BY <1>1, Invariant, PTL DEF Spec, ArrivedKeyIsServed, Served

=============================================================================
