---------------------------- MODULE UserProofs ----------------------------
(***************************************************************************)
(* Proofs about UserUnitOfWork: what holds for any number of requests,     *)
(* users and addresses.                                                    *)
(*                                                                         *)
(* 1. The unique address (IInv): a version that has entered the index      *)
(*    differs in its key from every committed live row and from every      *)
(*    other version in the index, and a row has at most one pending        *)
(*    version; committing one of them therefore keeps the table unique.    *)
(* 2. What each request leaves behind (EInv): a pending version is what    *)
(*    its request makes of the row as it is now; nothing of a request is   *)
(*    in the table before its commit; the address a lookup found free is   *)
(*    taken only by requests for that address that have committed since.   *)
(* 3. From both: a server error that is not the database's is a deadlock   *)
(*    of four requests; and, step by step, the unit of work implements     *)
(*    UserRegistry.                                                        *)
(***************************************************************************)
EXTENDS UserRefinement, TLAPS

Writing == {"index", "refresh", "commit"}

\* An arrived request names what its operation needs.
RequestOK ==
    \A r \in Reqs : pc[r] # "idle" =>
        IF Op(r) = "create" THEN req[r].email \in Emails /\ req[r].profile \in Profiles
                            ELSE req[r].id \in Ids

\* The id of a request names a row only once its create has committed.
FreshId ==
    \A r \in Reqs : rows[r] # Null => Op(r) = "create" /\ pc[r] \in {"committed", "done"}

\* Past the lookup, the user is loaded and its row exists.
Loaded ==
    \A r \in Reqs : pc[r] \in InTransaction /\ Op(r) # "create" =>
        user[r] # Null /\ rows[Target(r)] # Null

\* Only a request between flush and commit has a pending version.
PendingOK ==
    \A r \in Reqs : /\ pending[r] # Null => pc[r] \in Writing
                    /\ pc[r] = "index" => pending[r] # Null

OneWriter ==
    \A r, s \in Reqs : pending[r] # Null /\ pending[s] # Null
                       /\ Target(r) = Target(s) => r = s

\* A pending version of a tombstone is a tombstone.
PendingTombstone ==
    \A r \in Reqs : pending[r] # Null /\ rows[Target(r)] # Null
                    /\ ~IsLive(rows[Target(r)]) => ~IsLive(pending[r])

IndexApart ==
    \A r \in Reqs : Indexed(r) =>
        \A i \in Ids \ {Target(r)} : IsLive(rows[i]) => Key(rows[i]) # Key(pending[r])

IndexUnique ==
    \A r, s \in Reqs : Indexed(r) /\ Indexed(s)
                       /\ Key(pending[r]) = Key(pending[s]) => r = s

IInv ==
    /\ TypeOK
    /\ RequestOK
    /\ FreshId
    /\ Loaded
    /\ PendingOK
    /\ OneWriter
    /\ PendingTombstone
    /\ IndexApart
    /\ IndexUnique
    /\ LiveEmailsUnique

-----------------------------------------------------------------------------
\* Facts about the constants, for the steps below.
LEMMA Constants ==
    /\ Null \notin Row /\ Null \notin Ids /\ Null \notin Emails /\ Null \notin Profiles
    /\ \A n \in Nat : Null # n
    /\ Reqs \subseteq Ids
    /\ \A e \in Emails : Lower[e] \in Emails
    /\ \A r \in Reqs : Null # r
  BY UserAssumption DEF Ids

\* Whatever a client asks for is a request with the fields of its operation.
LEMMA Asked ==
    \A q \in ValidRequest :
        /\ q \in Request
        /\ IF q.op = "create" THEN q.email \in Emails /\ q.profile \in Profiles
                              ELSE q.id \in Ids
  <1> SUFFICES ASSUME NEW q \in ValidRequest
               PROVE /\ q \in Request
                     /\ IF q.op = "create" THEN q.email \in Emails /\ q.profile \in Profiles
                                           ELSE q.id \in Ids
    OBVIOUS
  <1>1. CASE q \in UserCreate
    BY <1>1, Constants DEF UserCreate, Request
  <1>2. CASE q \in UserUpdate
    BY <1>2, Constants DEF UserUpdate, Request
  <1>3. CASE q \in ByIdOnly
    BY <1>3, Constants DEF ByIdOnly, Request
  <1> QED  BY <1>1, <1>2, <1>3 DEF ValidRequest

\* The invariant holds at the start.
LEMMA InitInv == Init => IInv
  <1> SUFFICES ASSUME Init PROVE IInv
    OBVIOUS
  <1> USE Constants
  <1>0. ASSUME NEW r \in Reqs
        PROVE  /\ pc[r] = "idle" /\ pending[r] = Null /\ rows[r] = Null
               /\ req[r] = [op |-> "get", id |-> Null, email |-> Null, profile |-> Null]
    BY DEF Init
  <1>1. TypeOK
    <2>1. rows \in [Ids -> Row \cup {Null}]
      BY UserAssumption DEF Init
    <2>2. req \in [Reqs -> Request]
      BY DEF Init, Request
    <2> QED  BY <2>1, <2>2 DEF Init, TypeOK
  <1>2. RequestOK /\ FreshId /\ Loaded /\ PendingOK /\ OneWriter /\ PendingTombstone
    BY <1>0 DEF RequestOK, FreshId, Loaded, PendingOK, OneWriter, PendingTombstone, InTransaction
  <1>3. IndexApart /\ IndexUnique
    BY <1>0 DEF IndexApart, IndexUnique, Indexed
  <1>4. LiveEmailsUnique
    BY DEF Init, LiveEmailsUnique
  <1> QED  BY <1>1, <1>2, <1>3, <1>4 DEF IInv

\* Ending a request without effect keeps the invariant: a refusal, a
\* rollback, or the response after the commit.
LEMMA FinishInv ==
    ASSUME IInv, NEW r \in Reqs, NEW status \in {200, 201, 204, 404, 409, 500, 504},
           pc[r] # "idle", Finish(r, status), UNCHANGED <<rows, req, user, body>>
    PROVE  IInv'
  <1> USE Constants DEF IInv, Finish
  <1>0. /\ \A s \in Reqs : s # r => pc'[s] = pc[s] /\ pending'[s] = pending[s]
        /\ pc'[r] = "done" /\ pending'[r] = Null
    BY DEF TypeOK
  <1>1. TypeOK'
    BY DEF TypeOK, InTransaction
  <1>2. RequestOK' /\ FreshId' /\ Loaded'
    BY <1>0 DEF RequestOK, FreshId, Loaded, InTransaction, Op, Target
  <1>3. PendingOK' /\ OneWriter' /\ PendingTombstone'
    BY <1>0 DEF PendingOK, OneWriter, PendingTombstone, Writing, Target, Op
  <1>4. \A s \in Reqs : Indexed(s)' => s # r /\ Indexed(s)
    BY <1>0 DEF Indexed, IsLive
  <1>5. IndexApart'
    BY <1>0, <1>4 DEF IndexApart, Target, Op, Key, IsLive
  <1>6. IndexUnique'
    BY <1>0, <1>4 DEF IndexUnique, Key
  <1>7. LiveEmailsUnique'
    BY DEF LiveEmailsUnique, UniqueKeys
  <1> QED  BY <1>1, <1>2, <1>3, <1>5, <1>6, <1>7

\* Moving on to a label before the flush keeps the invariant.
LEMMA LookupInv ==
    ASSUME IInv, NEW r \in Reqs, NEW label \in {"precheck", "flush", "commit"},
           pc[r] \in {"begin", "precheck"}, Goto(r, label),
           user' \in [Reqs -> Row \cup {Null}], body' \in [Reqs -> Row \cup {Null}],
           \A s \in Reqs \ {r} : user'[s] = user[s],
           Op(r) # "create" => user'[r] # Null /\ rows[Target(r)] # Null,
           UNCHANGED <<rows, req, pending>>
    PROVE  IInv'
  <1> USE Constants DEF IInv, Goto
  <1>0. /\ \A s \in Reqs : s # r => pc'[s] = pc[s]
        /\ pc'[r] = label /\ pending[r] = Null
    BY DEF TypeOK, PendingOK, Writing
  <1>1. TypeOK'
    BY DEF TypeOK, InTransaction
  <1>2. RequestOK' /\ FreshId' /\ Loaded'
    BY <1>0 DEF RequestOK, FreshId, Loaded, InTransaction, Op, Target
  <1>3. PendingOK' /\ OneWriter' /\ PendingTombstone'
    BY <1>0 DEF PendingOK, OneWriter, PendingTombstone, Writing, Target, Op
  <1>4. \A s \in Reqs : Indexed(s)' => s # r /\ Indexed(s)
    BY <1>0 DEF Indexed, IsLive
  <1>5. IndexApart'
    BY <1>0, <1>4 DEF IndexApart, Target, Op, Key, IsLive
  <1>6. IndexUnique'
    BY <1>0, <1>4 DEF IndexUnique, Key
  <1>7. LiveEmailsUnique'
    BY DEF LiveEmailsUnique, UniqueKeys
  <1> QED  BY <1>1, <1>2, <1>3, <1>5, <1>6, <1>7


\* Arriving chooses the request and nothing else.
LEMMA ArriveInv ==
    ASSUME IInv, NEW r \in Reqs, Arrive(r)
    PROVE  IInv'
  <1> USE Constants DEF IInv, Goto
  <1>1. PICK q \in ValidRequest : req' = [req EXCEPT ![r] = q]
    BY WorkloadAssumption DEF Arrive
  <1>2. /\ \A s \in Reqs : s # r => pc'[s] = pc[s] /\ req'[s] = req[s]
        /\ pc'[r] = "begin" /\ req'[r] = q /\ pending[r] = Null /\ rows[r] = Null
        /\ UNCHANGED <<rows, user, body, pending, answer>>
    BY <1>1 DEF Arrive, TypeOK, PendingOK, Writing, FreshId
  <1>3. TypeOK'
    BY <1>1, <1>2, Asked DEF TypeOK, InTransaction, Arrive
  <1>4. RequestOK'
    BY <1>2, Asked DEF RequestOK, Op
  <1>5. FreshId' /\ Loaded'
    BY <1>2 DEF FreshId, Loaded, InTransaction, Op, Target
  <1>6. PendingOK' /\ OneWriter' /\ PendingTombstone'
    BY <1>2 DEF PendingOK, OneWriter, PendingTombstone, Writing, Target, Op
  <1>7. \A s \in Reqs : Indexed(s)' => s # r /\ Indexed(s)
    BY <1>2 DEF Indexed, IsLive
  <1>8. IndexApart' /\ IndexUnique'
    BY <1>2, <1>7 DEF IndexApart, IndexUnique, Target, Op, Key, IsLive
  <1>9. LiveEmailsUnique'
    BY <1>2 DEF LiveEmailsUnique, UniqueKeys
  <1> QED  BY <1>3, <1>4, <1>5, <1>6, <1>8, <1>9

\* A flushed version is a row, is the only one of its row, and is no live
\* version of a tombstone; it is not in the index yet.
LEMMA FlushInv ==
    ASSUME IInv, NEW r \in Reqs, Flush(r)
    PROVE  IInv'
  <1> USE Constants DEF IInv, Goto
  <1>0. pending[r] = Null /\ pc[r] = "flush" /\ UNCHANGED <<rows, req, user, body, answer>>
    BY DEF Flush, PendingOK, Writing
  <1>1. CASE pc'[r] = "refresh" /\ UNCHANGED pending /\ Op(r) # "create"
    <2>1. pc' = [pc EXCEPT ![r] = "refresh"]
      BY <1>1 DEF Flush, TypeOK
    <2>2. TypeOK' /\ RequestOK' /\ FreshId' /\ Loaded'
      BY <1>0, <1>1, <2>1 DEF TypeOK, RequestOK, FreshId, Loaded, InTransaction, Op, Target
    <2>3. PendingOK' /\ OneWriter' /\ PendingTombstone'
      BY <1>0, <1>1, <2>1 DEF TypeOK, PendingOK, OneWriter, PendingTombstone, Writing, Target, Op
    <2>4. \A s \in Reqs : Indexed(s)' => s # r /\ Indexed(s)
      BY <1>0, <1>1, <2>1 DEF TypeOK, Indexed, IsLive
    <2>5. IndexApart' /\ IndexUnique' /\ LiveEmailsUnique'
      BY <1>0, <1>1, <2>4 DEF IndexApart, IndexUnique, LiveEmailsUnique, UniqueKeys, Target, Op, Key, IsLive
    <2> QED  BY <2>2, <2>3, <2>5
  <1>2. CASE pc'[r] = "index"
    <2> DEFINE v == IF Op(r) = "create" THEN NewRow(r) ELSE SetColumns(r, rows[Target(r)])
    <2>1. /\ pc' = [pc EXCEPT ![r] = "index"]
          /\ pending' = [pending EXCEPT ![r] = v]
          /\ Op(r) # "create" => \A s \in Reqs : ~RowLockedBy(r, s)
      BY <1>0, <1>2 DEF Flush, TypeOK
    <2>2. Op(r) # "create" => rows[Target(r)] \in Row /\ user[r] \in Row
      BY <1>0 DEF Loaded, InTransaction, TypeOK, RequestOK, Target
    <2>3. v \in Row
      <3>1. CASE Op(r) = "create"
        BY <1>0, <3>1 DEF NewRow, Row, RequestOK
      <3>2. CASE Op(r) = "delete"
        BY <2>2, <3>2 DEF SetColumns, Row
      <3>3. CASE Op(r) \notin {"create", "delete"}
        BY <2>2, <3>3 DEF SetColumns, Assigned, Row, TypeOK, Request
      <3> QED  BY <3>1, <3>2, <3>3
    <2>4. rows[Target(r)] # Null /\ ~IsLive(rows[Target(r)]) => ~IsLive(v)
      <3>1. CASE Op(r) = "create"
        BY <1>0, <3>1 DEF Target, FreshId
      <3>2. CASE Op(r) = "delete"
        BY <2>2, <3>2 DEF SetColumns, Row, IsLive
      <3>3. CASE Op(r) \notin {"create", "delete"}
        BY <2>2, <3>3 DEF SetColumns, IsLive
      <3> QED  BY <3>1, <3>2, <3>3
    <2>5. /\ \A s \in Reqs : s # r => pc'[s] = pc[s] /\ pending'[s] = pending[s]
          /\ pc'[r] = "index" /\ pending'[r] = v /\ v # Null
      BY <2>1, <2>3 DEF TypeOK
    <2>6. TypeOK'
      BY <1>0, <2>1, <2>3 DEF TypeOK, InTransaction
    <2>7. RequestOK' /\ FreshId' /\ Loaded' /\ PendingOK'
      BY <1>0, <2>5 DEF RequestOK, FreshId, Loaded, PendingOK, Writing, InTransaction, Op, Target
    <2>8. \A s \in Reqs : s # r /\ pending[s] # Null => Target(s) # Target(r)
      <3> SUFFICES ASSUME NEW s \in Reqs, s # r, pending[s] # Null PROVE Target(s) # Target(r)
        OBVIOUS
      <3>1. CASE Op(r) = "create"
        BY <1>0, <3>1 DEF Target, FreshId, Loaded, PendingOK, Writing, InTransaction
      <3>2. CASE Op(r) # "create"
        BY <3>2, <2>1 DEF RowLockedBy
      <3> QED  BY <3>1, <3>2
    <2>9. OneWriter'
      BY <1>0, <2>5, <2>8 DEF OneWriter, Target, Op
    <2>10. PendingTombstone'
      BY <1>0, <2>4, <2>5 DEF PendingTombstone, Target, Op, IsLive
    <2>11. \A s \in Reqs : Indexed(s)' => s # r /\ Indexed(s)
      BY <2>5 DEF Indexed, IsLive
    <2>12. IndexApart' /\ IndexUnique' /\ LiveEmailsUnique'
      BY <1>0, <2>5, <2>11 DEF IndexApart, IndexUnique, LiveEmailsUnique, UniqueKeys, Target, Op, Key, IsLive
    <2> QED  BY <2>6, <2>7, <2>9, <2>10, <2>12
  <1> QED  BY <1>1, <1>2 DEF Flush, TypeOK

\* A version enters the index only if no committed row and no version in it
\* has the key: Conflicts rules out the first, Blocks the second.
LEMMA EnterIndexInv ==
    ASSUME IInv, NEW r \in Reqs, EnterIndex(r)
    PROVE  IInv'
  <1> USE Constants DEF IInv, Goto
  <1>1. CASE Conflicts(r) # {}
    BY <1>1, FinishInv DEF EnterIndex, IntegrityStatus
  <1>2. CASE Conflicts(r) = {}
    <2> DEFINE next == IF Op(r) = "delete" THEN "commit" ELSE "refresh"
    <2>1. /\ pc' = [pc EXCEPT ![r] = next]
          /\ pc[r] = "index" /\ pending[r] # Null
          /\ UNCHANGED <<rows, req, user, body, answer, pending>>
      BY <1>2 DEF EnterIndex, PendingOK
    <2>2. /\ \A s \in Reqs : s # r => pc'[s] = pc[s]
          /\ pc'[r] \in {"refresh", "commit"}
      BY <2>1 DEF TypeOK
    <2>3. TypeOK'
      BY <2>1 DEF TypeOK, InTransaction
    <2>4. RequestOK' /\ FreshId' /\ Loaded'
      BY <2>1, <2>2 DEF RequestOK, FreshId, Loaded, InTransaction, Op, Target
    <2>5. PendingOK' /\ OneWriter' /\ PendingTombstone'
      BY <2>1, <2>2 DEF PendingOK, OneWriter, PendingTombstone, Writing, Op, Target
    <2>6. \A s \in Reqs : Indexed(s)' => IsLive(pending[s]) /\ (s # r => Indexed(s))
      BY <2>1, <2>2 DEF Indexed, IsLive
    <2>7. IsLive(pending[r]) => \A i \in Ids \ {Target(r)} :
              IsLive(rows[i]) => Key(rows[i]) # Key(pending[r])
      BY <1>2 DEF Conflicts
    <2>8. IndexApart'
      BY <2>1, <2>6, <2>7 DEF IndexApart, Target, Op, Key, IsLive
    <2>9. IsLive(pending[r]) => \A s \in Reqs : s # r /\ Indexed(s)
                                    => Key(pending[s]) # Key(pending[r])
      BY DEF EnterIndex, Blocks, Indexed, IsLive
    <2>10. IndexUnique'
      BY <2>1, <2>6, <2>9 DEF IndexUnique, Key
    <2>11. LiveEmailsUnique'
      BY <2>1 DEF LiveEmailsUnique, UniqueKeys
    <2> QED  BY <2>3, <2>4, <2>5, <2>8, <2>10, <2>11
  <1> QED  BY <1>1, <1>2

\* refresh() only reads.
LEMMA RefreshInv ==
    ASSUME IInv, NEW r \in Reqs, Refresh(r)
    PROVE  IInv'
  <1> USE Constants DEF IInv, Goto
  <1>1. /\ pc' = [pc EXCEPT ![r] = "commit"] /\ pc[r] = "refresh"
        /\ UNCHANGED <<rows, req, user, pending, answer>>
    BY DEF Refresh
  <1>2. \A s \in Reqs : IF s = r THEN pc'[s] = "commit" ELSE pc'[s] = pc[s]
    BY <1>1 DEF TypeOK
  <1>3. Target(r) \in Ids
    BY <1>1 DEF RequestOK, Target
  <1>4. TypeOK'
    BY <1>1, <1>3 DEF TypeOK, InTransaction, Refresh
  <1>5. RequestOK' /\ FreshId' /\ Loaded'
    BY <1>1, <1>2 DEF RequestOK, FreshId, Loaded, InTransaction, Op, Target
  <1>6. PendingOK' /\ OneWriter' /\ PendingTombstone'
    BY <1>1, <1>2 DEF PendingOK, OneWriter, PendingTombstone, Writing, Op, Target
  <1>7. \A s \in Reqs : Indexed(s)' => Indexed(s)
    BY <1>1, <1>2 DEF Indexed, IsLive
  <1>8. IndexApart' /\ IndexUnique' /\ LiveEmailsUnique'
    BY <1>1, <1>7 DEF IndexApart, IndexUnique, LiveEmailsUnique, UniqueKeys, Target, Op, Key, IsLive
  <1> QED  BY <1>4, <1>5, <1>6, <1>8


\* Committing a version that is in the index, or a tombstone, keeps the table
\* unique, and every other version in the index apart from it.
LEMMA CommitInv ==
    ASSUME IInv, NEW r \in Reqs, pc[r] = "commit", rows' = Committed(r),
           NEW label \in {"committed", "done"}, pc' = [pc EXCEPT ![r] = label],
           pending' = [pending EXCEPT ![r] = Null],
           answer' \in [Reqs -> {Null, 200, 201, 204, 404, 409, 500, 504}],
           UNCHANGED <<req, user, body>>
    PROVE  IInv'
  <1> USE Constants DEF IInv
  <1>0. /\ \A s \in Reqs : s # r => pc'[s] = pc[s] /\ pending'[s] = pending[s]
        /\ pc'[r] = label /\ pending'[r] = Null
        /\ Target(r) \in Ids
    BY DEF TypeOK, RequestOK, Target
  <1>1. \A i \in Ids : IF i = Target(r) /\ pending[r] # Null THEN rows'[i] = pending[r]
                                                              ELSE rows'[i] = rows[i]
    BY <1>0 DEF Committed, TypeOK
  <1>2. TypeOK'
    <2>1. pending \in [Reqs -> Row \cup {Null}] /\ rows \in [Ids -> Row \cup {Null}]
          /\ pc \in [Reqs -> InTransaction \cup {"idle", "begin", "committed", "done"}]
      BY DEF TypeOK
    <2>2. rows' \in [Ids -> Row \cup {Null}]
      BY <1>0, <2>1 DEF Committed
    <2>3. pending' \in [Reqs -> Row \cup {Null}]
      BY <2>1
    <2>4. pc' \in [Reqs -> InTransaction \cup {"idle", "begin", "committed", "done"}]
      BY <2>1
    <2> QED  BY <2>2, <2>3, <2>4 DEF TypeOK
  <1>3. RequestOK' /\ Loaded'
    BY <1>0, <1>1 DEF RequestOK, Loaded, InTransaction, Op, Target, FreshId
  <1>4. FreshId'
    <2> SUFFICES ASSUME NEW s \in Reqs, rows'[s] # Null
                 PROVE Op(s) = "create" /\ pc'[s] \in {"committed", "done"}
      BY DEF FreshId, Op
    <2>1. CASE rows[s] # Null
      BY <2>1, <1>0 DEF FreshId
    <2>2. CASE rows[s] = Null
      <3>1. s = Target(r)
        BY <2>2, <1>1
      <3>2. Op(r) = "create"
        BY <2>2, <3>1 DEF Loaded, InTransaction
      <3> QED  BY <3>1, <3>2, <1>0 DEF Target
    <2> QED  BY <2>1, <2>2
  <1>5. PendingOK' /\ OneWriter'
    BY <1>0 DEF PendingOK, OneWriter, Writing, Op, Target
  <1>6. \A s \in Reqs : pending'[s] # Null /\ pending[r] # Null => Target(s) # Target(r)
    BY <1>0 DEF OneWriter
  <1>7. PendingTombstone'
    <2> SUFFICES ASSUME NEW s \in Reqs, pending'[s] # Null, rows'[Target(s)] # Null,
                        ~IsLive(rows'[Target(s)])
                 PROVE ~IsLive(pending'[s])
      BY DEF PendingTombstone, Target, Op, IsLive
    <2>1. s # r /\ pending'[s] = pending[s] /\ Target(s) \in Ids
      BY <1>0 DEF PendingOK, Writing, RequestOK, Target
    <2>2. rows'[Target(s)] = rows[Target(s)]
      BY <1>1, <1>6, <2>1
    <2> QED  BY <2>1, <2>2 DEF PendingTombstone
  <1>8. \A s \in Reqs : Indexed(s)' => s # r /\ Indexed(s) /\ pending'[s] = pending[s]
    BY <1>0 DEF Indexed, IsLive
  <1>9. IsLive(pending[r]) => Indexed(r)
    BY DEF Indexed
  <1>10. IndexApart'
    <2> SUFFICES ASSUME NEW s \in Reqs, Indexed(s)', NEW i \in Ids \ {Target(s)}, IsLive(rows'[i])
                 PROVE Key(rows'[i]) # Key(pending'[s])
      BY DEF IndexApart, Target, Op, Key, IsLive
    <2>1. CASE rows'[i] = rows[i]
      BY <2>1, <1>8 DEF IndexApart
    <2>2. CASE rows'[i] = pending[r]
      BY <2>2, <1>8, <1>9 DEF IndexUnique
    <2> QED  BY <2>1, <2>2, <1>1
  <1>11. IndexUnique'
    BY <1>8 DEF IndexUnique, Key
  <1>12. LiveEmailsUnique'
    <2> SUFFICES ASSUME NEW i \in Ids, NEW j \in Ids, IsLive(rows'[i]), IsLive(rows'[j]),
                        Key(rows'[i]) = Key(rows'[j])
                 PROVE i = j
      BY DEF LiveEmailsUnique, UniqueKeys, IsLive, Key
    <2>1. CASE rows'[i] = rows[i] /\ rows'[j] = rows[j]
      BY <2>1 DEF LiveEmailsUnique, UniqueKeys
    <2>2. CASE i = Target(r) /\ rows'[i] = pending[r] /\ j # Target(r)
      BY <2>2, <1>1, <1>9 DEF IndexApart
    <2>3. CASE j = Target(r) /\ rows'[j] = pending[r] /\ i # Target(r)
      BY <2>3, <1>1, <1>9 DEF IndexApart
    <2> QED  BY <2>1, <2>2, <2>3, <1>1
  <1> QED  BY <1>2, <1>3, <1>4, <1>5, <1>7, <1>10, <1>11, <1>12

\* A transaction cut short is rolled back, or it had reached its commit.
LEMMA CutShortInv ==
    ASSUME IInv, NEW r \in Reqs, NEW status \in {500, 504}, pc[r] # "idle",
           CutShort(r, status)
    PROVE  IInv'
  <1>1. CASE rows' = rows
    BY <1>1, FinishInv DEF CutShort
  <1>2. CASE pc[r] = "commit" /\ rows' = Committed(r)
    <2>1. answer' \in [Reqs -> {Null, 200, 201, 204, 404, 409, 500, 504}]
      BY DEF CutShort, Finish, IInv, TypeOK
    <2> QED  BY ZenonT(60), <1>2, <2>1, CommitInv DEF CutShort, Finish
  <1> QED  BY <1>1, <1>2 DEF CutShort

\* Every step keeps the invariant: one case per action.
LEMMA NextInv == IInv /\ [Next]_vars => IInv'
  <1> SUFFICES ASSUME IInv, [Next]_vars PROVE IInv'
    OBVIOUS
  <1> USE Constants
  <1>1. ASSUME NEW r \in Reqs, Arrive(r) PROVE IInv'
    BY <1>1, ArriveInv
  <1>2. ASSUME NEW r \in Reqs, GetUser(r) PROVE IInv'
    <2>1. CASE GetById(Target(r)) = Null
      BY <1>2, <2>1, FinishInv DEF GetUser
    <2>2. CASE GetById(Target(r)) # Null
      <3> DEFINE found == rows[Target(r)]
      <3>1. found \in Row /\ GetById(Target(r)) = found
        BY <1>2, <2>2 DEF GetUser, GetById, IsLive, IInv, TypeOK, RequestOK, Target
      <3>2. /\ user' = [user EXCEPT ![r] = found] /\ body' = [body EXCEPT ![r] = found]
            /\ UNCHANGED <<rows, req, pending>>
            /\ pc[r] = "begin"
        BY <1>2, <2>2, <3>1 DEF GetUser
      <3>3. \E label \in {"precheck", "flush", "commit"} : Goto(r, label)
        <4>1. Op(r) \in {"get", "update", "delete"}
          BY <1>2 DEF GetUser, IInv, TypeOK, Request, Op
        <4> QED  BY <1>2, <2>2, <4>1 DEF GetUser
      <3>4. /\ user' \in [Reqs -> Row \cup {Null}] /\ body' \in [Reqs -> Row \cup {Null}]
            /\ \A s \in Reqs \ {r} : user'[s] = user[s]
            /\ user'[r] # Null /\ rows[Target(r)] # Null
        BY <3>1, <3>2 DEF IInv, TypeOK
      <3> QED  BY <3>2, <3>3, <3>4, LookupInv
    <2> QED  BY <2>1, <2>2
  <1>3. ASSUME NEW r \in Reqs, PrecheckCreate(r) PROVE IInv'
    <2>1. CASE Finish(r, 409)
      BY <1>3, <2>1, FinishInv DEF PrecheckCreate
    <2>2. CASE Goto(r, "flush") /\ UNCHANGED pending
      <3>1. user' \in [Reqs -> Row \cup {Null}] /\ body' \in [Reqs -> Row \cup {Null}]
        BY <1>3 DEF PrecheckCreate, IInv, TypeOK
      <3> QED  BY <1>3, <2>2, <3>1, LookupInv DEF PrecheckCreate
    <2> QED  BY <1>3, <2>1, <2>2 DEF PrecheckCreate
  <1>4. ASSUME NEW r \in Reqs, PrecheckUpdate(r) PROVE IInv'
    <2>1. CASE Finish(r, 409)
      BY <1>4, <2>1, FinishInv DEF PrecheckUpdate
    <2>2. CASE Goto(r, "flush") /\ UNCHANGED pending
      <3>1. user' \in [Reqs -> Row \cup {Null}] /\ body' \in [Reqs -> Row \cup {Null}]
        BY <1>4 DEF PrecheckUpdate, IInv, TypeOK
      <3>2. Op(r) # "create" => user'[r] # Null /\ rows[Target(r)] # Null
        BY <1>4 DEF PrecheckUpdate, IInv, Loaded, InTransaction
      <3> QED  BY <1>4, <2>2, <3>1, <3>2, LookupInv DEF PrecheckUpdate
    <2> QED  BY <1>4, <2>1, <2>2 DEF PrecheckUpdate
  <1>5. ASSUME NEW r \in Reqs, Flush(r) PROVE IInv'
    BY <1>5, FlushInv
  <1>6. ASSUME NEW r \in Reqs, EnterIndex(r) PROVE IInv'
    BY <1>6, EnterIndexInv
  <1>7. ASSUME NEW r \in Reqs, Refresh(r) PROVE IInv'
    BY <1>7, RefreshInv
  <1>8. ASSUME NEW r \in Reqs, Commit(r) PROVE IInv'
    <2>1. answer' \in [Reqs -> {Null, 200, 201, 204, 404, 409, 500, 504}]
      BY <1>8 DEF Commit, Goto, IInv, TypeOK
    <2> QED  BY <1>8, <2>1, CommitInv DEF Commit, Goto
  <1>9. ASSUME NEW r \in Reqs, Respond(r) PROVE IInv'
    <2>1. Success(Op(r)) \in {200, 201, 204}
      BY DEF Success, Op, IInv, TypeOK, Request
    <2> QED  BY <1>9, <2>1, FinishInv DEF Respond
  <1>10. ASSUME NEW r \in Reqs, DbError(r) PROVE IInv'
    BY <1>10, CutShortInv DEF DbError, InTransaction
  <1>11. ASSUME NEW r \in Reqs, Timeout(r) PROVE IInv'
    BY <1>11, CutShortInv DEF Timeout, InTransaction
  <1>12. ASSUME NEW r \in Reqs, DeadlockVictim(r) PROVE IInv'
    <2>1. pc[r] = "index"
      BY <1>12 DEF DeadlockVictim, InDeadlock
    <2> QED  BY <1>12, <2>1, FinishInv DEF DeadlockVictim
  <1>13. ASSUME UNCHANGED vars PROVE IInv'
    BY <1>13 DEF vars, IInv, TypeOK, RequestOK, FreshId, Loaded, PendingOK, OneWriter,
                 PendingTombstone, IndexApart, IndexUnique, LiveEmailsUnique, UniqueKeys,
                 Op, Target, Indexed, IsLive, Key
  <1> QED  BY <1>1, <1>2, <1>3, <1>4, <1>5, <1>6, <1>7, <1>8, <1>9, <1>10, <1>11, <1>12, <1>13
           DEF Next, Serve, AllAnswered

-----------------------------------------------------------------------------
\* The invariant holds in every state the program reaches.
THEOREM Invariant == Spec => []IInv
  BY InitInv, NextInv, PTL DEF Spec

\* Every variable keeps its type, whatever the interleaving and the faults.
THEOREM TypeCorrect == Spec => []TypeOK
  <1>1. IInv => TypeOK
    BY DEF IInv
  <1> QED  BY Invariant, <1>1, PTL

\* No two live users ever hold the same address, for any number of requests
\* racing over any users: the index closes the gap the lookup leaves.
THEOREM EmailsStayUnique == Spec => []LiveEmailsUnique
  <1>1. IInv => LiveEmailsUnique
    BY DEF IInv
  <1> QED  BY Invariant, <1>1, PTL

-----------------------------------------------------------------------------
\* Its transaction has ended, or it never began one.
Ended(r) == pc[r] \in {"committed", "done"}

\* A request is one the schemas admit; only updates compare addresses.
ValidAsked(r) ==
    /\ pc[r] # "idle" => req[r] \in ValidRequest
    /\ pc[r] = "precheck" => Op(r) = "update"

\* The answer is the last step, and a success of the operation asked for.
AnswerOK(r) ==
    /\ pc[r] # "done" => answer[r] = Null
    /\ answer[r] = 201 => Op(r) = "create"
    /\ answer[r] = 204 => Op(r) = "delete"

\* The user is loaded by the first lookup.
LoadedOnce(r) == pc[r] \in {"idle", "begin"} => user[r] = Null

\* A pending version is what the request makes of the row as it is committed
\* now: nobody else writes a row that is locked.
PendingIsEffect(r) ==
    pending[r] # Null =>
        /\ Op(r) # "get"
        /\ Op(r) = "create" => pending[r] = NewRow(r)
        /\ Op(r) # "create" => pending[r] = SetColumns(r, rows[Target(r)])

\* Past its flush, only a get and an update without a change have no version.
NothingToWrite(r) ==
    pc[r] \in Writing /\ pending[r] = Null => Op(r) = "get" \/ (Op(r) = "update" /\ ~Dirty(r))

\* What a successful request did is in the table, and stays.
Stored(r) ==
    pc[r] = "committed" \/ answer[r] \in {201, 204} =>
        /\ Op(r) = "create" => rows[r] # Null
        /\ Op(r) = "delete" => rows[Target(r)] # Null /\ ~IsLive(rows[Target(r)])

\* The marks a request leaves in the table: its new row and its stamp.
Trace(r) == rows[r] # Null \/ \E i \in Ids : rows[i] # Null /\ rows[i].deleted_at = r

\* A request leaves a mark only by committing, so never when it is refused.
TraceIsCommitted(r) == Trace(r) => Ended(r) /\ answer[r] \notin {404, 409}

\* Until it commits, the address a request found free is taken only by
\* requests that asked for the same one and have committed since.
LookupHolds(r) ==
    /\ pc[r] \in {"flush", "index"} /\ req[r].email # Null
    /\ Op(r) = "update" => req[r].email # user[r].email
    => \A i \in GetByEmail(req[r].email) \ {Target(r)} :
           \E c \in Reqs : Ended(c) /\ Target(c) = i /\ req[c].email = req[r].email

Effects(r) ==
    /\ ValidAsked(r)
    /\ AnswerOK(r)
    /\ LoadedOnce(r)
    /\ PendingIsEffect(r)
    /\ NothingToWrite(r)
    /\ Stored(r)
    /\ TraceIsCommitted(r)
    /\ LookupHolds(r)

EInv == \A r \in Reqs : Effects(r)

\* What every step of request r respects: the other requests, the table but
\* for its commit, and what it has asked for.
Frame(r) ==
    \A s \in Reqs \ {r} : /\ pc'[s] = pc[s] /\ req'[s] = req[s] /\ user'[s] = user[s]
                          /\ pending'[s] = pending[s] /\ answer'[s] = answer[s]

Writes(r) == rows' = rows \/ (pc[r] = "commit" /\ rows' = Committed(r) /\ pc'[r] \in {"committed", "done"})

StaysEnded(r) ==
    /\ Ended(r) => pc'[r] \in {"committed", "done"}
    /\ pc[r] # "idle" => req'[r] = req[r]

Acts(r) == Arrive(r) \/ Serve(r) \/ DbError(r) \/ Timeout(r)

\* Every action of r is such a step.
LEMMA StepFrame ==
    ASSUME IInv, NEW r \in Reqs, Acts(r)
    PROVE  Frame(r) /\ Writes(r) /\ StaysEnded(r)
  <1> USE DEF IInv, TypeOK, Frame, Writes, StaysEnded, Ended, InTransaction
  <1>1. CASE Arrive(r)
    BY <1>1 DEF Arrive, Goto
  <1>2. CASE GetUser(r)
    <2>1. CASE GetById(Target(r)) = Null
      BY <1>2, <2>1 DEF GetUser, Finish
    <2>2. CASE GetById(Target(r)) # Null
      <3>1. /\ user' = [user EXCEPT ![r] = GetById(Target(r))]
            /\ \E label \in {"precheck", "flush", "commit"} : Goto(r, label)
            /\ UNCHANGED <<rows, req, pending>> /\ pc[r] = "begin"
        <4>1. Op(r) \in {"get", "update", "delete"}
          BY <1>2 DEF GetUser, Request, Op
        <4> QED  BY <1>2, <2>2, <4>1 DEF GetUser
      <3> QED  BY <3>1 DEF Goto
    <2> QED  BY <2>1, <2>2
  <1>3. CASE PrecheckCreate(r)
    BY <1>3 DEF PrecheckCreate, Goto, Finish
  <1>4. CASE PrecheckUpdate(r)
    BY <1>4 DEF PrecheckUpdate, Goto, Finish
  <1>5. CASE Flush(r)
    BY <1>5 DEF Flush, Goto
  <1>6. CASE EnterIndex(r)
    BY <1>6 DEF EnterIndex, Goto, Finish
  <1>7. CASE Refresh(r)
    BY <1>7 DEF Refresh, Goto
  <1>8. CASE Commit(r)
    BY <1>8 DEF Commit, Goto
  <1>9. CASE Respond(r)
    BY <1>9 DEF Respond, Finish
  <1>10. CASE DeadlockVictim(r)
    BY <1>10 DEF DeadlockVictim, Finish
  <1>11. ASSUME NEW status, pc[r] \in InTransaction \cup {"begin", "committed"}, CutShort(r, status)
         PROVE  Frame(r) /\ Writes(r) /\ StaysEnded(r)
    BY <1>11 DEF CutShort, Finish
  <1>12. CASE DbError(r)
    BY <1>11, <1>12 DEF DbError
  <1>13. CASE Timeout(r)
    BY <1>11, <1>13 DEF Timeout
  <1> QED  BY <1>1, <1>2, <1>3, <1>4, <1>5, <1>6, <1>7, <1>8, <1>9, <1>10, <1>12, <1>13
           DEF Acts, Serve

\* The table only moves forward.
LEMMA RowsKept ==
    ASSUME IInv, NEW r \in Reqs, Writes(r)
    PROVE  /\ KeepsTombstones
           /\ \A i \in Ids : \/ rows'[i] = rows[i]
                             \/ /\ i = Target(r) /\ pending[r] # Null /\ pc[r] = "commit"
                                /\ rows'[i] = pending[r]
                                /\ pc'[r] \in {"committed", "done"}
  <1>1. CASE rows' = rows
    BY <1>1 DEF KeepsTombstones, IsLive
  <1>2. CASE pc[r] = "commit" /\ rows' = Committed(r) /\ pc'[r] \in {"committed", "done"}
    <2>1. Target(r) \in Ids /\ rows \in [Ids -> Row \cup {Null}]
      BY <1>2, Constants DEF IInv, RequestOK, Target, TypeOK
    <2>2. \A i \in Ids : rows'[i] = IF i = Target(r) /\ pending[r] # Null
                                    THEN pending[r] ELSE rows[i]
      BY <1>2, <2>1 DEF Committed
    <2> QED  BY <1>2, <2>1, <2>2 DEF KeepsTombstones, IInv, PendingTombstone, IsLive
  <1> QED  BY <1>1, <1>2 DEF Writes

\* A user once deleted stays deleted and its row stays in the table, although
\* an update that loaded it earlier may still commit.
THEOREM DeletedStaysDeleted == Spec => TombstonesAreFinal
  <1>1. IInv /\ [Next]_vars => [KeepsTombstones]_vars
    <2> SUFFICES ASSUME IInv, [Next]_vars PROVE [KeepsTombstones]_vars
      OBVIOUS
    <2>1. ASSUME NEW r \in Reqs, Acts(r) PROVE KeepsTombstones
      BY <2>1, StepFrame, RowsKept
    <2> QED  BY <2>1 DEF Next, AllAnswered, Acts
  <1> QED  BY Invariant, <1>1, PTL DEF Spec, TombstonesAreFinal

\* What a request q may ask.
LEMMA Fields ==
    \A q \in ValidRequest :
        /\ q \in Request
        /\ q.op = "create" => q.email \in Emails /\ q.profile \in Profiles
        /\ q.op # "create" => q.id \in Ids
        /\ q.op \in {"get", "delete"} => q.email = Null /\ q.profile = Null
        /\ q.op = "update" => q.email \in Emails \cup {Null} /\ q.profile \in Profiles \cup {Null}
        /\ q.op \in {"create", "get", "update", "delete"}
  <1> SUFFICES ASSUME NEW q \in ValidRequest
               PROVE /\ q \in Request
                     /\ q.op = "create" => q.email \in Emails /\ q.profile \in Profiles
                     /\ q.op # "create" => q.id \in Ids
                     /\ q.op \in {"get", "delete"} => q.email = Null /\ q.profile = Null
                     /\ q.op = "update" => q.email \in Emails \cup {Null} /\ q.profile \in Profiles \cup {Null}
                     /\ q.op \in {"create", "get", "update", "delete"}
    OBVIOUS
  <1>0. q \in Request
    BY Asked
  <1>1. CASE q \in UserCreate
    BY <1>0, <1>1, Constants DEF UserCreate
  <1>2. CASE q \in UserUpdate
    BY <1>0, <1>2, Constants DEF UserUpdate
  <1>3. CASE q \in ByIdOnly
    BY <1>0, <1>3 DEF ByIdOnly
  <1> QED  BY <1>1, <1>2, <1>3 DEF ValidRequest

\* The schemas have lower-cased the address.
LEMMA AskedInLowerCase ==
    \A q \in ValidRequest : q.email # Null => Lower[q.email] = q.email
  <1> SUFFICES ASSUME NEW q \in ValidRequest, q.email # Null PROVE Lower[q.email] = q.email
    OBVIOUS
  <1>1. q \in UserCreate \/ q \in UserUpdate
    BY DEF ValidRequest, ByIdOnly
  <1>2. q.email \in {Lower[e] : e \in Emails}
    BY <1>1 DEF UserCreate, UserUpdate
  <1> QED  BY <1>2, UserAssumption

\* A step of one request keeps what holds of every other.
LEMMA OthersKept ==
    ASSUME IInv, EInv, NEW r \in Reqs, Frame(r), Writes(r), StaysEnded(r),
           NEW s \in Reqs, s # r
    PROVE  Effects(s)'
  <1> USE Constants
  <1>1. /\ pc'[s] = pc[s] /\ req'[s] = req[s] /\ user'[s] = user[s]
        /\ pending'[s] = pending[s] /\ answer'[s] = answer[s]
    BY DEF Frame
  <1>2. Effects(s) /\ Effects(r)
    BY DEF EInv
  <1>3. Op(s)' = Op(s) /\ Target(s)' = Target(s)
    BY <1>1 DEF Op, Target
  <1>4. \A i \in Ids : \/ rows'[i] = rows[i]
                       \/ /\ i = Target(r) /\ pending[r] # Null /\ pc[r] = "commit"
                          /\ rows'[i] = pending[r]
                          /\ pc'[r] \in {"committed", "done"}
    BY RowsKept
  <1>5. KeepsTombstones
    BY RowsKept
  <1>6. ValidAsked(s)' /\ AnswerOK(s)' /\ LoadedOnce(s)'
    BY <1>1, <1>2, <1>3 DEF Effects, ValidAsked, AnswerOK, LoadedOnce
  <1>7. PendingIsEffect(s)'
    <2> SUFFICES ASSUME pending[s] # Null PROVE PendingIsEffect(s)'
      BY <1>1 DEF PendingIsEffect
    <2>1. Target(s) \in Ids
      BY DEF IInv, PendingOK, Writing, RequestOK, Target
    <2>2. rows'[Target(s)] = rows[Target(s)]
      BY <1>4, <2>1 DEF IInv, OneWriter
    <2>3. NewRow(s)' = NewRow(s)
      BY <1>1 DEF NewRow
    <2>4. SetColumns(s, rows[Target(s)])' = SetColumns(s, rows[Target(s)])
      BY <1>1, <1>3, <2>2 DEF SetColumns, Assigned
    <2> QED  BY <1>1, <1>2, <1>3, <2>3, <2>4 DEF Effects, PendingIsEffect
  <1>8. NothingToWrite(s)'
    BY <1>1, <1>2, <1>3 DEF Effects, NothingToWrite, Dirty
  <1>9. Stored(s)'
    <2> SUFFICES ASSUME pc[s] = "committed" \/ answer[s] \in {201, 204} PROVE Stored(s)'
      BY <1>1 DEF Stored
    <2>1. Target(s) \in Ids
      BY <1>2 DEF Effects, AnswerOK, IInv, RequestOK, Target
    <2> QED  BY <1>1, <1>2, <1>3, <1>5, <2>1 DEF Effects, Stored, KeepsTombstones, IsLive
  <1>10. TraceIsCommitted(s)'
    <2> SUFFICES ASSUME Trace(s)' PROVE Trace(s)
      BY <1>1, <1>2 DEF Effects, TraceIsCommitted, Ended
    <2>1. CASE rows'[s] # Null
      <3>1. CASE rows[s] = Null
        <4>1. s = Target(r) /\ pc[r] = "commit"
          BY <1>4, <2>1, <3>1
        <4>2. Op(r) = "create"
          BY <3>1, <4>1 DEF IInv, Loaded, InTransaction
        <4> QED  BY <4>1, <4>2 DEF Target
      <3> QED  BY <3>1 DEF Trace
    <2>2. ASSUME NEW i \in Ids, rows'[i] # Null, rows'[i].deleted_at = s PROVE Trace(s)
      <3>1. CASE rows'[i] = rows[i]
        BY <2>2, <3>1 DEF Trace
      <3>2. CASE /\ i = Target(r) /\ pending[r] # Null /\ pc[r] = "commit"
                 /\ rows'[i] = pending[r]
        <4>1. CASE Op(r) = "create"
          BY <1>2, <2>2, <3>2, <4>1 DEF Effects, PendingIsEffect, NewRow
        <4>2. CASE Op(r) # "create"
          <5>1. rows[i] # Null /\ rows[i] \in Row
            BY <3>2, <4>2 DEF IInv, Loaded, InTransaction, TypeOK
          <5>2. pending[r] = SetColumns(r, rows[i])
            BY <1>2, <3>2, <4>2 DEF Effects, PendingIsEffect
          <5>3. CASE Op(r) = "delete"
            BY <2>2, <3>2, <5>1, <5>2, <5>3 DEF SetColumns, Row
          <5>4. CASE Op(r) # "delete"
            BY <2>2, <3>2, <5>1, <5>2, <5>4 DEF SetColumns, Trace
          <5> QED  BY <5>3, <5>4
        <4> QED  BY <4>1, <4>2
      <3> QED  BY <1>4, <3>1, <3>2
    <2> QED  BY <2>1, <2>2 DEF Trace
  <1>11. LookupHolds(s)'
    <2> SUFFICES ASSUME pc[s] \in {"flush", "index"}, req[s].email # Null,
                        Op(s) = "update" => req[s].email # user[s].email,
                        NEW i \in Ids, i # Target(s),
                        IsLive(rows'[i]), Lower[rows'[i].email] = Lower[req[s].email]
                 PROVE \E c \in Reqs : Ended(c)' /\ Target(c)' = i /\ req'[c].email = req[s].email
      BY <1>1, <1>3 DEF LookupHolds, GetByEmail, IsLive
    <2>0. ASSUME i \in GetByEmail(req[s].email)
          PROVE  \E c \in Reqs : Ended(c)' /\ Target(c)' = i /\ req'[c].email = req[s].email
      <3>1. PICK c \in Reqs : Ended(c) /\ Target(c) = i /\ req[c].email = req[s].email
        BY <1>2, <2>0 DEF Effects, LookupHolds
      <3>2. pc'[c] \in {"committed", "done"} /\ req'[c] = req[c]
        BY <3>1 DEF StaysEnded, Frame, Ended
      <3> QED  BY <3>1, <3>2 DEF Ended, Target, Op
    <2>1. CASE rows'[i] = rows[i]
      BY <2>0, <2>1 DEF GetByEmail
    <2>2. CASE /\ i = Target(r) /\ pending[r] # Null /\ pc[r] = "commit"
               /\ rows'[i] = pending[r]
               /\ pc'[r] \in {"committed", "done"}
      <3>1. req'[r] = req[r] /\ req[r] \in ValidRequest /\ req[s] \in ValidRequest
        BY <1>2, <2>2 DEF StaysEnded, Effects, ValidAsked
      <3>2. ASSUME pending[r].email = req[r].email, req[r].email # Null
            PROVE  \E c \in Reqs : Ended(c)' /\ Target(c)' = i /\ req'[c].email = req[s].email
        <4>1. req[r].email = req[s].email
          BY <2>2, <3>1, <3>2, AskedInLowerCase
        <4> QED  BY <2>2, <3>1, <4>1 DEF Ended, Target, Op
      <3>3. CASE Op(r) = "create"
        <4>1. pending[r] = NewRow(r) /\ req[r].email # Null
          BY <1>2, <2>2, <3>1, <3>3, Fields DEF Effects, PendingIsEffect, Op
        <4> QED  BY <3>2, <4>1 DEF NewRow
      <3>4. CASE Op(r) # "create"
        <4>1. rows[i] # Null /\ rows[i] \in Row /\ pending[r] = SetColumns(r, rows[i])
          BY <1>2, <2>2, <3>4 DEF IInv, Loaded, InTransaction, TypeOK, Effects, PendingIsEffect
        <4>2. Op(r) # "delete"
          BY <2>2, <4>1 DEF SetColumns, IsLive, Row
        <4>3. /\ pending[r].deleted_at = rows[i].deleted_at
              /\ pending[r].email = IF req[r].email \in {Null, user[r].email}
                                    THEN rows[i].email ELSE req[r].email
          BY <4>1, <4>2 DEF SetColumns, Assigned
        <4>4. CASE pending[r].email = rows[i].email
          BY <2>0, <2>2, <4>1, <4>3, <4>4 DEF GetByEmail, IsLive
        <4>5. CASE pending[r].email # rows[i].email
          BY <3>2, <4>3, <4>5
        <4> QED  BY <4>4, <4>5
      <3> QED  BY <3>3, <3>4
    <2> QED  BY <1>4, <2>1, <2>2
  <1> QED  BY <1>6, <1>7, <1>8, <1>9, <1>10, <1>11 DEF Effects

\* Ending a request without effect.
LEMMA FinishOwn ==
    ASSUME IInv, EInv, NEW r \in Reqs, NEW status \in {200, 201, 204, 404, 409, 500, 504},
           pc[r] # "idle", Finish(r, status), UNCHANGED <<rows, req, user>>,
           status \in {404, 409} => ~Ended(r),
           status \in {201, 204} => pc[r] = "committed",
           status = 201 => Op(r) = "create",
           status = 204 => Op(r) = "delete"
    PROVE  Effects(r)'
  <1> USE Constants
  <1>1. /\ pc'[r] = "done" /\ answer'[r] = status /\ pending'[r] = Null
        /\ UNCHANGED <<rows, req, user>>
    BY DEF Finish, IInv, TypeOK
  <1>2. Effects(r)
    BY DEF EInv
  <1>3. Op(r)' = Op(r) /\ Target(r)' = Target(r)
    BY <1>1 DEF Op, Target
  <1>4. ValidAsked(r)' /\ AnswerOK(r)' /\ LoadedOnce(r)' /\ PendingIsEffect(r)' /\ NothingToWrite(r)'
    BY <1>1, <1>2, <1>3 DEF Effects, ValidAsked, AnswerOK, LoadedOnce, PendingIsEffect,
                            NothingToWrite, Writing
  <1>5. Stored(r)'
    BY <1>1, <1>2, <1>3 DEF Effects, Stored, IsLive
  <1>6. TraceIsCommitted(r)'
    BY <1>1, <1>2 DEF Effects, TraceIsCommitted, Trace, Ended
  <1>7. LookupHolds(r)'
    BY <1>1 DEF LookupHolds
  <1> QED  BY <1>4, <1>5, <1>6, <1>7 DEF Effects

\* Moving on before the commit, over the same table.
LEMMA GotoOwn ==
    ASSUME IInv, EInv, NEW r \in Reqs,
           pc[r] \in InTransaction \cup {"begin"}, NEW label \in InTransaction, Goto(r, label),
           UNCHANGED <<rows, req>>,
           label = "precheck" => Op(r) = "update",
           PendingIsEffect(r)', NothingToWrite(r)', LookupHolds(r)'
    PROVE  Effects(r)'
  <1> USE Constants
  <1>1. pc'[r] = label /\ UNCHANGED <<rows, req, answer>>
    BY DEF Goto, IInv, TypeOK
  <1>2. Effects(r)
    BY DEF EInv
  <1>3. Op(r)' = Op(r) /\ Target(r)' = Target(r)
    BY <1>1 DEF Op, Target
  <1>4. ValidAsked(r)' /\ AnswerOK(r)' /\ LoadedOnce(r)'
    BY <1>1, <1>2, <1>3 DEF Effects, ValidAsked, AnswerOK, LoadedOnce, InTransaction
  <1>5. Stored(r)'
    BY <1>1, <1>2 DEF Effects, Stored, AnswerOK, InTransaction
  <1>6. TraceIsCommitted(r)'
    BY <1>1, <1>2 DEF Effects, TraceIsCommitted, Trace, Ended, InTransaction
  <1> QED  BY <1>4, <1>5, <1>6 DEF Effects

\* Committing: what was pending is stored.
LEMMA CommitOwn ==
    ASSUME IInv, EInv, NEW r \in Reqs, pc[r] = "commit", rows' = Committed(r),
           pc'[r] \in {"committed", "done"}, pending'[r] = Null,
           answer'[r] \in {Null, 500, 504}, pc'[r] # "done" => answer'[r] = Null,
           UNCHANGED <<req, user>>
    PROVE  Effects(r)'
  <1> USE Constants
  <1>1. Effects(r) /\ Target(r) \in Ids /\ rows \in [Ids -> Row \cup {Null}]
    BY DEF EInv, IInv, RequestOK, Target, TypeOK
  <1>2. Op(r)' = Op(r) /\ Target(r)' = Target(r)
    BY DEF Op, Target
  <1>3. ValidAsked(r)' /\ AnswerOK(r)' /\ LoadedOnce(r)' /\ PendingIsEffect(r)'
        /\ NothingToWrite(r)' /\ TraceIsCommitted(r)' /\ LookupHolds(r)'
    BY <1>1, <1>2 DEF Effects, ValidAsked, AnswerOK, LoadedOnce, PendingIsEffect, NothingToWrite,
                      TraceIsCommitted, LookupHolds, Writing, Ended
  <1>4. Stored(r)'
    <2>1. CASE Op(r) \in {"create", "delete"}
      <3>1. pending[r] # Null
        BY <1>1, <2>1 DEF Effects, NothingToWrite, Writing
      <3>2. rows'[Target(r)] = pending[r]
        BY <1>1, <3>1 DEF Committed
      <3>3. CASE Op(r) = "create"
        BY <1>2, <3>1, <3>2, <3>3 DEF Stored, Target
      <3>4. CASE Op(r) = "delete"
        <4>1. rows[Target(r)] \in Row
          BY <3>4, <1>1 DEF IInv, Loaded, InTransaction
        <4>2. pending[r].deleted_at = r
          BY <1>1, <3>1, <3>4, <4>1 DEF Effects, PendingIsEffect, SetColumns, Row
        <4> QED  BY <1>2, <3>1, <3>2, <3>4, <4>2 DEF Stored, IsLive
      <3> QED  BY <2>1, <3>3, <3>4
    <2>2. CASE Op(r) \notin {"create", "delete"}
      BY <1>2, <2>2 DEF Stored
    <2> QED  BY <2>1, <2>2
  <1> QED  BY <1>3, <1>4 DEF Effects

\* A transaction cut short, at its commit or before.
LEMMA CutShortOwn ==
    ASSUME IInv, EInv, NEW r \in Reqs, NEW status \in {500, 504}, pc[r] # "idle",
           CutShort(r, status)
    PROVE  Effects(r)'
  <1> USE Constants
  <1>1. CASE rows' = rows
    BY <1>1, FinishOwn DEF CutShort
  <1>2. CASE pc[r] = "commit" /\ rows' = Committed(r)
    <2>1. pc'[r] = "done" /\ pending'[r] = Null /\ answer'[r] = status
      BY DEF CutShort, Finish, IInv, TypeOK
    <2> QED  BY <1>2, <2>1, CommitOwn DEF CutShort
  <1> QED  BY <1>1, <1>2 DEF CutShort

\* A step of a request keeps what holds of that request.
LEMMA OwnKept ==
    ASSUME IInv, IInv', EInv, NEW r \in Reqs, Acts(r)
    PROVE  Effects(r)'
  <1> USE Constants
  <1>1. Effects(r) /\ (pc[r] # "idle" => req[r] \in ValidRequest)
    BY DEF EInv, Effects, ValidAsked
  <1>2. CASE Arrive(r)
    <2>1. PICK q \in ValidRequest : req' = [req EXCEPT ![r] = q]
      BY <1>2, WorkloadAssumption DEF Arrive
    <2>2. /\ pc[r] = "idle" /\ pc'[r] = "begin" /\ req'[r] = q /\ pending[r] = Null
          /\ UNCHANGED <<rows, user, pending, answer>>
      BY <1>2, <2>1 DEF Arrive, Goto, IInv, TypeOK, PendingOK, Writing
    <2>3. ValidAsked(r)' /\ LoadedOnce(r)' /\ PendingIsEffect(r)' /\ NothingToWrite(r)'
          /\ LookupHolds(r)'
      BY <1>1, <2>2 DEF Effects, ValidAsked, LoadedOnce, PendingIsEffect, NothingToWrite,
                        LookupHolds, Writing
    <2>4. AnswerOK(r)' /\ Stored(r)'
      BY <1>1, <2>2 DEF Effects, AnswerOK, Stored
    <2>5. TraceIsCommitted(r)'
      BY <1>1, <2>2 DEF Effects, TraceIsCommitted, Trace, Ended
    <2> QED  BY <2>3, <2>4, <2>5 DEF Effects
  <1>3. CASE GetUser(r)
    <2>1. CASE GetById(Target(r)) = Null
      BY <1>3, <2>1, FinishOwn DEF GetUser, Ended
    <2>2. CASE GetById(Target(r)) # Null
      <3>1. /\ pc[r] = "begin" /\ Op(r) \in {"get", "update", "delete"} /\ pending[r] = Null
        BY SMTT(30), <1>3 DEF GetUser, Request, Op, IInv, TypeOK, PendingOK, Writing
      <3>2. Goto(r, CASE Op(r) = "get" -> "commit"
                      [] Op(r) = "update" -> "precheck"
                      [] Op(r) = "delete" -> "flush")
            /\ UNCHANGED <<rows, req, pending>>
        BY <1>3, <2>2, Zenon DEF GetUser
      <3>3. PICK label \in {"precheck", "flush", "commit"} :
                /\ Goto(r, label)
                /\ label = "commit" => Op(r) = "get"
                /\ label = "precheck" => Op(r) = "update"
                /\ label = "flush" => Op(r) = "delete"
        <4>1. CASE Op(r) = "get"
          BY <3>2, <4>1
        <4>2. CASE Op(r) = "update"
          BY <3>2, <4>2
        <4>3. CASE Op(r) = "delete"
          BY <3>2, <4>3
        <4> QED  BY <3>1, <4>1, <4>2, <4>3
      <3>4. pc'[r] = label /\ pending'[r] = Null /\ Op(r)' = Op(r)
        BY <3>1, <3>2, <3>3 DEF Goto, IInv, TypeOK, Op
      <3>5. PendingIsEffect(r)' /\ NothingToWrite(r)'
        BY <3>3, <3>4 DEF PendingIsEffect, NothingToWrite, Writing
      <3>6. Op(r) = "delete" => req[r].email = Null
        BY <1>1, <3>1, Fields DEF Op
      <3>7. LookupHolds(r)'
        BY <3>2, <3>3, <3>4, <3>6 DEF LookupHolds
      <3> QED  BY <3>1, <3>2, <3>3, <3>5, <3>7, GotoOwn DEF InTransaction
    <2> QED  BY <2>1, <2>2
  <1>4. CASE PrecheckCreate(r)
    <2>1. CASE GetByEmail(req[r].email) # {}
      BY <1>4, <2>1, FinishOwn DEF PrecheckCreate, Ended
    <2>2. CASE GetByEmail(req[r].email) = {}
      <3>1. Goto(r, "flush") /\ UNCHANGED <<rows, req, user, pending>> /\ pc[r] = "begin"
            /\ pending[r] = Null
        BY <1>4, <2>2 DEF PrecheckCreate, IInv, PendingOK, Writing
      <3>2. pc'[r] = "flush"
        BY <3>1 DEF Goto, IInv, TypeOK
      <3>3. PendingIsEffect(r)' /\ NothingToWrite(r)'
        BY <3>1, <3>2 DEF PendingIsEffect, NothingToWrite, Writing
      <3>4. LookupHolds(r)'
        BY <2>2, <3>1 DEF LookupHolds, GetByEmail, IsLive
      <3> QED  BY <3>1, <3>3, <3>4, GotoOwn DEF InTransaction
    <2> QED  BY <2>1, <2>2
  <1>5. CASE PrecheckUpdate(r)
    <2>1. CASE AddressTaken(r)
      BY <1>5, <2>1, FinishOwn DEF PrecheckUpdate, Ended
    <2>2. CASE ~AddressTaken(r)
      <3>1. Goto(r, "flush") /\ UNCHANGED <<rows, req, user, pending>> /\ pc[r] = "precheck"
            /\ pending[r] = Null /\ Op(r) = "update"
        BY <1>1, <1>5, <2>2 DEF PrecheckUpdate, IInv, PendingOK, Writing, Effects, ValidAsked
      <3>2. pc'[r] = "flush" /\ Op(r)' = Op(r)
        BY <3>1 DEF Goto, IInv, TypeOK, Op
      <3>3. PendingIsEffect(r)' /\ NothingToWrite(r)'
        BY <3>1, <3>2 DEF PendingIsEffect, NothingToWrite, Writing
      <3>4. LookupHolds(r)'
        BY <2>2, <3>1, <3>2 DEF LookupHolds, GetByEmail, IsLive, AddressTaken, Target
      <3> QED  BY <3>1, <3>3, <3>4, GotoOwn DEF InTransaction
    <2> QED  BY <2>1, <2>2
  <1>6. CASE Flush(r)
    <2>1. /\ pc[r] = "flush" /\ UNCHANGED <<rows, req, user>> /\ pending[r] = Null
          /\ pending \in [Reqs -> Row \cup {Null}]
          /\ Op(r) \in {"create", "get", "update", "delete"}
          /\ Op(r)' = Op(r) /\ Target(r)' = Target(r)
      BY <1>1, <1>6, Fields DEF Flush, IInv, PendingOK, Writing, TypeOK, Op, Target
    <2>2. LookupHolds(r) /\ (Op(r) = "get" => ~Dirty(r))
      BY <1>1, <2>1, Fields DEF Effects, Dirty, Op
    <2>3. CASE Op(r) # "create" /\ ~Dirty(r)
      <3>1. Goto(r, "refresh") /\ UNCHANGED pending
        BY <1>6, <2>3 DEF Flush
      <3>2. pc'[r] = "refresh" /\ pending'[r] = Null /\ Dirty(r)' = Dirty(r)
        BY <2>1, <3>1 DEF Goto, IInv, TypeOK, Dirty
      <3>3. PendingIsEffect(r)' /\ LookupHolds(r)'
        BY <3>2 DEF PendingIsEffect, LookupHolds
      <3>4. NothingToWrite(r)'
        BY <2>1, <2>3, <3>2 DEF NothingToWrite, Dirty
      <3> QED  BY <2>1, <3>1, <3>3, <3>4, GotoOwn DEF InTransaction
    <2>4. CASE Op(r) = "create" \/ Dirty(r)
      <3>1. Goto(r, "index")
            /\ pending'[r] = IF Op(r) = "create" THEN NewRow(r) ELSE SetColumns(r, rows[Target(r)])
        BY <1>6, <2>1, <2>4 DEF Flush
      <3>2. NewRow(r)' = NewRow(r)
            /\ SetColumns(r, rows[Target(r)])' = SetColumns(r, rows[Target(r)])
        BY <2>1 DEF NewRow, SetColumns, Assigned
      <3>3. PendingIsEffect(r)'
        BY <2>1, <2>2, <2>4, <3>1, <3>2 DEF PendingIsEffect
      <3>4. pc'[r] = "index" /\ pending'[r] # Null
        BY <3>1 DEF Goto, IInv, TypeOK, PendingOK
      <3>5. NothingToWrite(r)'
        BY <3>4 DEF NothingToWrite
      <3>6. LookupHolds(r)'
        <4> SUFFICES ASSUME req[r].email # Null,
                            Op(r) = "update" => req[r].email # user[r].email,
                            NEW i \in GetByEmail(req[r].email) \ {Target(r)}
                     PROVE  \E c \in Reqs : Ended(c)' /\ Target(c)' = i /\ req'[c].email = req[r].email
          BY <2>1 DEF LookupHolds, GetByEmail, IsLive
        <4>1. PICK c \in Reqs : Ended(c) /\ Target(c) = i /\ req[c].email = req[r].email
          BY <2>1, <2>2 DEF LookupHolds
        <4>2. pc'[c] = pc[c] /\ Target(c)' = Target(c) /\ req'[c] = req[c]
          BY <2>1, <3>1, <4>1 DEF Goto, Ended, IInv, TypeOK, Target, Op
        <4> QED  BY <4>1, <4>2 DEF Ended
      <3> QED  BY <2>1, <3>1, <3>3, <3>5, <3>6, GotoOwn DEF InTransaction
    <2> QED  BY <2>3, <2>4
  <1>7. CASE EnterIndex(r)
    <2>1. CASE Conflicts(r) # {}
      BY <1>7, <2>1, FinishOwn DEF EnterIndex, IntegrityStatus, Ended
    <2>2. CASE Conflicts(r) = {}
      <3>1. PICK label \in {"commit", "refresh"} : Goto(r, label)
        BY <1>7, <2>2 DEF EnterIndex
      <3>2. pc[r] = "index" /\ UNCHANGED <<rows, req, user, pending>> /\ pending[r] # Null
        BY <1>7, <2>2 DEF EnterIndex, IInv, PendingOK
      <3>3. pc'[r] = label
        BY <3>1 DEF Goto, IInv, TypeOK
      <3>4. PendingIsEffect(r)'
        BY <1>1, <3>2 DEF Effects, PendingIsEffect, NewRow, SetColumns, Assigned, Op, Target
      <3>5. NothingToWrite(r)' /\ LookupHolds(r)'
        BY <3>2, <3>3 DEF NothingToWrite, LookupHolds
      <3> QED  BY <3>1, <3>2, <3>4, <3>5, GotoOwn DEF InTransaction
    <2> QED  BY <2>1, <2>2
  <1>8. CASE Refresh(r)
    <2>1. pc[r] = "refresh" /\ UNCHANGED <<rows, req, user, pending>> /\ Goto(r, "commit")
      BY <1>8 DEF Refresh
    <2>2. pc'[r] = "commit"
      BY <2>1 DEF Goto, IInv, TypeOK
    <2>3. PendingIsEffect(r)'
      BY <1>1, <2>1 DEF Effects, PendingIsEffect, NewRow, SetColumns, Assigned, Op, Target
    <2>4. NothingToWrite(r)' /\ LookupHolds(r)'
      BY <1>1, <2>1, <2>2 DEF Effects, NothingToWrite, LookupHolds, Writing, Dirty, Op
    <2> QED  BY <2>1, <2>3, <2>4, GotoOwn DEF InTransaction
  <1>9. CASE Commit(r)
    <2>1. pc[r] = "commit" /\ answer[r] = Null
      BY <1>1, <1>9 DEF Commit, Effects, AnswerOK
    <2>2. pc'[r] = "committed" /\ pending'[r] = Null /\ answer'[r] = Null
      BY <1>9, <2>1 DEF Commit, Goto, IInv, TypeOK
    <2> QED  BY <1>9, <2>1, <2>2, CommitOwn DEF Commit
  <1>10. CASE Respond(r)
    <2>1. Op(r) \in {"create", "get", "update", "delete"} /\ pc[r] = "committed"
      BY <1>1, <1>10, Fields DEF Respond, Op
    <2>2. /\ Success(Op(r)) \in {200, 201, 204}
          /\ Success(Op(r)) = 201 => Op(r) = "create"
          /\ Success(Op(r)) = 204 => Op(r) = "delete"
      BY <2>1 DEF Success
    <2> QED  BY <1>10, <2>1, <2>2, FinishOwn DEF Respond
  <1>11. CASE DeadlockVictim(r)
    <2>1. pc[r] = "index"
      BY <1>11 DEF DeadlockVictim, InDeadlock
    <2> QED  BY <1>11, <2>1, FinishOwn DEF DeadlockVictim
  <1>12. CASE DbError(r)
    BY <1>12, CutShortOwn DEF DbError, InTransaction
  <1>13. CASE Timeout(r)
    BY <1>13, CutShortOwn DEF Timeout, InTransaction
  <1> QED  BY <1>2, <1>3, <1>4, <1>5, <1>6, <1>7, <1>8, <1>9, <1>10, <1>11, <1>12, <1>13
           DEF Acts, Serve

\* Nothing has been asked, loaded or written at the start.
LEMMA InitEffects == Init => EInv
  <1> SUFFICES ASSUME Init, NEW r \in Reqs PROVE Effects(r)
    BY DEF EInv
  <1> USE Constants
  <1>1. /\ pc[r] = "idle" /\ pending[r] = Null /\ rows[r] = Null /\ user[r] = Null
        /\ answer[r] = Null
    BY DEF Init
  <1>2. \A i \in Ids : rows[i] # Null => rows[i].deleted_at # r
    BY UserAssumption DEF Init
  <1>3. ~Trace(r)
    BY <1>1, <1>2 DEF Trace
  <1> QED  BY <1>1, <1>3 DEF Effects, ValidAsked, AnswerOK, LoadedOnce, PendingIsEffect,
              NothingToWrite, Stored, TraceIsCommitted, LookupHolds, Writing

\* A step keeps what holds of its own request and of the others.
LEMMA NextEffects == IInv /\ IInv' /\ EInv /\ [Next]_vars => EInv'
  <1> SUFFICES ASSUME IInv, IInv', EInv, [Next]_vars PROVE EInv'
    OBVIOUS
  <1>1. ASSUME NEW r \in Reqs, Acts(r), NEW s \in Reqs PROVE Effects(s)'
    <2>1. CASE s = r
      BY <1>1, <2>1, OwnKept
    <2>2. CASE s # r
      BY <1>1, <2>2, StepFrame, OthersKept
    <2> QED  BY <2>1, <2>2
  <1>2. CASE UNCHANGED vars
    <2> SUFFICES ASSUME NEW r \in Reqs PROVE Effects(r)'
      BY DEF EInv
    <2>1. Effects(r)
      BY DEF EInv
    <2>2. /\ pc' = pc /\ req' = req /\ user' = user /\ pending' = pending
          /\ answer' = answer /\ rows' = rows
      BY <1>2 DEF vars
    <2>3. ValidAsked(r)' /\ AnswerOK(r)' /\ LoadedOnce(r)' /\ Stored(r)'
      BY <2>1, <2>2 DEF Effects, ValidAsked, AnswerOK, LoadedOnce, Stored, Op, Target, IsLive
    <2>4. PendingIsEffect(r)' /\ NothingToWrite(r)'
      BY <2>1, <2>2 DEF Effects, PendingIsEffect, NothingToWrite, Op, Target, NewRow,
                        SetColumns, Assigned, Dirty, Writing
    <2>5. TraceIsCommitted(r)' /\ LookupHolds(r)'
      BY <2>1, <2>2 DEF Effects, TraceIsCommitted, LookupHolds, Trace, Ended, Op, Target,
                        IsLive, GetByEmail
    <2> QED  BY <2>3, <2>4, <2>5 DEF Effects
  <1> QED  BY <1>1, <1>2 DEF Next, AllAnswered, Acts, EInv

\* What every request has left behind so far, in every reachable state.
THEOREM EffectInvariant == Spec => []EInv
  BY Invariant, InitEffects, NextEffects, PTL DEF Spec

\* A success the client has seen is in the table, for any number of requests:
\* get_session commits before the response, and nobody takes it away again.
THEOREM SuccessIsStored == Spec => []AcknowledgedIsStored
  <1>1. IInv /\ EInv => AcknowledgedIsStored
    <2> SUFFICES ASSUME IInv, EInv, NEW r \in Reqs
                 PROVE  /\ answer[r] = 201 => rows[r] # Null
                        /\ answer[r] = 204 => rows[Target(r)].deleted_at # Null
      BY DEF AcknowledgedIsStored
    <2> QED  BY DEF EInv, Effects, AnswerOK, Stored, IsLive
  <1> QED  BY Invariant, EffectInvariant, <1>1, PTL

\* A request refused with 404 or 409 has left no row, no tombstone of its own
\* and no pending version that would keep a lock.
THEOREM RefusalIsTraceless == Spec => []RefusedLeavesNoTrace
  <1>1. IInv /\ EInv => RefusedLeavesNoTrace
    <2> SUFFICES ASSUME IInv, EInv, NEW r \in Reqs, answer[r] \in {404, 409}
                 PROVE  /\ rows[r] = Null /\ pending[r] = Null
                        /\ \A i \in Ids : rows[i] # Null => rows[i].deleted_at # r
      BY DEF RefusedLeavesNoTrace
    <2>1. ~Trace(r)
      BY DEF EInv, Effects, TraceIsCommitted
    <2>2. pc[r] = "done"
      BY Constants DEF EInv, Effects, AnswerOK
    <2> QED  BY <2>1, <2>2 DEF Trace, IInv, PendingOK, Writing
  <1> QED  BY Invariant, EffectInvariant, <1>1, PTL

-----------------------------------------------------------------------------
\* A version in conflict asks for an address it did not have: the columns it
\* kept are those of its own row, whose address nobody shares.
LEMMA ConflictIsAsked ==
    ASSUME IInv, EInv, NEW r \in Reqs, pc[r] = "index", NEW i \in Conflicts(r)
    PROVE  /\ i \in GetByEmail(req[r].email) \ {Target(r)}
           /\ req[r].email # Null
           /\ Op(r) = "update" => req[r].email # user[r].email
  <1> USE Constants
  <1>1. /\ i \in Ids /\ i # Target(r) /\ Target(r) \in Ids
        /\ IsLive(pending[r]) /\ IsLive(rows[i]) /\ Key(rows[i]) = Key(pending[r])
    BY DEF Conflicts, IInv, RequestOK, Target
  <1>2. req[r] \in ValidRequest /\ PendingIsEffect(r) /\ pending[r] # Null
    BY DEF EInv, Effects, ValidAsked, IInv, PendingOK
  <1>3. CASE Op(r) = "create"
    <2>1. pending[r].email = req[r].email /\ req[r].email # Null
      BY <1>2, <1>3, Fields DEF PendingIsEffect, NewRow, Op
    <2> QED  BY <1>1, <1>3, <2>1 DEF GetByEmail, Key
  <1>4. CASE Op(r) # "create"
    <2>1. rows[Target(r)] # Null /\ rows[Target(r)] \in Row
      BY <1>1, <1>4 DEF IInv, Loaded, InTransaction, TypeOK
    <2>2. Op(r) # "delete" /\ pending[r] = SetColumns(r, rows[Target(r)])
      <3>1. pending[r] = SetColumns(r, rows[Target(r)])
        BY <1>2, <1>4 DEF PendingIsEffect
      <3> QED  BY <1>1, <2>1, <3>1 DEF SetColumns, IsLive, Row
    <2>3. Op(r) = "update"
      BY <1>2, <1>4, <2>2, Fields DEF PendingIsEffect, Op
    <2>4. /\ pending[r].deleted_at = rows[Target(r)].deleted_at
          /\ pending[r].email = IF req[r].email \in {Null, user[r].email}
                                THEN rows[Target(r)].email ELSE req[r].email
      BY <2>2 DEF SetColumns, Assigned
    <2>5. IsLive(rows[Target(r)])
      BY <1>1, <2>1, <2>4 DEF IsLive
    <2>6. Key(pending[r]) # Key(rows[Target(r)])
      BY <1>1, <2>5 DEF IInv, LiveEmailsUnique, UniqueKeys
    <2>7. req[r].email \notin {Null, user[r].email} /\ pending[r].email = req[r].email
      BY <2>4, <2>6 DEF Key
    <2> QED  BY <1>1, <2>7 DEF GetByEmail, Key
  <1> QED  BY <1>3, <1>4

\* A cycle of waits takes four requests: two that wait, and for each of them
\* one that has committed, since the lookup, the address it asks for.
LEMMA DeadlockNeedsFour ==
    ASSUME IInv, EInv, NEW r \in Reqs, InDeadlock(r)
    PROVE  LostInDeadlock(r)
  <1>1. PICK S \in SUBSET {s \in Reqs : pc[s] = "index"} :
            r \in S /\ \A s \in S : (\E t \in S : Blocks(t, s)) /\ (\E t \in S : Blocks(s, t))
    BY DEF InDeadlock
  <1>2. PICK t \in S : Blocks(t, r)
    BY <1>1
  <1>3. PICK u \in S : Blocks(u, t)
    BY <1>1
  <1>4. /\ r \in Reqs /\ t \in Reqs /\ u \in Reqs
        /\ pc[r] = "index" /\ pc[t] = "index" /\ pc[u] = "index" /\ t # r
    BY <1>1, <1>2 DEF Blocks
  <1>5. Target(t) \in Conflicts(r) /\ Target(u) \in Conflicts(t)
    BY <1>2, <1>3, <1>4 DEF Blocks, Indexed
  <1>6. Target(u) # Target(t)
    BY <1>5 DEF Conflicts
  <1>7. ASSUME NEW s \in Reqs, pc[s] = "index", NEW i \in Conflicts(s)
        PROVE  \E c \in Reqs : Ended(c) /\ Target(c) = i /\ req[c].email = req[s].email
    BY <1>7, ConflictIsAsked DEF EInv, Effects, LookupHolds
  <1>8. PICK c \in Reqs : Ended(c) /\ Target(c) = Target(t) /\ req[c].email = req[r].email
    BY <1>4, <1>5, <1>7
  <1>9. PICK d \in Reqs : Ended(d) /\ Target(d) = Target(u) /\ req[d].email = req[t].email
    BY <1>4, <1>5, <1>7
  <1>10. t \in Reqs \ {r} /\ c \in Reqs \ {r} /\ d \in Reqs \ {r} /\ t # c /\ t # d /\ c # d
    BY <1>4, <1>6, <1>8, <1>9 DEF Ended
  <1> QED  BY <1>4, <1>6, <1>8, <1>9, <1>10 DEF Ended, LostInDeadlock

\* A request that has arrived stays so.
LEMMA NeverIdleAgain ==
    ASSUME IInv, NEW r \in Reqs, Acts(r)
    PROVE  pc'[r] # "idle"
  <1> USE DEF IInv, TypeOK
  <1>1. CASE GetUser(r)
    <2>1. CASE GetById(Target(r)) = Null
      BY <1>1, <2>1 DEF GetUser, Finish
    <2>2. CASE GetById(Target(r)) # Null
      <3>1. Op(r) \in {"get", "update", "delete"}
        BY <1>1 DEF GetUser, Request, Op
      <3>2. \E label \in {"precheck", "flush", "commit"} : Goto(r, label)
        BY <1>1, <2>2, <3>1 DEF GetUser
      <3> QED  BY <3>2 DEF Goto
    <2> QED  BY <2>1, <2>2
  <1>2. CASE ~GetUser(r)
    BY <1>2 DEF Acts, Arrive, Serve, PrecheckCreate, PrecheckUpdate, Flush, EnterIndex, Refresh,
                Commit, Respond, DeadlockVictim, DbError, Timeout, CutShort, Goto, Finish
  <1> QED  BY <1>1, <1>2

\* Without database errors, only a deadlock is answered 500.
LEMMA OthersAnswerOtherwise ==
    ASSUME IInv, NEW r \in Reqs, Acts(r), "db_error" \notin Faults,
           answer[r] # 500, answer'[r] = 500
    PROVE  DeadlockVictim(r)
  <1>1. ASSUME NEW status, status # 500, Finish(r, status) PROVE FALSE
    BY <1>1 DEF Finish, IInv, TypeOK
  <1>2. ASSUME UNCHANGED answer PROVE FALSE
    BY <1>2
  <1>3. CASE Arrive(r) \/ Flush(r) \/ Refresh(r) \/ Commit(r)
    BY <1>2, <1>3 DEF Arrive, Flush, Refresh, Commit, Goto
  <1>4. CASE GetUser(r)
    <2>1. CASE GetById(Target(r)) = Null
      BY <1>1, <1>4, <2>1 DEF GetUser
    <2>2. CASE GetById(Target(r)) # Null
      <3>1. UNCHANGED answer
        BY Zenon, <1>4, <2>2 DEF GetUser, Goto
      <3> QED  BY <1>2, <3>1
    <2> QED  BY <2>1, <2>2
  <1>5. CASE PrecheckCreate(r) \/ PrecheckUpdate(r)
    <2>1. Finish(r, 409) \/ UNCHANGED answer
      BY <1>5 DEF PrecheckCreate, PrecheckUpdate, Goto
    <2> QED  BY <1>1, <1>2, <2>1
  <1>6. CASE EnterIndex(r)
    <2>1. Finish(r, 409) \/ UNCHANGED answer
      BY <1>6 DEF EnterIndex, Goto, IntegrityStatus
    <2> QED  BY <1>1, <1>2, <2>1
  <1>7. CASE Respond(r)
    <2>1. Op(r) \in {"create", "get", "update", "delete"}
      BY DEF IInv, TypeOK, Request, Op
    <2>2. Success(Op(r)) # 500
      BY <2>1 DEF Success
    <2> QED  BY <1>1, <1>7, <2>2 DEF Respond
  <1>8. CASE Timeout(r)
    BY <1>1, <1>8 DEF Timeout, CutShort
  <1>9. ~DbError(r)
    BY DEF DbError
  <1> QED  BY <1>3, <1>4, <1>5, <1>6, <1>7, <1>8, <1>9 DEF Acts, Serve

\* Once lost, for good: the four have what they asked for.
LEMMA LostForGood ==
    ASSUME IInv, NEW r \in Reqs, pc[r] # "idle", LostInDeadlock(r), [Next]_vars
    PROVE  LostInDeadlock(r)'
  <1>1. PICK t \in Reqs \ {r}, c \in Reqs \ {r}, d \in Reqs \ {r} :
            /\ t # c /\ t # d /\ c # d
            /\ req[c].email = req[r].email /\ Target(c) = Target(t)
            /\ req[d].email = req[t].email /\ Target(d) # Target(t)
            /\ {pc[c], pc[d]} \subseteq {"committed", "done"} /\ pc[t] # "idle"
    BY DEF LostInDeadlock
  <1>2. ASSUME NEW s \in Reqs, pc[s] # "idle"
        PROVE  /\ req'[s] = req[s] /\ pc'[s] # "idle"
               /\ pc[s] \in {"committed", "done"} => pc'[s] \in {"committed", "done"}
    <2>1. ASSUME NEW q \in Reqs, Acts(q)
          PROVE  /\ req'[s] = req[s] /\ pc'[s] # "idle"
                 /\ pc[s] \in {"committed", "done"} => pc'[s] \in {"committed", "done"}
      <3>1. Frame(q) /\ StaysEnded(q)
        BY <2>1, StepFrame
      <3>2. pc'[q] # "idle"
        BY <2>1, NeverIdleAgain
      <3> QED  BY <1>2, <3>1, <3>2 DEF Frame, StaysEnded, Ended
    <2>2. CASE UNCHANGED vars
      BY <1>2, <2>2 DEF vars
    <2> QED  BY <2>1, <2>2 DEF Next, AllAnswered, Acts
  <1>3. /\ req'[r] = req[r] /\ req'[t] = req[t] /\ req'[c] = req[c] /\ req'[d] = req[d]
        /\ {pc'[c], pc'[d]} \subseteq {"committed", "done"} /\ pc'[t] # "idle"
    BY <1>1, <1>2
  <1>4. Target(c)' = Target(t)' /\ Target(d)' # Target(t)'
    BY <1>1, <1>3 DEF Target, Op
  <1> QED  BY <1>1, <1>3, <1>4 DEF LostInDeadlock

\* Where the database does not fail, a 500 is told only to a duplicate that
\* PostgreSQL made the victim of a deadlock in the email index, and that takes
\* four requests, two of which have ended: no conflict of the index reaches
\* a client as a server error (_is_email_uniqueness_violation).
THEOREM OnlyDeadlocksAreServerErrors == Spec => []ServerErrorsAreDeadlocks
  <1>1. Init => ServerErrorsAreDeadlocks
    BY Constants DEF Init, ServerErrorsAreDeadlocks
  <1>2. IInv /\ EInv /\ ServerErrorsAreDeadlocks /\ [Next]_vars => ServerErrorsAreDeadlocks'
    <2> SUFFICES ASSUME IInv, EInv, ServerErrorsAreDeadlocks, [Next]_vars, "db_error" \notin Faults,
                        NEW r \in Reqs, answer'[r] = 500
                 PROVE  LostInDeadlock(r)'
      BY DEF ServerErrorsAreDeadlocks
    <2>1. CASE answer[r] = 500
      <3>1. LostInDeadlock(r) /\ pc[r] # "idle"
        BY <2>1, Constants DEF ServerErrorsAreDeadlocks, EInv, Effects, AnswerOK
      <3> QED  BY <3>1, LostForGood
    <2>2. CASE answer[r] # 500
      <3>1. PICK q \in Reqs : Acts(q) /\ answer'[r] # answer[r]
        BY <2>2 DEF Next, AllAnswered, Acts, vars
      <3>2. q = r
        BY <3>1, StepFrame DEF Frame
      <3>3. DeadlockVictim(r)
        BY <2>2, <3>1, <3>2, OthersAnswerOtherwise
      <3>4. LostInDeadlock(r) /\ pc[r] # "idle"
        BY <3>3, DeadlockNeedsFour DEF DeadlockVictim, InDeadlock
      <3> QED  BY <3>4, LostForGood
    <2> QED  BY <2>1, <2>2
  <1> QED  BY Invariant, EffectInvariant, <1>1, <1>2, PTL DEF Spec

-----------------------------------------------------------------------------
\* The abstract variables, where the detailed ones do not change.
LEMMA MappedSame ==
    /\ UNCHANGED rows => UNCHANGED LiveUsers /\ UNCHANGED {i \in Ids : rows[i] # Null}
    /\ UNCHANGED user => UNCHANGED SeenUsers
    /\ UNCHANGED pc => UNCHANGED Stage
  <1>1. UNCHANGED rows => UNCHANGED LiveUsers /\ UNCHANGED {i \in Ids : rows[i] # Null}
    BY DEF LiveUsers, IsLive
  <1>2. UNCHANGED user => UNCHANGED SeenUsers
    BY DEF SeenUsers
  <1>3. UNCHANGED pc => UNCHANGED Stage
    BY DEF Stage
  <1> QED  BY <1>1, <1>2, <1>3

\* The stage of the registry that a label stands for.
StageOf(label) ==
    IF label = "idle" THEN "idle"
    ELSE IF label = "committed" THEN "applied"
    ELSE IF label = "done" THEN "answered" ELSE "open"

LEMMA StageMoves ==
    ASSUME IInv, NEW r \in Reqs, NEW label, pc' = [pc EXCEPT ![r] = label]
    PROVE  Stage' = [Stage EXCEPT ![r] = StageOf(label)]
  BY DEF Stage, StageOf, IInv, TypeOK

\* The table of the seeds is a registry.
LEMMA InitRefines == Init => Registry!RInit
  <1> SUFFICES ASSUME Init PROVE Registry!RInit
    OBVIOUS
  <1> USE Constants
  <1>1. LiveUsers \in [Ids -> [email : Emails, profile : Profiles] \cup {Null}]
    BY UserAssumption DEF Init, LiveUsers, IsLive, Row
  <1>2. {i \in Ids : rows[i] # Null} \in SUBSET Seeds
    BY DEF Init, Ids
  <1>3. \A i \in Ids : LiveUsers[i] # Null => i \in {j \in Ids : rows[j] # Null}
    BY DEF LiveUsers, IsLive
  <1>4. Stage = [r \in Reqs |-> "idle"] /\ SeenUsers = [r \in Reqs |-> Null]
    BY DEF Init, Stage, SeenUsers
  <1>5. answer = [r \in Reqs |-> Null]
    BY DEF Init
  <1> QED  BY <1>1, <1>2, <1>3, <1>4, <1>5 DEF Registry!RInit, Registry!Ids, Registry!UserData, Ids

\* A step inside the session shows nothing to the registry.
LEMMA InnerStep ==
    ASSUME IInv, NEW r \in Reqs, NEW label \in InTransaction,
           pc[r] \in InTransaction \cup {"begin"}, Goto(r, label), UNCHANGED <<rows, req, user>>
    PROVE  UNCHANGED Registry!rvars
  <1>1. Stage' = Stage
    BY DEF Stage, Goto, IInv, TypeOK, InTransaction
  <1> QED  BY <1>1, MappedSame DEF Goto, Registry!rvars

\* Each kind of step, and the step of the registry it stands for.
LEMMA ArriveAsks ==
    ASSUME IInv, NEW r \in Reqs, Arrive(r)
    PROVE  Registry!Ask(r)
  <1>1. PICK q \in ValidRequest : req' = [req EXCEPT ![r] = q]
    BY WorkloadAssumption DEF Arrive
  <1>2. q \in Request
    BY Fields
  <1>3. q = [op |-> q.op, id |-> q.id, email |-> q.email, profile |-> q.profile]
        /\ q.op \in {"create", "get", "update", "delete"} /\ q.id \in Ids \cup {Null}
        /\ q.email \in Emails \cup {Null} /\ q.profile \in Profiles \cup {Null}
    BY <1>2 DEF Request
  <1>4. Stage[r] = "idle" /\ Stage' = [Stage EXCEPT ![r] = "open"]
    <2>1. Stage[r] = "idle" /\ pc' = [pc EXCEPT ![r] = "begin"]
      BY DEF Arrive, Goto, Stage
    <2>2. Stage' = [Stage EXCEPT ![r] = StageOf("begin")]
      BY <2>1, StageMoves
    <2> QED  BY <2>1, <2>2 DEF StageOf
  <1>5. UNCHANGED <<rows, user, answer>>
    BY DEF Arrive, Goto
  <1> QED  BY <1>1, <1>3, <1>4, <1>5, MappedSame DEF Registry!Ask, Registry!Move, Registry!Ids, Ids

LEMMA EndReplies ==
    ASSUME IInv, NEW r \in Reqs, NEW status, Finish(r, status)
    PROVE  Registry!Reply(r, status)
  <1>1. Stage' = [Stage EXCEPT ![r] = StageOf("done")]
    BY StageMoves DEF Finish
  <1> QED  BY <1>1 DEF Finish, StageOf, Registry!Reply, Registry!Move

LEMMA GetUserRefines ==
    ASSUME IInv, EInv, NEW r \in Reqs, GetUser(r)
    PROVE  Registry!LookUp(r) \/ Registry!RefuseAbsent(r)
  <1> USE Constants
  <1>1. /\ Target(r) \in Ids /\ Target(r) = req[r].id /\ Op(r) # "create" /\ pc[r] = "begin"
        /\ user[r] = Null /\ Op(r) \in {"get", "update", "delete"}
        /\ UNCHANGED <<rows, req>> /\ req[r].op = Op(r)
    BY DEF GetUser, IInv, RequestOK, Target, EInv, Effects, LoadedOnce, TypeOK, Request, Op
  <1>2. Stage[r] = "open" /\ SeenUsers[r] = Null
    BY <1>1 DEF Stage, SeenUsers
  <1>3. CASE GetById(Target(r)) = Null
    <2>1. Finish(r, 404) /\ UNCHANGED user
      BY <1>3 DEF GetUser
    <2>2. LiveUsers[req[r].id] = Null
      BY <1>1, <1>3 DEF LiveUsers, GetById, IsLive
    <2> QED  BY <1>1, <1>2, <2>1, <2>2, EndReplies, MappedSame DEF Registry!RefuseAbsent
  <1>4. CASE GetById(Target(r)) # Null
    <2>1. IsLive(rows[Target(r)]) /\ rows[Target(r)] # Null
      BY <1>4 DEF GetById, IsLive
    <2>2. user' = [user EXCEPT ![r] = rows[Target(r)]]
          /\ \E label \in {"precheck", "flush", "commit"} : Goto(r, label)
      <3>1. user' = [user EXCEPT ![r] = rows[Target(r)]]
        BY Zenon, <1>4, <2>1 DEF GetUser, GetById
      <3>2. \E label \in {"precheck", "flush", "commit"} : Goto(r, label)
        BY <1>1, <1>4 DEF GetUser
      <3> QED  BY <3>1, <3>2
    <2>3. UNCHANGED Stage /\ UNCHANGED answer
      BY <1>1, <2>2 DEF Goto, Stage, IInv, TypeOK
    <2>4. SeenUsers' = [SeenUsers EXCEPT ![r] = LiveUsers[req[r].id]]
      <3>1. LiveUsers[req[r].id] = [email |-> rows[Target(r)].email, profile |-> rows[Target(r)].profile]
        BY <1>1, <2>1 DEF LiveUsers
      <3>2. user \in [Reqs -> Row \cup {Null}]
        BY DEF IInv, TypeOK
      <3> QED  BY <2>1, <2>2, <3>1, <3>2 DEF SeenUsers
    <2>5. LiveUsers[req[r].id] # Null
      <3>1. rows[Target(r)] \in Row
        BY <1>1, <2>1 DEF IInv, TypeOK
      <3>2. [email |-> rows[Target(r)].email, profile |-> rows[Target(r)].profile] # Null
        BY <3>1, RegistryAssumption DEF Registry!UserData, Row
      <3> QED  BY <1>1, <2>1, <3>1, <3>2 DEF LiveUsers
    <2> QED  BY <1>1, <1>2, <2>3, <2>4, <2>5, MappedSame DEF Registry!LookUp
  <1> QED  BY <1>3, <1>4

\* An address that a lookup or the index found on another live user is
\* registered.
LEMMA TakenIsRegistered ==
    ASSUME IInv, NEW r \in Reqs, pc[r] # "idle", NEW e, NEW i \in GetByEmail(e) \ {Target(r)}
    PROVE  Registry!Registered(e, r)
  <1>1. i \in Ids /\ IsLive(rows[i]) /\ Lower[rows[i].email] = Lower[e] /\ i # Registry!Subject(r)
    BY DEF GetByEmail, Registry!Subject, Target, Op
  <1>2. LiveUsers[i] = [email |-> rows[i].email, profile |-> rows[i].profile]
    BY <1>1 DEF LiveUsers
  <1>3. rows[i] \in Row
    BY <1>1 DEF IInv, TypeOK, IsLive
  <1>4. LiveUsers[i] # Null
    BY <1>2, <1>3, RegistryAssumption DEF Registry!UserData, Row
  <1> QED  BY <1>1, <1>2, <1>4 DEF Registry!Registered, Registry!SameAddress, Registry!Ids, Ids

\* A 409 is true when it is given.
LEMMA DuplicateRefines ==
    ASSUME IInv, EInv, NEW r \in Reqs, pc[r] \in {"begin", "precheck", "index"}, Finish(r, 409),
           UNCHANGED <<rows, req, user>>,
           req[r].email # Null, NEW i \in GetByEmail(req[r].email) \ {Target(r)}
    PROVE  Registry!RefuseDuplicate(r)
  <1>1. Stage[r] = "open"
    BY DEF Stage
  <1>2. Registry!Registered(req[r].email, r)
    BY TakenIsRegistered
  <1> QED  BY <1>1, <1>2, EndReplies, MappedSame DEF Registry!RefuseDuplicate

LEMMA PrechecksRefine ==
    ASSUME IInv, EInv, NEW r \in Reqs, PrecheckCreate(r) \/ PrecheckUpdate(r)
    PROVE  Registry!RefuseDuplicate(r) \/ UNCHANGED Registry!rvars
  <1> USE Constants
  <1>1. CASE Goto(r, "flush")
    BY <1>1, InnerStep DEF PrecheckCreate, PrecheckUpdate, InTransaction
  <1>2. CASE PrecheckCreate(r) /\ GetByEmail(req[r].email) # {}
    <2>1. PICK i \in Ids : i \in GetByEmail(req[r].email) /\ IsLive(rows[i])
      BY <1>2 DEF GetByEmail
    <2>2. pc[r] = "begin" /\ Op(r) = "create" /\ Finish(r, 409) /\ UNCHANGED <<rows, req, user>>
      BY <1>2 DEF PrecheckCreate
    <2>3. i # Target(r)
      BY <2>1, <2>2 DEF Target, IInv, FreshId, IsLive
    <2>4. req[r].email # Null
      BY <2>2 DEF IInv, RequestOK
    <2> QED  BY <2>1, <2>2, <2>3, <2>4, DuplicateRefines
  <1>3. CASE PrecheckUpdate(r) /\ AddressTaken(r)
    <2>1. PICK i \in GetByEmail(req[r].email) \ {Target(r)} : TRUE
      BY <1>3 DEF AddressTaken
    <2> QED  BY <1>3, <2>1, DuplicateRefines DEF PrecheckUpdate, AddressTaken
  <1> QED  BY <1>1, <1>2, <1>3 DEF PrecheckCreate, PrecheckUpdate

\* A violation of the index is a duplicate of the address asked for.
LEMMA EnterIndexRefines ==
    ASSUME IInv, EInv, NEW r \in Reqs, EnterIndex(r)
    PROVE  Registry!RefuseDuplicate(r) \/ UNCHANGED Registry!rvars
  <1>1. CASE Conflicts(r) = {}
    <2>1. PICK label \in {"commit", "refresh"} : Goto(r, label)
      BY <1>1 DEF EnterIndex
    <2> QED  BY <1>1, <2>1, InnerStep DEF EnterIndex, InTransaction
  <1>2. CASE Conflicts(r) # {}
    <2>1. PICK i \in Conflicts(r) : TRUE
      BY <1>2
    <2>2. pc[r] = "index" /\ Finish(r, 409) /\ UNCHANGED <<rows, req, user>>
      BY <1>2 DEF EnterIndex, IntegrityStatus
    <2>3. i \in GetByEmail(req[r].email) \ {Target(r)} /\ req[r].email # Null
      BY <2>2, ConflictIsAsked
    <2> QED  BY <2>2, <2>3, DuplicateRefines
  <1> QED  BY <1>1, <1>2

\* The registry's user that a row stands for.
UserOf(row) == IF IsLive(row) THEN [email |-> row.email, profile |-> row.profile] ELSE Null

LEMMA LiveUsersAt ==
    /\ LiveUsers = [i \in Ids |-> UserOf(rows[i])]
    /\ LiveUsers' = [i \in Ids |-> UserOf(rows'[i])]
  BY DEF LiveUsers, UserOf, IsLive

\* Writing one row writes one user.
LEMMA OneUserWritten ==
    ASSUME NEW k \in Ids, NEW row, \A i \in Ids : rows'[i] = IF i = k THEN row ELSE rows[i]
    PROVE  LiveUsers' = [LiveUsers EXCEPT ![k] = UserOf(row)]
  <1>1. \A i \in Ids : UserOf(rows'[i]) = IF i = k THEN UserOf(row) ELSE UserOf(rows[i])
    OBVIOUS
  <1> QED  BY <1>1, LiveUsersAt

\* What a commit does to the table is the one effect the registry allows.
LEMMA CommitActs ==
    ASSUME IInv, IInv', EInv, NEW r \in Reqs, pc[r] = "commit", rows' = Committed(r),
           UNCHANGED <<req, user>>
    PROVE  Registry!Act(r)
  <1> USE Constants
  <1>1. /\ Target(r) \in Ids /\ rows \in [Ids -> Row \cup {Null}]
        /\ user \in [Reqs -> Row \cup {Null}] /\ pending \in [Reqs -> Row \cup {Null}]
        /\ req[r] \in ValidRequest /\ Op(r) = req[r].op
        /\ Op(r) \in {"create", "get", "update", "delete"}
        /\ PendingIsEffect(r) /\ NothingToWrite(r)
    BY Fields DEF IInv, RequestOK, Target, TypeOK, EInv, Effects, ValidAsked, Op
  <1>2. Stage[r] = "open"
    BY DEF Stage
  <1>3. \A i \in Ids : rows'[i] = IF i = Target(r) /\ pending[r] # Null THEN pending[r] ELSE rows[i]
    BY <1>1 DEF Committed
  <1>4. pending[r] = Null => UNCHANGED LiveUsers
    BY MappedSame DEF Committed
  <1>5. pending[r] # Null => LiveUsers' = [LiveUsers EXCEPT ![Target(r)] = UserOf(pending[r])]
    BY <1>1, <1>3, OneUserWritten
  <1>6. /\ LiveUsers \in [Ids -> {UserOf(rows[i]) : i \in Ids}]
        /\ \A i \in Ids : LiveUsers[i] = UserOf(rows[i])
    BY LiveUsersAt
  <1>7. SeenUsers[r] = IF user[r] = Null THEN Null
                       ELSE [email |-> user[r].email, profile |-> user[r].profile]
    BY DEF SeenUsers
  <1>8. IF req[r].op = "create"
        THEN /\ r \notin {i \in Ids : rows[i] # Null}
             /\ {i \in Ids : rows'[i] # Null} = {i \in Ids : rows[i] # Null} \cup {r}
        ELSE /\ SeenUsers[r] # Null
             /\ {i \in Ids : rows'[i] # Null} = {i \in Ids : rows[i] # Null}
    <2>1. CASE Op(r) = "create"
      <3>1. Target(r) = r /\ pending[r] # Null /\ rows[r] = Null
        BY <1>1, <2>1 DEF Target, NothingToWrite, Writing, IInv, FreshId
      <3> QED  BY <1>1, <1>3, <2>1, <3>1
    <2>2. CASE Op(r) # "create"
      <3>1. user[r] # Null /\ user[r] \in Row /\ rows[Target(r)] # Null
        BY <1>1, <2>2 DEF IInv, Loaded, InTransaction
      <3>2. SeenUsers[r] # Null
        BY <1>7, <3>1, RegistryAssumption DEF Registry!UserData, Row
      <3>3. {i \in Ids : rows'[i] # Null} = {i \in Ids : rows[i] # Null}
        BY <1>1, <1>3, <3>1
      <3> QED  BY <1>1, <2>2, <3>2, <3>3
    <2> QED  BY <2>1, <2>2
  <1>9. LiveUsers' = Registry!Effect(r)
    <2>1. CASE Op(r) = "get"
      <3>1. pending[r] = Null
        BY <1>1, <2>1 DEF PendingIsEffect
      <3>2. Registry!Effect(r) = LiveUsers
        BY <1>1, <2>1 DEF Registry!Effect
      <3> QED  BY <1>4, <3>1, <3>2
    <2>2. CASE Op(r) = "create"
      <3>1. Target(r) = r /\ pending[r] = NewRow(r) /\ pending[r] # Null
        BY <1>1, <2>2 DEF Target, PendingIsEffect, NothingToWrite, Writing
      <3>2. UserOf(pending[r]) = [email |-> req[r].email, profile |-> req[r].profile]
        BY <3>1 DEF UserOf, IsLive, NewRow
      <3>3. Registry!Effect(r) =
                [LiveUsers EXCEPT ![r] = [email |-> req[r].email, profile |-> req[r].profile]]
        BY <1>1, <2>2 DEF Registry!Effect
      <3> QED  BY <1>5, <3>1, <3>2, <3>3
    <2>3. CASE Op(r) = "delete"
      <3>1. Target(r) = req[r].id /\ pending[r] # Null /\ rows[Target(r)] \in Row
        BY <1>1, <2>3 DEF Target, NothingToWrite, Writing, IInv, Loaded, InTransaction
      <3>2. pending[r].deleted_at = r
        BY <1>1, <2>3, <3>1 DEF PendingIsEffect, SetColumns, Row
      <3>3. UserOf(pending[r]) = Null
        BY <3>1, <3>2 DEF UserOf, IsLive
      <3>4. Registry!Effect(r) = [LiveUsers EXCEPT ![req[r].id] = Null]
        BY <1>1, <2>3 DEF Registry!Effect
      <3> QED  BY <1>5, <3>1, <3>3, <3>4
    <2>4. CASE Op(r) = "update"
      <3> DEFINE k == req[r].id
      <3>1. /\ Target(r) = k /\ k \in Ids /\ rows[k] # Null /\ rows[k] \in Row
            /\ user[r] # Null /\ user[r] \in Row
        BY <1>1, <2>4 DEF Target, IInv, Loaded, InTransaction
      <3>2. Registry!Effect(r) = IF LiveUsers[k] = Null THEN LiveUsers
                                 ELSE [LiveUsers EXCEPT ![k] = Registry!Patched(r, LiveUsers[k])]
        BY <1>1, <2>4 DEF Registry!Effect
      <3>3. CASE ~IsLive(rows[k])
        <4>1. LiveUsers[k] = Null
          BY <1>6, <3>1, <3>3 DEF UserOf
        <4>2. pending[r] # Null => UserOf(pending[r]) = Null
          BY <3>1, <3>3 DEF IInv, PendingTombstone, UserOf
        <4>3. LiveUsers' = LiveUsers
          BY <1>4, <1>5, <1>6, <3>1, <4>1, <4>2
        <4> QED  BY <3>2, <4>1, <4>3
      <3>4. CASE IsLive(rows[k])
        <4>1. LiveUsers[k] = [email |-> rows[k].email, profile |-> rows[k].profile]
          BY <1>6, <3>1, <3>4 DEF UserOf
        <4>2. LiveUsers[k] # Null
          BY <3>1, <4>1, RegistryAssumption DEF Registry!UserData, Row
        <4>3. Registry!Patched(r, LiveUsers[k]) =
                [email |-> Assigned("email", req[r], user[r], rows[k]),
                 profile |-> Assigned("profile", req[r], user[r], rows[k])]
          BY <1>7, <3>1, <4>1 DEF Registry!Patched, Assigned
        <4>4. CASE pending[r] = Null
          <5>1. ~Dirty(r)
            BY <1>1, <2>4, <4>4 DEF NothingToWrite, Writing
          <5>2. req[r].email \in {Null, user[r].email} /\ req[r].profile \in {Null, user[r].profile}
            BY <5>1 DEF Dirty
          <5>3. Registry!Patched(r, LiveUsers[k]) = LiveUsers[k]
            BY <4>1, <4>3, <5>2 DEF Assigned
          <5>4. LiveUsers = [LiveUsers EXCEPT ![k] = LiveUsers[k]]
            BY <1>6, <3>1
          <5> QED  BY <1>4, <3>2, <4>2, <4>4, <5>3, <5>4
        <4>5. CASE pending[r] # Null
          <5>1. pending[r] = SetColumns(r, rows[k])
            BY <1>1, <2>4, <3>1, <4>5 DEF PendingIsEffect
          <5>2. UserOf(pending[r]) = Registry!Patched(r, LiveUsers[k])
            BY <2>4, <3>4, <4>3, <4>5, <5>1 DEF UserOf, IsLive, SetColumns
          <5> QED  BY <1>5, <3>1, <3>2, <4>2, <4>5, <5>2
        <4> QED  BY <4>4, <4>5
      <3> QED  BY <3>3, <3>4
    <2> QED  BY <1>1, <2>1, <2>2, <2>3, <2>4
  <1>10. \A i, j \in Ids : LiveUsers'[i] # Null /\ LiveUsers'[j] # Null
            /\ Registry!SameAddress(LiveUsers'[i], LiveUsers'[j].email) => i = j
    <2>1. UniqueKeys(rows')
      BY DEF IInv, LiveEmailsUnique, UniqueKeys, IsLive, Key
    <2>2. \A i \in Ids : LiveUsers'[i] # Null =>
              IsLive(rows'[i]) /\ LiveUsers'[i].email = rows'[i].email
      BY LiveUsersAt DEF UserOf
    <2> QED  BY <2>1, <2>2 DEF UniqueKeys, Key, Registry!SameAddress
  <1>11. UNCHANGED SeenUsers
    BY MappedSame
  <1> QED  BY <1>2, <1>8, <1>9, <1>10, <1>11 DEF Registry!Act, Registry!Ids, Ids

\* An error may hide a commit, and nothing else.
LEMMA CutShortRefines ==
    ASSUME IInv, IInv', EInv, NEW r \in Reqs, NEW status \in {500, 504},
           pc[r] \in InTransaction \cup {"begin", "committed"}, CutShort(r, status)
    PROVE  Registry!Break(r)
  <1>1. Stage[r] \in {"open", "applied"}
    BY DEF Stage, InTransaction
  <1>2. Registry!Reply(r, status)
    BY EndReplies DEF CutShort
  <1>3. CASE rows' = rows
    BY <1>1, <1>2, <1>3, MappedSame DEF CutShort, Registry!Break
  <1>4. CASE pc[r] = "commit" /\ rows' = Committed(r)
    <2>1. Registry!Act(r)
      BY <1>4, CommitActs DEF CutShort
    <2> QED  BY <1>1, <1>2, <2>1 DEF Registry!Break
  <1> QED  BY <1>3, <1>4 DEF CutShort

\* Every step is a step of the registry, or shows nothing to it.
LEMMA StepRefines == IInv /\ IInv' /\ EInv /\ [Next]_vars => [Registry!RNext]_(Registry!rvars)
  <1> SUFFICES ASSUME IInv, IInv', EInv, [Next]_vars
               PROVE  Registry!RNext \/ UNCHANGED Registry!rvars
    OBVIOUS
  <1>1. ASSUME NEW r \in Reqs, Acts(r)
        PROVE  Registry!RNext \/ UNCHANGED Registry!rvars
    <2>1. CASE Arrive(r)
      BY <2>1, ArriveAsks DEF Registry!RNext
    <2>2. CASE GetUser(r)
      BY <2>2, GetUserRefines DEF Registry!RNext
    <2>3. CASE PrecheckCreate(r) \/ PrecheckUpdate(r)
      BY <2>3, PrechecksRefine DEF Registry!RNext
    <2>4. CASE Flush(r)
      <3>1. PICK label \in {"index", "refresh"} : Goto(r, label)
        BY <2>4 DEF Flush
      <3> QED  BY <2>4, <3>1, InnerStep DEF Flush, InTransaction
    <2>5. CASE EnterIndex(r)
      BY <2>5, EnterIndexRefines DEF Registry!RNext
    <2>6. CASE Refresh(r)
      BY <2>6, InnerStep DEF Refresh, InTransaction
    <2>7. CASE Commit(r)
      <3>1. Registry!Act(r)
        BY <2>7, CommitActs DEF Commit
      <3>2. Stage' = [Stage EXCEPT ![r] = StageOf("committed")]
        BY <2>7, StageMoves DEF Commit, Goto
      <3>3. Registry!Apply(r)
        BY <2>7, <3>1, <3>2 DEF Commit, Goto, StageOf, Registry!Apply, Registry!Move
      <3> QED  BY <3>3 DEF Registry!RNext
    <2>8. CASE Respond(r)
      <3>1. Stage[r] = "applied" /\ UNCHANGED <<rows, req, user>>
        BY <2>8 DEF Respond, Stage
      <3>2. Registry!Reply(r, Success(Op(r)))
        BY <2>8, EndReplies DEF Respond
      <3>3. Op(r) \in {"create", "get", "update", "delete"} /\ Op(r) = req[r].op
        BY DEF IInv, TypeOK, Request, Op
      <3>4. Success(Op(r)) = CASE req[r].op = "create" -> 201
                               [] req[r].op = "delete" -> 204
                               [] OTHER -> 200
        <4>1. CASE Op(r) = "create"
          BY <3>3, <4>1 DEF Success
        <4>2. CASE Op(r) = "delete"
          BY <3>3, <4>2 DEF Success
        <4>3. CASE Op(r) \in {"get", "update"}
          BY <3>3, <4>3 DEF Success
        <4> QED  BY <3>3, <4>1, <4>2, <4>3
      <3>5. Registry!Acknowledge(r)
        BY <3>1, <3>2, <3>4, MappedSame DEF Registry!Acknowledge
      <3> QED  BY <3>5 DEF Registry!RNext
    <2>9. CASE DeadlockVictim(r)
      <3>1. pc[r] = "index" /\ Finish(r, 500) /\ UNCHANGED <<rows, req, user>>
        BY <2>9 DEF DeadlockVictim, InDeadlock
      <3>2. Stage[r] = "open"
        BY <3>1 DEF Stage
      <3>3. Registry!Break(r)
        BY <3>1, <3>2, EndReplies, MappedSame DEF Registry!Break
      <3> QED  BY <3>3 DEF Registry!RNext
    <2>10. CASE DbError(r)
      BY <2>10, CutShortRefines DEF DbError, Registry!RNext
    <2>11. CASE Timeout(r)
      BY <2>11, CutShortRefines DEF Timeout, Registry!RNext
    <2> QED  BY <1>1, <2>1, <2>2, <2>3, <2>4, <2>5, <2>6, <2>7, <2>8, <2>9, <2>10, <2>11
             DEF Acts, Serve
  <1>2. CASE UNCHANGED vars
    BY <1>2, MappedSame DEF vars, Registry!rvars
  <1> QED  BY <1>1, <1>2 DEF Next, AllAnswered, Acts

\* Every interleaving of statements, locks, commits and faults, of any number
\* of requests, looks like requests that act at one instant each.
THEOREM RefinesRegistry == Spec => RegistryPromise
  BY Invariant, EffectInvariant, InitRefines, StepRefines, PTL DEF Spec, RegistryPromise, Registry!RSpec
=============================================================================
