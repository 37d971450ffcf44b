--------------------------- MODULE UserUnitOfWork ---------------------------
(***************************************************************************)
(* The user module under concurrent requests: routes, service, repository  *)
(* and the per-request database session (app/modules/user, app/db).        *)
(*                                                                         *)
(* Every request is one session and one READ COMMITTED transaction that    *)
(* writes at most one row.  A step is one SQL statement, or one of the two *)
(* halves of a write: taking the row lock, then entering the unique index. *)
(* The index (PostgreSQL, external) makes a writer wait for an undecided   *)
(* transaction holding a conflicting entry, and fails it with an           *)
(* IntegrityError on a committed one.                                      *)
(*                                                                         *)
(* Data: `profile' stands for the columns the code treats alike            *)
(* (full_name, is_active); Null for SQL NULL, Python None and an omitted   *)
(* field; deleted_at holds the request that stamped it, instead of a time; *)
(* the uuid4 drawn for a new row is named by the request that draws it.    *)
(***************************************************************************)
EXTENDS Integers, FiniteSets

CONSTANTS
    Reqs,      \* the requests served
    Seeds,     \* ids of the rows present at the start
    Emails,    \* spellings of addresses
    Lower,     \* lower(): spelling -> lower-case spelling
    Profiles,  \* values of the other client-set columns
    Null,
    SeedRows,  \* rows a seed may hold at the start, stamped before any request
    Workload,  \* the requests each client request is drawn from
    Faults,    \* faults that may strike: "db_error", "timeout"
    PoolSize   \* DB_POOL_SIZE + DB_MAX_OVERFLOW

Ids == Seeds \cup Reqs
Row == [email : Emails, profile : Profiles, deleted_at : Ids \cup {Null}]

(***************************************************************************)
(* Requests.  The schemas lower-case the email; an update may omit any     *)
(* field, a create must name the email and has a default for the rest.     *)
(***************************************************************************)
Request ==
    [op : {"create", "get", "update", "delete"}, id : Ids \cup {Null},
     email : Emails \cup {Null}, profile : Profiles \cup {Null}]

UserCreate ==
    [op : {"create"}, id : {Null},
     email : {Lower[e] : e \in Emails}, profile : Profiles]

UserUpdate ==
    [op : {"update"}, id : Ids,
     email : {Lower[e] : e \in Emails} \cup {Null}, profile : Profiles \cup {Null}]

ByIdOnly ==
    [op : {"get", "delete"}, id : Ids, email : {Null}, profile : {Null}]

ValidRequest == UserCreate \cup UserUpdate \cup ByIdOnly

ASSUME UserAssumption ==
    /\ Seeds \cap Reqs = {}
    /\ Lower \in [Emails -> Emails]
    /\ \A e \in Emails : Lower[Lower[e]] = Lower[e]
    /\ Null \notin Ids \cup Emails \cup Profiles \cup Row \cup Nat
    /\ SeedRows \subseteq Row
    /\ \A row \in SeedRows : row.deleted_at \notin Reqs
    /\ Faults \subseteq {"db_error", "timeout"}

ASSUME WorkloadAssumption == Workload \in [Reqs -> SUBSET ValidRequest]

ASSUME PoolAssumption == PoolSize \in Nat \ {0}

VARIABLES
    rows,     \* the users table as committed: id -> row, Null if absent
    pc,       \* where each request is
    req,      \* what each request asks for
    user,     \* the ORM instance as get() loaded it
    body,     \* the row the response shows
    pending,  \* the uncommitted row version of the request's transaction
    answer    \* the status the client received, Null before

vars == <<rows, pc, req, user, body, pending, answer>>

Op(r) == req[r].op

\* The row a request is about; the new row of a create is named by the request.
Target(r) == IF Op(r) = "create" THEN r ELSE req[r].id

(***************************************************************************)
(* What a statement of request r sees: the committed rows (its own pending *)
(* version exists only after every lookup).                                *)
(***************************************************************************)
IsLive(row) == row # Null /\ row.deleted_at = Null

GetById(i) == IF IsLive(rows[i]) THEN rows[i] ELSE Null

GetByEmail(e) == {i \in Ids : IsLive(rows[i]) /\ Lower[rows[i].email] = Lower[e]}

Key(row) == Lower[row.email]

(***************************************************************************)
(* The session.  A connection is taken at the first statement and returned *)
(* when the transaction ends.                                              *)
(***************************************************************************)
InTransaction == {"precheck", "flush", "index", "refresh", "commit"}

ConnectionFree == Cardinality({s \in Reqs : pc[s] \in InTransaction}) < PoolSize

\* Variant: the error path forgets the rollback and the locks stay.
Finish_NoRollback(r, status) ==
    /\ pc' = [pc EXCEPT ![r] = "done"]
    /\ answer' = [answer EXCEPT ![r] = status]
    /\ UNCHANGED pending

\* The transaction is rolled back (if it wrote) and the client is answered.
Finish(r, status) ==
    /\ pc' = [pc EXCEPT ![r] = "done"]
    /\ answer' = [answer EXCEPT ![r] = status]
    /\ pending' = [pending EXCEPT ![r] = Null]

Goto(r, label) == pc' = [pc EXCEPT ![r] = label] /\ UNCHANGED answer

(***************************************************************************)
(* The handler, statement by statement.                                    *)
(***************************************************************************)
Arrive(r) ==
    /\ pc[r] = "idle"
    /\ \E q \in Workload[r] : req' = [req EXCEPT ![r] = q]
    /\ Goto(r, "begin")
    /\ UNCHANGED <<rows, user, body, pending>>

\* UserService.get_user, which get, update and delete start with.
GetUser(r) ==
    /\ pc[r] = "begin" /\ Op(r) # "create" /\ ConnectionFree
    /\ LET found == GetById(Target(r)) IN
           IF found = Null
           THEN Finish(r, 404) /\ UNCHANGED <<user, body>>
           ELSE /\ user' = [user EXCEPT ![r] = found]
                /\ body' = [body EXCEPT ![r] = found]
                /\ Goto(r, CASE Op(r) = "get" -> "commit"
                             [] Op(r) = "update" -> "precheck"
                             [] Op(r) = "delete" -> "flush")
                /\ UNCHANGED pending
    /\ UNCHANGED <<rows, req>>

\* The fast path of create_user: is the address already registered?
PrecheckCreate(r) ==
    /\ pc[r] = "begin" /\ Op(r) = "create" /\ ConnectionFree
    /\ IF GetByEmail(req[r].email) # {}
       THEN Finish(r, 409)
       ELSE Goto(r, "flush") /\ UNCHANGED pending
    /\ UNCHANGED <<rows, req, user, body>>

\* Variant: the user's own row counts as a rival.
AddressTaken_Self(r) ==
    /\ req[r].email \notin {Null, user[r].email}
    /\ GetByEmail(req[r].email) # {}

\* The fast path of update_user: only a changed address is looked up, and
\* the user itself may already hold it in another spelling.
AddressTaken(r) ==
    /\ req[r].email \notin {Null, user[r].email}
    /\ GetByEmail(req[r].email) \ {Target(r)} # {}

PrecheckUpdate(r) ==
    /\ pc[r] = "precheck"
    /\ IF AddressTaken(r)
       THEN Finish(r, 409)
       ELSE Goto(r, "flush") /\ UNCHANGED pending
    /\ UNCHANGED <<rows, req, user, body>>

(***************************************************************************)
(* flush().  The ORM emits SET clauses only for the attributes whose value *)
(* differs from the one it loaded, and the UPDATE matches by id alone.     *)
(***************************************************************************)
\* Variant: every column of the loaded instance is written back.
Assigned_Stale(field, asked, loaded, current) ==
    IF asked[field] = Null THEN loaded[field] ELSE asked[field]

Assigned(field, asked, loaded, current) ==
    IF asked[field] \in {Null, loaded[field]} THEN current[field] ELSE asked[field]

Dirty(r) ==
    \/ Op(r) = "delete"
    \/ \E field \in {"email", "profile"} :
           req[r][field] \notin {Null, user[r][field]}

\* Variant: deleted_at is written back as it was loaded.
SetColumns_WholeRow(r, current) ==
    IF Op(r) = "delete"
    THEN [current EXCEPT !.deleted_at = r]
    ELSE [email |-> Assigned("email", req[r], user[r], current),
          profile |-> Assigned("profile", req[r], user[r], current),
          deleted_at |-> user[r].deleted_at]

SetColumns(r, current) ==
    IF Op(r) = "delete"
    THEN [current EXCEPT !.deleted_at = r]
    ELSE [email |-> Assigned("email", req[r], user[r], current),
          profile |-> Assigned("profile", req[r], user[r], current),
          deleted_at |-> current.deleted_at]

NewRow(r) == [email |-> req[r].email, profile |-> req[r].profile, deleted_at |-> Null]

RowLockedBy(r, s) == s # r /\ pending[s] # Null /\ Target(s) = Target(r)

\* INSERT of the heap row, or UPDATE of the newest version of the row once
\* no other transaction holds it.  Nothing dirty: no statement at all.
Flush(r) ==
    /\ pc[r] = "flush"
    /\ IF Op(r) = "create"
       THEN /\ pending' = [pending EXCEPT ![r] = NewRow(r)]
            /\ Goto(r, "index")
       ELSE IF Dirty(r)
            THEN /\ \A s \in Reqs : ~RowLockedBy(r, s)
                 /\ pending' = [pending EXCEPT ![r] = SetColumns(r, rows[Target(r)])]
                 /\ Goto(r, "index")
            ELSE Goto(r, "refresh") /\ UNCHANGED pending
    /\ UNCHANGED <<rows, req, user, body>>

(***************************************************************************)
(* ix_users_email_lower: unique on lower(email) where deleted_at is null.  *)
(* Conflicts are the committed entries with the key; Blocks holds of the   *)
(* undecided transactions that replace such an entry or have added one.    *)
(***************************************************************************)
Conflicts(r) ==
    {i \in Ids \ {Target(r)} : /\ IsLive(pending[r])
                               /\ IsLive(rows[i])
                               /\ Key(rows[i]) = Key(pending[r])}

Indexed(s) == pc[s] \in {"refresh", "commit"} /\ IsLive(pending[s])

\* Variant: only committed entries are looked at.
Blocks_CommittedOnly(s, r) ==
    s # r /\ pending[s] # Null /\ Target(s) \in Conflicts(r)

Blocks(s, r) ==
    /\ s # r /\ pending[s] # Null
    /\ \/ Target(s) \in Conflicts(r)
       \/ IsLive(pending[r]) /\ Indexed(s) /\ Key(pending[s]) = Key(pending[r])

\* Variant: the constraint name is looked for on exc.orig only.
IntegrityStatus_OrigOnly(constraint) == 500

\* create() and update() turn a violation of the email index, and of it
\* alone, into DuplicateEmailError.
IntegrityStatus(constraint) == IF constraint = "ix_users_email_lower" THEN 409 ELSE 500

\* The second half of the flush; a delete is not refreshed.
EnterIndex(r) ==
    /\ pc[r] = "index"
    /\ \A s \in Reqs : ~Blocks(s, r)
    /\ IF Conflicts(r) # {}
       THEN Finish(r, IntegrityStatus("ix_users_email_lower"))
       ELSE /\ Goto(r, IF Op(r) = "delete" THEN "commit" ELSE "refresh")
            /\ UNCHANGED pending
    /\ UNCHANGED <<rows, req, user, body>>

\* refresh() re-reads by primary key, without the deleted_at filter.
Refresh(r) ==
    /\ pc[r] = "refresh"
    /\ body' = [body EXCEPT ![r] = IF pending[r] = Null THEN rows[Target(r)]
                                   ELSE pending[r]]
    /\ Goto(r, "commit")
    /\ UNCHANGED <<rows, req, user, pending>>

\* Variant: the session is closed without a commit.
Committed_Never(r) == rows

Committed(r) ==
    IF pending[r] = Null THEN rows ELSE [rows EXCEPT ![Target(r)] = pending[r]]

\* get_session commits before the response is sent (scope="function").
Commit(r) ==
    /\ pc[r] = "commit"
    /\ rows' = Committed(r)
    /\ pending' = [pending EXCEPT ![r] = Null]
    /\ Goto(r, "committed")
    /\ UNCHANGED <<req, user, body>>

Success(op) == CASE op = "create" -> 201
                 [] op = "delete" -> 204
                 [] op \in {"get", "update"} -> 200

Respond(r) ==
    /\ pc[r] = "committed"
    /\ Finish(r, Success(Op(r)))
    /\ UNCHANGED <<rows, req, user, body>>

(***************************************************************************)
(* Faults.  Any statement may raise (connection lost, pool timeout), and   *)
(* TimeoutMiddleware may cancel the handler at any await.  Either way the  *)
(* session rolls back; of a COMMIT cut short nobody knows the outcome.     *)
(***************************************************************************)
CutShort(r, status) ==
    /\ rows' \in IF pc[r] = "commit" THEN {rows, Committed(r)} ELSE {rows}
    /\ Finish(r, status)
    /\ UNCHANGED <<req, user, body>>

DbError(r) ==
    /\ "db_error" \in Faults
    /\ pc[r] \in InTransaction \cup {"begin"}
    /\ CutShort(r, 500)

Timeout(r) ==
    /\ "timeout" \in Faults
    /\ pc[r] \in InTransaction \cup {"begin", "committed"}
    /\ CutShort(r, 504)

\* PostgreSQL fails one transaction of a cycle of waits; the driver's error
\* is not an IntegrityError, so it leaves the handler as it is: a 500.
\* Only writers at the index hold something and wait; each waits for one.
InDeadlock(r) ==
    \E S \in SUBSET {s \in Reqs : pc[s] = "index"} :
        /\ r \in S
        /\ \A s \in S : (\E t \in S : Blocks(t, s)) /\ (\E t \in S : Blocks(s, t))

DeadlockVictim(r) ==
    /\ InDeadlock(r)
    /\ Finish(r, 500)
    /\ UNCHANGED <<rows, req, user, body>>

-----------------------------------------------------------------------------
UniqueKeys(table) ==
    \A i, j \in Ids : IsLive(table[i]) /\ IsLive(table[j])
                      /\ Key(table[i]) = Key(table[j]) => i = j

Init ==
    /\ rows \in [Ids -> SeedRows \cup {Null}]
    /\ \A r \in Reqs : rows[r] = Null
    /\ UniqueKeys(rows)
    /\ pc = [r \in Reqs |-> "idle"]
    /\ req \in [Reqs -> {[op |-> "get", id |-> Null, email |-> Null, profile |-> Null]}]
    /\ user = [r \in Reqs |-> Null]
    /\ body = [r \in Reqs |-> Null]
    /\ pending = [r \in Reqs |-> Null]
    /\ answer = [r \in Reqs |-> Null]

Serve(r) ==
    \/ GetUser(r) \/ PrecheckCreate(r) \/ PrecheckUpdate(r)
    \/ Flush(r) \/ EnterIndex(r) \/ Refresh(r) \/ Commit(r) \/ Respond(r)
    \/ DeadlockVictim(r)

AllAnswered == (\A r \in Reqs : pc[r] = "done") /\ UNCHANGED vars

Next ==
    \/ \E r \in Reqs : Arrive(r) \/ Serve(r) \/ DbError(r) \/ Timeout(r)
    \/ AllAnswered

Spec == Init /\ [][Next]_vars

\* The event loop runs every task that can proceed and PostgreSQL grants a
\* free lock: each request keeps being served.  No fault is ever owed.
FairSpec == Spec /\ \A r \in Reqs : WF_vars(Serve(r))
-----------------------------------------------------------------------------
\* Every variable holds a value of its kind; the pc labels are the ones used.
TypeOK ==
    /\ rows \in [Ids -> Row \cup {Null}]
    /\ pc \in [Reqs -> InTransaction \cup {"idle", "begin", "committed", "done"}]
    /\ req \in [Reqs -> Request]
    /\ user \in [Reqs -> Row \cup {Null}]
    /\ body \in [Reqs -> Row \cup {Null}]
    /\ pending \in [Reqs -> Row \cup {Null}]
    /\ answer \in [Reqs -> {Null, 200, 201, 204, 404, 409, 500, 504}]

\* Two live users never hold the same address in any spelling, although the
\* lookup and the write of a request are separate statements.
LiveEmailsUnique == UniqueKeys(rows)

\* A success the client has seen is in the table: the created row exists, the
\* deleted one is a tombstone (get_session commits before the response).
AcknowledgedIsStored ==
    \A r \in Reqs :
        /\ answer[r] = 201 => rows[r] # Null
        /\ answer[r] = 204 => rows[Target(r)].deleted_at # Null

\* A request that was refused with 404 or 409 left nothing behind: no row it
\* created, no tombstone it stamped, no version still pending (and locked).
RefusedLeavesNoTrace ==
    \A r \in Reqs : answer[r] \in {404, 409} =>
        /\ rows[r] = Null /\ pending[r] = Null
        /\ \A i \in Ids : rows[i] # Null => rows[i].deleted_at # r

\* docs/guides/error-handling.md:73 - "a duplicate is always a 409, never a
\* 500, even under concurrent writes": where the database itself does not
\* fail, no race ends as a server error (_is_email_uniqueness_violation).
RacesAreNoServerError == \A r \in Reqs : answer[r] # 500

\* Two requests have put the addresses that r and another writer, t, ask for
\* on two users since they were looked up, the first one on the user t writes.
LostInDeadlock(r) ==
    \E t, c, d \in Reqs \ {r} :
        /\ t # c /\ t # d /\ c # d
        /\ req[c].email = req[r].email /\ Target(c) = Target(t)
        /\ req[d].email = req[t].email /\ Target(d) # Target(t)
        /\ {pc[c], pc[d]} \subseteq {"committed", "done"} /\ pc[t] # "idle"

\* How far that goes: where the database itself does not fail, a 500 is the
\* answer to a duplicate all the same, to one PostgreSQL picked as the victim
\* of a deadlock in the email index, which takes four requests.  A conflict
\* that is no deadlock never comes out as a server error.
ServerErrorsAreDeadlocks ==
    "db_error" \notin Faults => \A r \in Reqs : answer[r] = 500 => LostInDeadlock(r)

KeepsTombstones ==
    \A i \in Ids : rows[i] # Null =>
        rows'[i] # Null /\ (~IsLive(rows[i]) => ~IsLive(rows'[i]))

\* A row never leaves the table and a tombstone is never lifted, even by an
\* update that loaded the user before it was deleted.
TombstonesAreFinal == [][KeepsTombstones]_vars

\* Every request is answered: no wait for a lock, for the index or for a
\* connection of the pool is for ever.
EveryRequestAnswered == \A r \in Reqs : pc[r] = "begin" ~> pc[r] = "done"

\* docs/guides/soft-delete.md:97 - "Deleting twice must return 404, not a
\* second 204".
DeletedOnce ==
    \A r, s \in Reqs : answer[r] = 204 /\ answer[s] = 204
                       /\ Target(r) = Target(s) => r = s
=============================================================================
