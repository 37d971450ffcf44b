---------------------------- MODULE UserListing -----------------------------
(***************************************************************************)
(* Listing users page by page: GET /users/ with its sort, filters, limit   *)
(* and offset, and a client that walks the pages while others write and    *)
(* its token grows old.                                                    *)
(*                                                                         *)
(* Every page is a request that AccessControl decides on anew.             *)
(* A page is two statements, its rows and their total, each with a         *)
(* snapshot of its own (READ COMMITTED); the next page is another request. *)
(* Writers commit between any two of them, each commit one step here (how  *)
(* a write gets there is UserUnitOfWork's subject).                        *)
(*                                                                         *)
(* Data: ids are numbers, new ones falling anywhere between the old; a     *)
(* sortable value is a number, NULL one above the others, where PostgreSQL *)
(* sorts it; of the text, which search terms a row contains.               *)
(***************************************************************************)
EXTENDS AccessControl, SequencesExt

CONSTANTS
    Ids,        \* the ids of users
    Kinds,      \* what a user's row may hold
    Starts,     \* settings, host, token, clock, query and table of a walk,
                \* and a bound: the commits during it
    MaxClock,   \* bound: the clock
    MaxLimit,   \* MAX_LIMIT
    Null        \* no row, no filter

USER_SORTABLE == {"created_at", "full_name"}

Kind == [created_at : Nat, full_name : Nat, is_active : BOOLEAN, words : SUBSET STRING]

ASSUME ListingAssumption ==
    /\ Ids \subseteq Nat /\ IsFiniteSet(Ids)
    /\ \A k \in Kinds : k.created_at \in Nat /\ k.full_name \in Nat /\ k.is_active \in BOOLEAN
    /\ \A s \in Starts :
           /\ s.table \in [Ids -> Kinds \cup {Null}] /\ s.commits \in Nat
           /\ s.query.limit \in Nat /\ s.clock \in 0 .. MaxClock
           /\ s.query.sort \in Seq([field : STRING, desc : BOOLEAN])
           \* What is set names the provider and this service.
           /\ s.settings.issuer \in {"", "provider"} /\ s.settings.audience \in {"", "service"}
           /\ s.token.form \in {"none", "garbled", "jwt"}
           /\ s.token.iat \in Int /\ s.token.exp \in Int
    /\ MaxClock \in Nat
    /\ MaxLimit \in Nat \ {0}

VARIABLES
    start,    \* what the walk started with: settings, host, token, query
    clock,    \* the time
    answer,   \* to the last request: "ok", or why it was refused
    table,    \* the live users (a deleted one is Null, and its id is used)
    pc,       \* where the walk is
    offset,   \* of the page it is at
    page,     \* the rows of that page
    total,    \* and the total sent with it
    got,      \* the ids of the pages so far
    writes,   \* history: commits since the walk began
    touched   \* history: the users they wrote

vars == <<start, clock, answer, table, pc, offset, page, total, got, writes,
          touched>>

query == start.query

(***************************************************************************)
(* The query.                                                              *)
(***************************************************************************)
\* A term of sort is a field, descending or not; an empty segment is neither.
Term(field, desc) == [field |-> field, desc |-> desc]
Blank == Term("", FALSE)
Default == <<Term("created_at", FALSE)>>

\* Where the terms of a sort are: its empty segments are passed over.
Terms(sort) == {k \in DOMAIN sort : sort[k] # Blank}
Sortable(sort) == \A k \in Terms(sort) : sort[k].field \in USER_SORTABLE
parse_sort(sort) == IF Terms(sort) = {} THEN Default ELSE sort

Valid(q) == q.limit \in 1 .. MaxLimit

\* The filters both statements share.
Matches(i) ==
    /\ table[i] # Null
    /\ query.is_active # Null => table[i].is_active = query.is_active
    /\ query.q # Null => query.q \in table[i].words

Matching == {i \in Ids : Matches(i)}

\* i before j by the terms of the sort alone.
Precedes(i, j) ==
    LET sort == parse_sort(query.sort)
        Less(k) == IF sort[k].desc
                   THEN table[j][sort[k].field] < table[i][sort[k].field]
                   ELSE table[i][sort[k].field] < table[j][sort[k].field]
        Same(k) == table[i][sort[k].field] = table[j][sort[k].field]
    IN  \E k \in Terms(sort) : Less(k) /\ \A l \in Terms(sort) : l < k => Same(l)

Ties(i, j) == ~Precedes(i, j) /\ ~Precedes(j, i)

\* Variant: without the primary key.
Before_Unkeyed(i, j) == Precedes(i, j)

Before(i, j) == Precedes(i, j) \/ (Ties(i, j) /\ i < j)

\* The orders in which the database may return the matching users.
Orders ==
    {s \in SetToSeqs(Matching) : \A k, l \in DOMAIN s : k < l => ~Before(s[l], s[k])}

\* Variant: the offset taken as the first row's place.
Window_Skips(s) ==
    SubSeq(s, offset + (IF offset = 0 THEN 1 ELSE 2), Min({Len(s), offset + query.limit}))

Window(s) == SubSeq(s, offset + 1, Min({Len(s), offset + query.limit}))

(***************************************************************************)
(* A walk.                                                                 *)
(***************************************************************************)
Init ==
    /\ start \in Starts
    /\ table = start.table
    /\ clock = start.clock
    /\ answer = "ok"
    /\ pc = "boot"
    /\ offset = 0
    /\ page = <<>>
    /\ total = 0
    /\ got = <<>>
    /\ writes = 0
    /\ touched = {}

\* create_app() starts the server, or raises.
Boot ==
    /\ pc = "boot"
    /\ pc' = IF Boots(start.settings) THEN "next" ELSE "refused"
    /\ answer' = IF Boots(start.settings) THEN "ok" ELSE "no boot"
    /\ UNCHANGED <<start, clock, table, offset, page, total, got, writes, touched>>

Caller == require_roles({"users.read"}, start.settings, start.token, clock)

\* A request for a page: refused by the Host check, by the dependency that
\* wants a reader, by the parameters' bounds, by the sort, in this order;
\* or on to the session.
Request ==
    /\ pc = "next"
    /\ answer' = IF ~HostAllowed(start.settings, start.host) THEN "bad host"
                 ELSE IF Caller # "ok" THEN Caller
                 ELSE IF ~Valid(query) THEN "unprocessable"
                 ELSE IF ~Sortable(query.sort) THEN "bad request" ELSE "ok"
    /\ pc' = IF answer' = "ok" THEN "rows" ELSE "refused"
    /\ UNCHANGED <<start, clock, table, offset, page, total, got, writes, touched>>

ReadRows ==
    /\ pc = "rows"
    /\ \E s \in Orders : page' = Window(s)
    /\ pc' = "count"
    /\ UNCHANGED <<start, clock, answer, table, offset, total, got, writes, touched>>

\* Variant: the filters are left out of the count.
Count_Unfiltered == Cardinality({i \in Ids : table[i] # Null})

Count == Cardinality(Matching)

ReadTotal ==
    /\ pc = "count"
    /\ total' = Count
    /\ pc' = "page"
    /\ UNCHANGED <<start, clock, answer, table, offset, page, got, writes, touched>>

\* The page arrives; a full one is followed by the next.
Respond ==
    /\ pc = "page"
    /\ got' = got \o page
    /\ IF Len(page) < query.limit
       THEN pc' = "done" /\ UNCHANGED offset
       ELSE pc' = "next" /\ offset' = offset + query.limit
    /\ UNCHANGED <<start, clock, answer, table, page, total, writes, touched>>

(***************************************************************************)
(* The writers.                                                            *)
(***************************************************************************)
Write(i, row) ==
    /\ pc \notin {"boot", "done", "refused"}
    /\ writes < start.commits
    /\ table' = [table EXCEPT ![i] = row]
    /\ writes' = writes + 1
    /\ touched' = touched \cup {i}
    /\ UNCHANGED <<start, clock, answer, pc, offset, page, total, got>>

Insert(i, k) == table[i] = Null /\ i \notin touched /\ Write(i, k)
Delete(i) == table[i] # Null /\ Write(i, Null)
Update(i, k) ==
    /\ table[i] # Null /\ k # table[i]
    /\ k.created_at = table[i].created_at
    /\ Write(i, k)

Tick ==
    /\ pc \notin {"done", "refused"} /\ clock < MaxClock
    /\ clock' = clock + 1
    /\ UNCHANGED <<start, answer, table, pc, offset, page, total, got, writes,
                   touched>>

Next ==
    \/ Boot \/ Tick \/ Request \/ ReadRows \/ ReadTotal \/ Respond
    \/ \E i \in Ids : Delete(i) \/ \E k \in Kinds : Insert(i, k) \/ Update(i, k)

Spec == Init /\ [][Next]_vars

-----------------------------------------------------------------------------
(***************************************************************************)
(* Properties.                                                             *)
(***************************************************************************)
\* The shape of the state; a page is never longer than its limit.
TypeOK ==
    /\ table \in [Ids -> Kinds \cup {Null}]
    /\ answer \in {"ok", "no boot", "bad host", "not configured", "unauthorized", "forbidden",
                   "unprocessable", "bad request"}
    /\ pc \in {"boot", "next", "rows", "count", "page", "done", "refused"}
    /\ offset \in Nat /\ total \in Nat /\ clock \in 0 .. MaxClock
    /\ writes \in 0 .. start.commits
    /\ got \in Seq(Ids) /\ touched \subseteq Ids
    /\ page \in Seq(Ids) /\ Len(page) <= query.limit

Seen == {got[k] : k \in DOMAIN got}
Repeats == Len(got) - Cardinality(Seen)

\* While nobody writes, the pages put together are every matching user, once
\* and in the order asked for, and the total says how many.
QuietWalkIsComplete ==
    pc = "done" /\ writes = 0 =>
        /\ Seen = Matching /\ Repeats = 0
        /\ \A k, l \in DOMAIN got : k < l => ~Precedes(got[l], got[k])
        /\ total = Len(got)

\* Writers can make a walk miss or repeat a user, and its total tell another
\* number than its pages, each commit one at most: a user nobody wrote is
\* missed, or a user repeated, no more often than there were commits, and by no
\* more does the total, a statement of its own, differ from the users sent.
DriftIsBounded ==
    pc = "done" =>
        /\ Cardinality((Matching \ touched) \ Seen) <= writes
        /\ Repeats <= writes
        /\ Len(got) - total <= writes /\ total - Len(got) <= writes

\* Rows are read only for a token of the provider, issued by it for this
\* service, not older than the leeway lets it be at this page, naming its
\* subject, with the reader's role or an enabled bypass; whatever the
\* settings left unset.
RowsNeedAReader ==
    [][pc = "next" /\ pc' = "rows" =>
        LET t == start.token IN
        /\ t.form = "jwt" /\ t.key = "provider" /\ t.iss = "provider" /\ t.aud = "service"
        /\ clock - t.exp < Leeway /\ t.iat - clock <= Leeway
        /\ t.missing = {} /\ t.sub # ""
        /\ \/ "users.read" \in t.roles.names
           \/ start.settings.superuser.enabled /\ start.settings.superuser.role \in t.roles.names]_vars

\* app/core/config.py:12 - in production the settings are validated at
\* startup, so no request finds authentication not configured; whether the
\* process or its env file says production.
ProductionIsConfigured ==
    answer = "not configured" => ENV(start.settings) # "production"
=============================================================================
