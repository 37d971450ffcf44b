----------------------------- MODULE Migrations -----------------------------
(***************************************************************************)
(* The users table through its chain of migrations, alembic/versions/,     *)
(* run by alembic/env.py: up to head or down, by several processes at      *)
(* once ("every replica races to migrate"), over a table that releases     *)
(* old and new write to meanwhile.                                         *)
(*                                                                         *)
(* One run is one transaction: it reads the revision, then runs the        *)
(* scripts from there to its target, each ending with alembic's checked    *)
(* update of alembic_version.  DDL locks the table against everybody, the  *)
(* rewriting UPDATE only the rows it meets.  Of two runs that touched      *)
(* something the second is made to wait here: where PostgreSQL would let   *)
(* it start and then wait or abort it as deadlocked, it has changed        *)
(* nothing anybody sees.  Offline mode prints SQL and is not modelled.     *)
(*                                                                         *)
(* Data: an address is its folded name and whether it is spelled in lower  *)
(* case; the instants of a row are one flag, set when a conversion moved   *)
(* them; a script is the sequence of its calls on op.                      *)
(***************************************************************************)
EXTENDS Integers, Sequences

CONSTANTS
    Migrators,  \* processes that run alembic
    Ids,        \* the rows there may be
    Names,      \* the addresses, spelling aside
    Null        \* no row, no run

VARIABLES
    db,      \* what is committed: revision, schema, rows
    work,    \* what the run that touched something sees
    holder,  \* that run's process, or Null
    lock,    \* what it holds of users: "none", "rows" or "table"
    job      \* the run of each process: from, to, the revision it is at, next call

vars == <<db, work, holder, lock, job>>

HeadRevision == 6
Revisions == 0 .. HeadRevision
Row == [name : Names, lower : BOOLEAN, deleted : BOOLEAN, moved : BOOLEAN]
Schema == [table : BOOLEAN, zoned : BOOLEAN, defaults : BOOLEAN, deletedAt : BOOLEAN,
           email : {"none", "plain", "unique"}, folded : {"none", "plain", "full", "live"}]
Database == [revision : Revisions, schema : Schema, rows : [Ids -> Row \cup {Null}]]
Job == [from : Revisions, to : Revisions, at : Revisions, next : Nat]

ASSUME MigrationAssumption ==
    Migrators # {} /\ Null \notin Migrators \cup Row \cup Database \cup Job

Rows(d) == {i \in Ids : d.rows[i] # Null}

NoTable == [table |-> FALSE, zoned |-> FALSE, defaults |-> FALSE, deletedAt |-> FALSE,
            email |-> "none", folded |-> "none"]

\* What the application at head is written against.
ModelSchema == [table |-> TRUE, zoned |-> TRUE, defaults |-> TRUE, deletedAt |-> TRUE,
                email |-> "plain", folded |-> "live"]

(***************************************************************************)
(* The scripts.                                                            *)
(***************************************************************************)
CreateIndex(index, kind) == [op |-> "create_index", index |-> index, kind |-> kind]
DropIndex(index) == [op |-> "drop_index", index |-> index]
\* type_= with a USING clause that reads the naive side as UTC, or without.
AlterType(zoned, using) == [op |-> "alter_type", zoned |-> zoned, using |-> using]
AlterDefault(default) == [op |-> "alter_default", default |-> default]
Execute == [op |-> "execute"]
CreateTable == [op |-> "create_table"]
DropTable == [op |-> "drop_table"]
AddColumn == [op |-> "add_column"]
DropColumn == [op |-> "drop_column"]

InitUp == <<CreateTable, CreateIndex("email", "unique")>>
InitDown == <<DropIndex("email"), DropTable>>

\* Variant: the generated conversion, which reads naive times in the session's zone.
ZonedUp_Generated == <<AlterType(TRUE, FALSE)>>
ZonedUp == <<AlterType(TRUE, TRUE)>>
ZonedDown == <<AlterType(FALSE, TRUE)>>

FoldedUp == <<DropIndex("email"), CreateIndex("email", "plain"), CreateIndex("folded", "full")>>
\* Variant: the plain index is not dropped first.
FoldedDown_NoDrop == <<DropIndex("folded"), CreateIndex("email", "unique")>>
FoldedDown == <<DropIndex("folded"), DropIndex("email"), CreateIndex("email", "unique")>>

DefaultsUp == <<AlterDefault(TRUE)>>
DefaultsDown == <<AlterDefault(FALSE)>>

\* Variant: the index is no longer unique.
SoftDeleteUp_Plain == <<AddColumn, DropIndex("folded"), CreateIndex("folded", "plain")>>
SoftDeleteUp == <<AddColumn, DropIndex("folded"), CreateIndex("folded", "live")>>
SoftDeleteDown == <<DropIndex("folded"), CreateIndex("folded", "full"), DropColumn>>

\* UPDATE users SET email = lower(email)
LowerUp == <<Execute>>
LowerDown == <<>>

Ups == <<InitUp, ZonedUp, FoldedUp, DefaultsUp, SoftDeleteUp, LowerUp>>
Downs == <<InitDown, ZonedDown, FoldedDown, DefaultsDown, SoftDeleteDown, LowerDown>>

Stamp(from, to) == [op |-> "stamp", from |-> from, to |-> to]

(***************************************************************************)
(* The plan of a run j: the scripts from one revision to the other, each   *)
(* followed by alembic's stamp.                                            *)
(***************************************************************************)
Upgrades(j) == j.from < j.to
Script(j) == IF Upgrades(j) THEN Ups[j.at + 1] ELSE Downs[j.at]
Following(j) == IF Upgrades(j) THEN j.at + 1 ELSE j.at - 1
ScriptDone(j) == j.next > Len(Script(j))
CallOf(j) == IF ScriptDone(j) THEN Stamp(j.at, Following(j)) ELSE Script(j)[j.next]

Advanced(j) ==
    IF ScriptDone(j) THEN [j EXCEPT !.at = Following(j), !.next = 1]
                     ELSE [j EXCEPT !.next = @ + 1]

(***************************************************************************)
(* What a call does, to the table as the run sees it.                      *)
(***************************************************************************)
\* No two of the rows an index covers have the same key.
NoDuplicates(d, index, kind) ==
    LET covered == {i \in Rows(d) : kind # "live" \/ ~d.rows[i].deleted}
        same(i, j) == /\ d.rows[i].name = d.rows[j].name
                      /\ index = "folded" \/ d.rows[i].lower = d.rows[j].lower
    IN  kind = "plain" \/ \A i, j \in covered : i # j => ~same(i, j)

Succeeds(c, d) ==
    CASE c.op = "stamp" -> d.revision = c.from
      [] c.op = "create_table" -> ~d.schema.table
      [] c.op = "drop_table" -> d.schema.table
      [] c.op = "create_index" -> d.schema[c.index] = "none" /\ NoDuplicates(d, c.index, c.kind)
      [] c.op = "drop_index" -> d.schema[c.index] # "none"
      [] c.op = "add_column" -> d.schema.table /\ ~d.schema.deletedAt
      [] c.op = "drop_column" -> d.schema.deletedAt
      [] OTHER -> d.schema.table

Reshaped(c, schema) ==
    CASE c.op = "create_table" -> [schema EXCEPT !.table = TRUE]
      [] c.op = "drop_table" -> NoTable
      [] c.op = "create_index" -> [schema EXCEPT ![c.index] = c.kind]
      [] c.op = "drop_index" -> [schema EXCEPT ![c.index] = "none"]
      [] c.op = "alter_type" -> [schema EXCEPT !.zoned = c.zoned]
      [] c.op = "alter_default" -> [schema EXCEPT !.defaults = c.default]
      [] c.op = "add_column" -> [schema EXCEPT !.deletedAt = TRUE]
      \* The partial index goes with the column its WHERE names.
      [] c.op = "drop_column" ->
            [schema EXCEPT !.deletedAt = FALSE, !.folded = IF @ = "live" THEN "none" ELSE @]
      [] OTHER -> schema

Rewritten(c, schema, row) ==
    CASE c.op = "drop_table" -> Null
      [] c.op = "drop_column" -> [row EXCEPT !.deleted = FALSE]
      [] c.op = "alter_type" ->
            [row EXCEPT !.moved = @ \/ (~c.using /\ schema.zoned # c.zoned)]
      [] c.op = "execute" -> [row EXCEPT !.lower = TRUE]
      [] OTHER -> row

Effect(c, d) ==
    [revision |-> IF c.op = "stamp" THEN c.to ELSE d.revision,
     schema |-> Reshaped(c, d.schema),
     rows |-> [i \in Ids |-> IF d.rows[i] = Null THEN Null
                             ELSE Rewritten(c, d.schema, d.rows[i])]]

Holds(c) == CASE c.op = "stamp" -> "none" [] c.op = "execute" -> "rows" [] OTHER -> "table"
Stronger(a, b) == IF "table" \in {a, b} THEN "table" ELSE IF a = "none" THEN b ELSE a

(***************************************************************************)
(* migration_guard.py, on the calls above.                                 *)
(***************************************************************************)
\* Variant: before the UPDATE rule.
Matches_NoUpdate(method, words) ==
    \/ method \in {"drop_column", "drop_table", "drop_constraint"}
    \/ method = "execute" /\ "destructive" \in words
    \/ method = "alter_column" /\ words \cap {"type_", "not null"} # {}
    \/ method = "add_column" /\ "not null" \in words /\ "server_default" \notin words
    \/ method \in {"create_index", "drop_index"} /\ "concurrently" \notin words

\* The rules, over the method called on op and what its text holds; which
\* rule comes first decides the wording only.
Matches(method, words) ==
    \/ method \in {"drop_column", "drop_table", "drop_constraint"}
    \/ /\ method = "execute"
       /\ "destructive" \in words \/ ("update" \in words /\ "where" \notin words)
    \/ method = "alter_column" /\ words \cap {"type_", "not null"} # {}
    \/ method = "add_column" /\ "not null" \in words /\ "server_default" \notin words
    \/ method \in {"create_index", "drop_index"} /\ "concurrently" \notin words

\* scan, on a call of this chain: existing_nullable=False is not "not null".
Flagged(c) ==
    CASE c.op = "alter_type" -> Matches("alter_column", {"type_"})
      [] c.op = "alter_default" -> Matches("alter_column", {"server_default"})
      [] c.op = "execute" -> Matches("execute", {"update"})
      [] OTHER -> Matches(c.op, {})

(***************************************************************************)
(* A run of alembic.                                                       *)
(***************************************************************************)
Init ==
    /\ db = [revision |-> 0, schema |-> NoTable, rows |-> [i \in Ids |-> Null]]
    /\ work = Null
    /\ holder = Null
    /\ lock = "none"
    /\ job = [m \in Migrators |-> Null]

\* upgrade head, or downgrade to any revision: the current one is read here.
Begin(m) ==
    /\ job[m] = Null
    /\ \E to \in (0 .. db.revision - 1) \cup ({HeadRevision} \ {db.revision}) :
        job' = [job EXCEPT ![m] = [from |-> db.revision, to |-> to,
                                           at |-> db.revision, next |-> 1]]
    /\ UNCHANGED <<db, work, holder, lock>>

Call(m) == CallOf(job[m])
Sees(m) == IF holder = m THEN work ELSE db

\* Its next call may run: no other run has touched anything.
MayCall(m) ==
    /\ job[m] # Null
    /\ holder \in {Null, m}
    /\ job[m].at # job[m].to

Step(m) ==
    /\ MayCall(m)
    /\ Succeeds(Call(m), Sees(m))
    /\ work' = Effect(Call(m), Sees(m))
    /\ holder' = m
    /\ lock' = Stronger(lock, Holds(Call(m)))
    /\ job' = [job EXCEPT ![m] = Advanced(@)]
    /\ UNCHANGED db

\* Variant: the connection is left open.
Release_Open(m) ==
    /\ work' = Null
    /\ holder' = Null
    /\ UNCHANGED lock
    /\ job' = [job EXCEPT ![m] = Null]

Release(m) ==
    /\ work' = Null
    /\ holder' = Null
    /\ lock' = "none"
    /\ job' = [job EXCEPT ![m] = Null]

Commit(m) ==
    /\ holder = m
    /\ job[m].at = job[m].to
    /\ db' = work
    /\ Release(m)

\* Variant: no transaction around the scripts.
RollBack_Keeps(m) ==
    /\ db' = Sees(m)
    /\ Release(m)

RollBack(m) ==
    /\ db' = db
    /\ Release(m)

\* A call fails, and the transaction with it.
Fail(m) ==
    /\ MayCall(m)
    /\ ~Succeeds(Call(m), Sees(m))
    /\ RollBack(m)

\* The process dies, or its connection does.
Crash(m) ==
    /\ job[m] # Null
    /\ holder \in {Null, m}
    /\ RollBack(m)

(***************************************************************************)
(* The application's writes, as far as the locks of a run let them.        *)
(***************************************************************************)
Write(rows) ==
    /\ db' = [db EXCEPT !.rows = rows]
    /\ work' = IF holder = Null THEN Null
               ELSE [work EXCEPT !.rows =
                        [i \in Ids |-> IF rows[i] = db.rows[i] THEN @[i] ELSE rows[i]]]
    /\ UNCHANGED <<holder, lock, job>>

Insert(i, row) ==
    LET rows == [db.rows EXCEPT ![i] = row]
        after == [db EXCEPT !.rows = rows]
    IN  /\ db.rows[i] = Null
        /\ lock # "table"
        /\ NoDuplicates(after, "folded", IF db.schema.folded = "none" THEN "plain"
                                         ELSE db.schema.folded)
        /\ NoDuplicates(after, "email", db.schema.email)
        /\ Write(rows)

NewRow(n, lower) == [name |-> n, lower |-> lower, deleted |-> FALSE, moved |-> FALSE]

\* The release at head: addresses in lower case, tombstones; on a table
\* without deleted_at its statements fail.
Register(i, n) == db.schema.deletedAt /\ Insert(i, NewRow(n, TRUE))

Delete(i) ==
    /\ db.schema.deletedAt
    /\ lock = "none"
    /\ db.rows[i] # Null /\ ~db.rows[i].deleted
    /\ Write([db.rows EXCEPT ![i].deleted = TRUE])

\* A release before it: any spelling, and rows really deleted.
OldRegister(i, n, lower) == db.schema.table /\ Insert(i, NewRow(n, lower))

OldDelete(i) ==
    /\ db.rows[i] # Null
    /\ lock = "none"
    /\ Write([db.rows EXCEPT ![i] = Null])

Migrate(m) == Begin(m) \/ Step(m) \/ Commit(m) \/ Fail(m) \/ Crash(m)

App ==
    \E i \in Ids :
        \/ Delete(i)
        \/ OldDelete(i)
        \/ \E n \in Names : Register(i, n) \/ \E lower \in BOOLEAN : OldRegister(i, n, lower)

Next == App \/ \E m \in Migrators : Migrate(m)

Spec == Init /\ [][Next]_vars

-----------------------------------------------------------------------------
(***************************************************************************)
(* Properties.                                                             *)
(***************************************************************************)
\* Where a run may be in its plan.
OnPlan(j) ==
    /\ j.from # j.to
    /\ IF Upgrades(j) THEN j.at \in j.from .. j.to ELSE j.at \in j.to .. j.from
    /\ j.next \in 1 .. IF j.at = j.to THEN 1 ELSE Len(Script(j)) + 1

\* The shape of the state: one run at most has touched something, and holds
\* its locks until it ends.
TypeOK ==
    /\ db \in Database
    /\ work \in Database \cup {Null}
    /\ holder \in Migrators \cup {Null}
    /\ lock \in {"none", "rows", "table"}
    /\ job \in [Migrators -> Job \cup {Null}]
    /\ holder = Null <=> work = Null
    /\ IF holder = Null THEN lock = "none" ELSE job[holder] # Null
    /\ \A m \in Migrators : job[m] # Null => OnPlan(job[m])

\* The schema each revision stands for.
SchemaAt ==
    [r \in Revisions |->
        [table |-> r >= 1, zoned |-> r >= 2, defaults |-> r >= 4, deletedAt |-> r >= 5,
         email |-> IF r = 0 THEN "none" ELSE IF r < 3 THEN "unique" ELSE "plain",
         folded |-> IF r < 3 THEN "none" ELSE IF r < 5 THEN "full" ELSE "live"]]

\* The committed schema is the one its revision stands for, and at head the
\* one models.py declares: every downgrade() reverses its upgrade(), no run
\* leaves half of its scripts behind, and a run whose plan was made before
\* another one committed does not apply it to the wrong schema.
SchemaIsRevision ==
    /\ db.schema = SchemaAt[db.revision]
    /\ db.revision = HeadRevision => db.schema = ModelSchema

\* From the folded index on, no address has two live users, whichever
\* release writes and whatever is migrated meanwhile.
LiveAddressesAreUnique ==
    db.revision >= 3 =>
        \A i, j \in Rows(db) :
            i # j /\ ~db.rows[i].deleted /\ ~db.rows[j].deleted => db.rows[i].name # db.rows[j].name

\* Migrating keeps the users: the same rows with the same addresses (but
\* for the case) and the same instants, unless the table goes; upgrading
\* also keeps who is deleted.
UsersAreKept ==
    [][db'.revision \notin {0, db.revision} =>
        /\ Rows(db') = Rows(db)
        /\ \A i \in Rows(db) :
              /\ db'.rows[i].name = db.rows[i].name
              /\ db'.rows[i].moved = db.rows[i].moved
              /\ db'.revision > db.revision => db'.rows[i].deleted = db.rows[i].deleted]_vars

SameName(i, j) == i # j /\ db.rows[i].name = db.rows[j].name

\* A run fails only because another one moved the revision it started from,
\* over addresses that differed in case before the folded index, or, going
\* back behind soft deletion, over a deleted user whose address somebody
\* else has or had: in particular the rewriting to lower case never fails.
FailsForCause ==
    [][\A m \in Migrators : Fail(m) =>
        \/ db.revision # job[m].from
        \/ /\ job[m].from < 3 /\ job[m].to = HeadRevision
           /\ \E i, j \in Rows(db) : SameName(i, j) /\ db.rows[i].lower # db.rows[j].lower
        \/ /\ job[m].from >= 5 /\ job[m].to < 5
           /\ \E i, j \in Rows(db) : SameName(i, j) /\ db.rows[i].deleted]_vars

\* What rewrites or loses rows, or fails on them, is a call the migration
\* guard had flagged when the script was generated.
GuardFlagsWhatBites ==
    [][\A m \in Migrators :
        (\/ Fail(m) /\ db.revision = job[m].from
         \/ Step(m) /\ work'.rows # Sees(m).rows)
        => Flagged(Call(m))]_vars
=============================================================================
