---------------------------- MODULE MigrationProofs -------------------------
(***************************************************************************)
(* Proofs about Migrations, for every set of processes, rows and addresses:*)
(* the schema and its indexes stay those of the committed revision, users  *)
(* survive, scripts fail for known causes only, and the guard flags the    *)
(* calls that bite.                                                        *)
(*                                                                         *)
(* The work is in the calls.  The first lemmas run the twelve scripts call *)
(* by call over the schema; the next say what a call does to the rows; then*)
(* a run that starts on the committed revision is on course after every    *)
(* call, and one whose plan is stale fails at its first stamp.             *)
(***************************************************************************)
EXTENDS Migrations, TLAPS

(***************************************************************************)
(* What the calls make of the schema.                                      *)
(***************************************************************************)

\* The schema of a run that is past the first calls of a script.
SchemaIn(j) ==
    LET first == Reshaped(Script(j)[1], SchemaAt[j.at])
        second == Reshaped(Script(j)[2], first)
        third == Reshaped(Script(j)[3], second)
    IN  IF j.next = 1 THEN SchemaAt[j.at]
        ELSE IF j.next = 2 THEN first
        ELSE IF j.next = 3 THEN second
        ELSE third

\* TRUE and FALSE by a name the provers take as an argument.
Yes == TRUE
No == FALSE

Shape(table, zoned, defaults, deletedAt, email, folded) ==
    [table |-> table, zoned |-> zoned, defaults |-> defaults, deletedAt |-> deletedAt,
     email |-> email, folded |-> folded]

\* What a call makes of the schema.
LEMMA CreateTableShapes ==
    ASSUME NEW t, NEW z, NEW d, NEW e, NEW k, NEW f
    PROVE  Reshaped(CreateTable, Shape(t, z, d, e, k, f)) = Shape(Yes, z, d, e, k, f)
<1> DEFINE s == Shape(t, z, d, e, k, f)
<1>1. \A y : [s EXCEPT !.table = y] = Shape(y, z, d, e, k, f)
  BY DEF Shape
<1> HIDE DEF s
<1>2. Reshaped(CreateTable, s) = Shape(Yes, z, d, e, k, f)
  BY Zenon, <1>1 DEF Reshaped, CreateTable, Yes
<1> QED
  BY Zenon, <1>2 DEF s

LEMMA DropTableShapes ==
    ASSUME NEW t, NEW z, NEW d, NEW e, NEW k, NEW f
    PROVE  Reshaped(DropTable, Shape(t, z, d, e, k, f)) = NoTable
  BY Zenon DEF Reshaped, DropTable

LEMMA AddColumnShapes ==
    ASSUME NEW t, NEW z, NEW d, NEW e, NEW k, NEW f
    PROVE  Reshaped(AddColumn, Shape(t, z, d, e, k, f)) = Shape(t, z, d, Yes, k, f)
<1> DEFINE s == Shape(t, z, d, e, k, f)
<1>1. \A y : [s EXCEPT !.deletedAt = y] = Shape(t, z, d, y, k, f)
  BY DEF Shape
<1> HIDE DEF s
<1>2. Reshaped(AddColumn, s) = Shape(t, z, d, Yes, k, f)
  BY Zenon, <1>1 DEF Reshaped, AddColumn, Yes
<1> QED
  BY Zenon, <1>2 DEF s

LEMMA DropColumnShapes ==
    ASSUME NEW t, NEW z, NEW d, NEW e, NEW k, NEW f, f # "live"
    PROVE  Reshaped(DropColumn, Shape(t, z, d, e, k, f)) = Shape(t, z, d, No, k, f)
<1> DEFINE s == Shape(t, z, d, e, k, f)
<1>1. ASSUME NEW y
      PROVE  [s EXCEPT !.deletedAt = y, !.folded = f] = Shape(t, z, d, y, k, f)
  <2> DEFINE r == [s EXCEPT !.deletedAt = y, !.folded = f]
             u == Shape(t, z, d, y, k, f)
             fields == {"table", "zoned", "defaults", "deletedAt", "email", "folded"}
  <2>1. DOMAIN r = fields /\ r = [x \in fields |-> r[x]]
    BY DEF Shape
  <2>2. DOMAIN u = fields /\ u = [x \in fields |-> u[x]]
    BY DEF Shape
  <2>3. DOMAIN s = fields
    BY DEF Shape
  <2>4. /\ r.table = t /\ r.zoned = z /\ r.defaults = d
        /\ r.deletedAt = y /\ r.email = k /\ r.folded = f
    BY <2>3 DEF Shape
  <2>5. /\ u.table = t /\ u.zoned = z /\ u.defaults = d
        /\ u.deletedAt = y /\ u.email = k /\ u.folded = f
    BY DEF Shape
  <2>6. \A x \in fields : r[x] = u[x]
    BY Zenon, <2>4, <2>5
  <2> HIDE DEF r, u, fields
  <2>7. r = u
    BY <2>1, <2>2, <2>6
  <2> QED
    BY <2>7 DEF r, u
<1>2. s.folded = f
  BY DEF Shape
<1> HIDE DEF s
<1>3. Reshaped(DropColumn, s) = [s EXCEPT !.deletedAt = FALSE, !.folded = f]
  BY Zenon, <1>2 DEF Reshaped, DropColumn
<1>4. Reshaped(DropColumn, s) = Shape(t, z, d, No, k, f)
  BY Zenon, <1>1, <1>3 DEF No
<1> QED
  BY Zenon, <1>4 DEF s

LEMMA ExecuteShapes ==
    ASSUME NEW t, NEW z, NEW d, NEW e, NEW k, NEW f
    PROVE  Reshaped(Execute, Shape(t, z, d, e, k, f)) = Shape(t, z, d, e, k, f)
  BY Zenon DEF Reshaped, Execute

LEMMA CreateEmailShapes ==
    ASSUME NEW t, NEW z, NEW d, NEW e, NEW k, NEW f, NEW kind
    PROVE  Reshaped(CreateIndex("email", kind), Shape(t, z, d, e, k, f))
           = Shape(t, z, d, e, kind, f)
<1> DEFINE s == Shape(t, z, d, e, k, f)
<1>1. \A y : [s EXCEPT !.email = y] = Shape(t, z, d, e, y, f)
  BY DEF Shape
<1> HIDE DEF s
<1>2. Reshaped(CreateIndex("email", kind), s) = Shape(t, z, d, e, kind, f)
  BY Zenon, <1>1 DEF Reshaped, CreateIndex
<1> QED
  BY Zenon, <1>2 DEF s

LEMMA CreateFoldedShapes ==
    ASSUME NEW t, NEW z, NEW d, NEW e, NEW k, NEW f, NEW kind
    PROVE  Reshaped(CreateIndex("folded", kind), Shape(t, z, d, e, k, f))
           = Shape(t, z, d, e, k, kind)
<1> DEFINE s == Shape(t, z, d, e, k, f)
<1>1. \A y : [s EXCEPT !.folded = y] = Shape(t, z, d, e, k, y)
  BY DEF Shape
<1> HIDE DEF s
<1>2. Reshaped(CreateIndex("folded", kind), s) = Shape(t, z, d, e, k, kind)
  BY Zenon, <1>1 DEF Reshaped, CreateIndex
<1> QED
  BY Zenon, <1>2 DEF s

LEMMA DropEmailShapes ==
    ASSUME NEW t, NEW z, NEW d, NEW e, NEW k, NEW f
    PROVE  Reshaped(DropIndex("email"), Shape(t, z, d, e, k, f)) = Shape(t, z, d, e, "none", f)
<1> DEFINE s == Shape(t, z, d, e, k, f)
<1>1. \A y : [s EXCEPT !.email = y] = Shape(t, z, d, e, y, f)
  BY DEF Shape
<1> HIDE DEF s
<1>2. Reshaped(DropIndex("email"), s) = Shape(t, z, d, e, "none", f)
  BY Zenon, <1>1 DEF Reshaped, DropIndex
<1> QED
  BY Zenon, <1>2 DEF s

LEMMA DropFoldedShapes ==
    ASSUME NEW t, NEW z, NEW d, NEW e, NEW k, NEW f
    PROVE  Reshaped(DropIndex("folded"), Shape(t, z, d, e, k, f)) = Shape(t, z, d, e, k, "none")
<1> DEFINE s == Shape(t, z, d, e, k, f)
<1>1. \A y : [s EXCEPT !.folded = y] = Shape(t, z, d, e, k, y)
  BY DEF Shape
<1> HIDE DEF s
<1>2. Reshaped(DropIndex("folded"), s) = Shape(t, z, d, e, k, "none")
  BY Zenon, <1>1 DEF Reshaped, DropIndex
<1> QED
  BY Zenon, <1>2 DEF s

LEMMA AlterTypeShapes ==
    ASSUME NEW t, NEW z, NEW d, NEW e, NEW k, NEW f, NEW zoned, NEW using
    PROVE  Reshaped(AlterType(zoned, using), Shape(t, z, d, e, k, f)) = Shape(t, zoned, d, e, k, f)
<1> DEFINE s == Shape(t, z, d, e, k, f)
<1>1. \A y : [s EXCEPT !.zoned = y] = Shape(t, y, d, e, k, f)
  BY DEF Shape
<1> HIDE DEF s
<1>2. Reshaped(AlterType(zoned, using), s) = Shape(t, zoned, d, e, k, f)
  BY Zenon, <1>1 DEF Reshaped, AlterType
<1> QED
  BY Zenon, <1>2 DEF s

LEMMA AlterDefaultShapes ==
    ASSUME NEW t, NEW z, NEW d, NEW e, NEW k, NEW f, NEW default
    PROVE  Reshaped(AlterDefault(default), Shape(t, z, d, e, k, f)) = Shape(t, z, default, e, k, f)
<1> DEFINE s == Shape(t, z, d, e, k, f)
<1>1. \A y : [s EXCEPT !.defaults = y] = Shape(t, z, y, e, k, f)
  BY DEF Shape
<1> HIDE DEF s
<1>2. Reshaped(AlterDefault(default), s) = Shape(t, z, default, e, k, f)
  BY Zenon, <1>1 DEF Reshaped, AlterDefault
<1> QED
  BY Zenon, <1>2 DEF s

\* SchemaAt as shapes, one for each revision.
LEMMA SchemaIs ==
    /\ SchemaAt[0] = Shape(No, No, No, No, "none", "none")
    /\ SchemaAt[1] = Shape(Yes, No, No, No, "unique", "none")
    /\ SchemaAt[2] = Shape(Yes, Yes, No, No, "unique", "none")
    /\ SchemaAt[3] = Shape(Yes, Yes, No, No, "plain", "full")
    /\ SchemaAt[4] = Shape(Yes, Yes, Yes, No, "plain", "full")
    /\ SchemaAt[5] = Shape(Yes, Yes, Yes, Yes, "plain", "live")
    /\ SchemaAt[6] = Shape(Yes, Yes, Yes, Yes, "plain", "live")
<1>1. SchemaAt[0] = Shape(0 >= 1, 0 >= 2, 0 >= 4, 0 >= 5, "none", "none")
  BY DEF SchemaAt, Shape, Revisions, HeadRevision
<1>2. SchemaAt[1] = Shape(1 >= 1, 1 >= 2, 1 >= 4, 1 >= 5, "unique", "none")
  BY DEF SchemaAt, Shape, Revisions, HeadRevision
<1>3. SchemaAt[2] = Shape(2 >= 1, 2 >= 2, 2 >= 4, 2 >= 5, "unique", "none")
  BY DEF SchemaAt, Shape, Revisions, HeadRevision
<1>4. SchemaAt[3] = Shape(3 >= 1, 3 >= 2, 3 >= 4, 3 >= 5, "plain", "full")
  BY DEF SchemaAt, Shape, Revisions, HeadRevision
<1>5. SchemaAt[4] = Shape(4 >= 1, 4 >= 2, 4 >= 4, 4 >= 5, "plain", "full")
  BY DEF SchemaAt, Shape, Revisions, HeadRevision
<1>6. SchemaAt[5] = Shape(5 >= 1, 5 >= 2, 5 >= 4, 5 >= 5, "plain", "live")
  BY DEF SchemaAt, Shape, Revisions, HeadRevision
<1>7. SchemaAt[6] = Shape(6 >= 1, 6 >= 2, 6 >= 4, 6 >= 5, "plain", "live")
  BY DEF SchemaAt, Shape, Revisions, HeadRevision
<1>8. /\ (0 >= 1) = FALSE /\ (0 >= 2) = FALSE /\ (0 >= 4) = FALSE /\ (0 >= 5) = FALSE
      /\ (1 >= 1) = TRUE /\ (1 >= 2) = FALSE /\ (1 >= 4) = FALSE /\ (1 >= 5) = FALSE
      /\ (2 >= 1) = TRUE /\ (2 >= 2) = TRUE /\ (2 >= 4) = FALSE /\ (2 >= 5) = FALSE
      /\ (3 >= 1) = TRUE /\ (3 >= 2) = TRUE /\ (3 >= 4) = FALSE /\ (3 >= 5) = FALSE
      /\ (4 >= 1) = TRUE /\ (4 >= 2) = TRUE /\ (4 >= 4) = TRUE /\ (4 >= 5) = FALSE
      /\ (5 >= 1) = TRUE /\ (5 >= 2) = TRUE /\ (5 >= 4) = TRUE /\ (5 >= 5) = TRUE
      /\ (6 >= 1) = TRUE /\ (6 >= 2) = TRUE /\ (6 >= 4) = TRUE /\ (6 >= 5) = TRUE
  OBVIOUS
<1> QED
  BY Zenon, <1>1, <1>2, <1>3, <1>4, <1>5, <1>6, <1>7, <1>8 DEF Yes, No

\* A run between two scripts sees the schema of the revision it is at.
LEMMA SchemaSteps ==
    ASSUME NEW j
    PROVE  /\ j.next = 1 => SchemaIn(j) = SchemaAt[j.at]
           /\ j.next = 2 => SchemaIn(j) = Reshaped(Script(j)[1], SchemaAt[j.at])
           /\ j.next = 3 =>
                 SchemaIn(j) = Reshaped(Script(j)[2], Reshaped(Script(j)[1], SchemaAt[j.at]))
           /\ j.next = 4 => SchemaIn(j) = Reshaped(Script(j)[3],
                               Reshaped(Script(j)[2], Reshaped(Script(j)[1], SchemaAt[j.at])))
  BY DEF SchemaIn

\* What the calls of each script meet on their way, and that the last one
\* leaves the schema of the next revision: an upgrade() and its downgrade()
\* reverse each other.
LEMMA InitUpRuns ==
    ASSUME NEW j \in Job, Upgrades(j), j.at = 0, j.next \in 1 .. Len(Script(j)) + 1
    PROVE  /\ j.next \in 1 .. 3
           /\ j.next = 1 => /\ ~ScriptDone(j) /\ CallOf(j) = CreateTable
                            /\ SchemaIn(j) = Shape(No, No, No, No, "none", "none")
           /\ j.next = 2 => /\ ~ScriptDone(j) /\ CallOf(j) = CreateIndex("email", "unique")
                            /\ SchemaIn(j) = Shape(Yes, No, No, No, "none", "none")
           /\ j.next = 3 => /\ ScriptDone(j) /\ CallOf(j) = Stamp(0, 1)
                            /\ SchemaIn(j) = Shape(Yes, No, No, No, "unique", "none")
<1>1. Script(j) = InitUp /\ Following(j) = 1 /\ j.next \in Nat
  BY DEF Script, Ups, Following, Job
<1>2. /\ Len(InitUp) = 2
      /\ InitUp[1] = CreateTable
      /\ InitUp[2] = CreateIndex("email", "unique")
  BY DEF InitUp
<1>3. /\ j.next \in 1 .. 3
      /\ j.next = 1 => ~ScriptDone(j) /\ CallOf(j) = CreateTable
      /\ j.next = 2 => ~ScriptDone(j) /\ CallOf(j) = CreateIndex("email", "unique")
      /\ j.next = 3 => ScriptDone(j) /\ CallOf(j) = Stamp(0, 1)
  BY <1>1, <1>2 DEF ScriptDone, CallOf
<1>4. Reshaped(CreateTable, Shape(No, No, No, No, "none", "none"))
        = Shape(Yes, No, No, No, "none", "none")
  BY CreateTableShapes
<1>5. Reshaped(CreateIndex("email", "unique"), Shape(Yes, No, No, No, "none", "none"))
        = Shape(Yes, No, No, No, "unique", "none")
  BY CreateEmailShapes
<1>6. j.next = 1 => SchemaIn(j) = Shape(No, No, No, No, "none", "none")
  BY ZenonT(60), <1>1, <1>2, SchemaIs, SchemaSteps
<1>7. j.next = 2 => SchemaIn(j) = Shape(Yes, No, No, No, "none", "none")
  BY ZenonT(60), <1>1, <1>2, SchemaIs, <1>4, SchemaSteps
<1>8. j.next = 3 => SchemaIn(j) = Shape(Yes, No, No, No, "unique", "none")
  BY ZenonT(60), <1>1, <1>2, SchemaIs, <1>4, <1>5, SchemaSteps
<1> QED
  BY Zenon, <1>3, <1>6, <1>7, <1>8

LEMMA ZonedUpRuns ==
    ASSUME NEW j \in Job, Upgrades(j), j.at = 1, j.next \in 1 .. Len(Script(j)) + 1
    PROVE  /\ j.next \in 1 .. 2
           /\ j.next = 1 => /\ ~ScriptDone(j) /\ CallOf(j) = AlterType(Yes, Yes)
                            /\ SchemaIn(j) = Shape(Yes, No, No, No, "unique", "none")
           /\ j.next = 2 => /\ ScriptDone(j) /\ CallOf(j) = Stamp(1, 2)
                            /\ SchemaIn(j) = Shape(Yes, Yes, No, No, "unique", "none")
<1>1. Script(j) = ZonedUp /\ Following(j) = 2 /\ j.next \in Nat
  BY DEF Script, Ups, Following, Job
<1>2. /\ Len(ZonedUp) = 1
      /\ ZonedUp[1] = AlterType(Yes, Yes)
  BY DEF ZonedUp, Yes, No
<1>3. /\ j.next \in 1 .. 2
      /\ j.next = 1 => ~ScriptDone(j) /\ CallOf(j) = AlterType(Yes, Yes)
      /\ j.next = 2 => ScriptDone(j) /\ CallOf(j) = Stamp(1, 2)
  BY <1>1, <1>2 DEF ScriptDone, CallOf
<1>4. Reshaped(AlterType(Yes, Yes), Shape(Yes, No, No, No, "unique", "none"))
        = Shape(Yes, Yes, No, No, "unique", "none")
  BY AlterTypeShapes
<1>5. j.next = 1 => SchemaIn(j) = Shape(Yes, No, No, No, "unique", "none")
  BY ZenonT(60), <1>1, <1>2, SchemaIs, SchemaSteps
<1>6. j.next = 2 => SchemaIn(j) = Shape(Yes, Yes, No, No, "unique", "none")
  BY ZenonT(60), <1>1, <1>2, SchemaIs, <1>4, SchemaSteps
<1> QED
  BY Zenon, <1>3, <1>5, <1>6

LEMMA FoldedUpRuns ==
    ASSUME NEW j \in Job, Upgrades(j), j.at = 2, j.next \in 1 .. Len(Script(j)) + 1
    PROVE  /\ j.next \in 1 .. 4
           /\ j.next = 1 => /\ ~ScriptDone(j) /\ CallOf(j) = DropIndex("email")
                            /\ SchemaIn(j) = Shape(Yes, Yes, No, No, "unique", "none")
           /\ j.next = 2 => /\ ~ScriptDone(j) /\ CallOf(j) = CreateIndex("email", "plain")
                            /\ SchemaIn(j) = Shape(Yes, Yes, No, No, "none", "none")
           /\ j.next = 3 => /\ ~ScriptDone(j) /\ CallOf(j) = CreateIndex("folded", "full")
                            /\ SchemaIn(j) = Shape(Yes, Yes, No, No, "plain", "none")
           /\ j.next = 4 => /\ ScriptDone(j) /\ CallOf(j) = Stamp(2, 3)
                            /\ SchemaIn(j) = Shape(Yes, Yes, No, No, "plain", "full")
<1>1. Script(j) = FoldedUp /\ Following(j) = 3 /\ j.next \in Nat
  BY DEF Script, Ups, Following, Job
<1>2. /\ Len(FoldedUp) = 3
      /\ FoldedUp[1] = DropIndex("email")
      /\ FoldedUp[2] = CreateIndex("email", "plain")
      /\ FoldedUp[3] = CreateIndex("folded", "full")
  BY DEF FoldedUp
<1>3. /\ j.next \in 1 .. 4
      /\ j.next = 1 => ~ScriptDone(j) /\ CallOf(j) = DropIndex("email")
      /\ j.next = 2 => ~ScriptDone(j) /\ CallOf(j) = CreateIndex("email", "plain")
      /\ j.next = 3 => ~ScriptDone(j) /\ CallOf(j) = CreateIndex("folded", "full")
      /\ j.next = 4 => ScriptDone(j) /\ CallOf(j) = Stamp(2, 3)
  BY <1>1, <1>2 DEF ScriptDone, CallOf
<1>4. Reshaped(DropIndex("email"), Shape(Yes, Yes, No, No, "unique", "none"))
        = Shape(Yes, Yes, No, No, "none", "none")
  BY DropEmailShapes
<1>5. Reshaped(CreateIndex("email", "plain"), Shape(Yes, Yes, No, No, "none", "none"))
        = Shape(Yes, Yes, No, No, "plain", "none")
  BY CreateEmailShapes
<1>6. Reshaped(CreateIndex("folded", "full"), Shape(Yes, Yes, No, No, "plain", "none"))
        = Shape(Yes, Yes, No, No, "plain", "full")
  BY CreateFoldedShapes
<1>7. j.next = 1 => SchemaIn(j) = Shape(Yes, Yes, No, No, "unique", "none")
  BY ZenonT(60), <1>1, <1>2, SchemaIs, SchemaSteps
<1>8. j.next = 2 => SchemaIn(j) = Shape(Yes, Yes, No, No, "none", "none")
  BY ZenonT(60), <1>1, <1>2, SchemaIs, <1>4, SchemaSteps
<1>9. j.next = 3 => SchemaIn(j) = Shape(Yes, Yes, No, No, "plain", "none")
  BY ZenonT(60), <1>1, <1>2, SchemaIs, <1>4, <1>5, SchemaSteps
<1>10. j.next = 4 => SchemaIn(j) = Shape(Yes, Yes, No, No, "plain", "full")
  BY ZenonT(60), <1>1, <1>2, SchemaIs, <1>4, <1>5, <1>6, SchemaSteps
<1> QED
  BY Zenon, <1>3, <1>7, <1>8, <1>9, <1>10

LEMMA DefaultsUpRuns ==
    ASSUME NEW j \in Job, Upgrades(j), j.at = 3, j.next \in 1 .. Len(Script(j)) + 1
    PROVE  /\ j.next \in 1 .. 2
           /\ j.next = 1 => /\ ~ScriptDone(j) /\ CallOf(j) = AlterDefault(Yes)
                            /\ SchemaIn(j) = Shape(Yes, Yes, No, No, "plain", "full")
           /\ j.next = 2 => /\ ScriptDone(j) /\ CallOf(j) = Stamp(3, 4)
                            /\ SchemaIn(j) = Shape(Yes, Yes, Yes, No, "plain", "full")
<1>1. Script(j) = DefaultsUp /\ Following(j) = 4 /\ j.next \in Nat
  BY DEF Script, Ups, Following, Job
<1>2. /\ Len(DefaultsUp) = 1
      /\ DefaultsUp[1] = AlterDefault(Yes)
  BY DEF DefaultsUp, Yes, No
<1>3. /\ j.next \in 1 .. 2
      /\ j.next = 1 => ~ScriptDone(j) /\ CallOf(j) = AlterDefault(Yes)
      /\ j.next = 2 => ScriptDone(j) /\ CallOf(j) = Stamp(3, 4)
  BY <1>1, <1>2 DEF ScriptDone, CallOf
<1>4. Reshaped(AlterDefault(Yes), Shape(Yes, Yes, No, No, "plain", "full"))
        = Shape(Yes, Yes, Yes, No, "plain", "full")
  BY AlterDefaultShapes
<1>5. j.next = 1 => SchemaIn(j) = Shape(Yes, Yes, No, No, "plain", "full")
  BY ZenonT(60), <1>1, <1>2, SchemaIs, SchemaSteps
<1>6. j.next = 2 => SchemaIn(j) = Shape(Yes, Yes, Yes, No, "plain", "full")
  BY ZenonT(60), <1>1, <1>2, SchemaIs, <1>4, SchemaSteps
<1> QED
  BY Zenon, <1>3, <1>5, <1>6

LEMMA SoftDeleteUpRuns ==
    ASSUME NEW j \in Job, Upgrades(j), j.at = 4, j.next \in 1 .. Len(Script(j)) + 1
    PROVE  /\ j.next \in 1 .. 4
           /\ j.next = 1 => /\ ~ScriptDone(j) /\ CallOf(j) = AddColumn
                            /\ SchemaIn(j) = Shape(Yes, Yes, Yes, No, "plain", "full")
           /\ j.next = 2 => /\ ~ScriptDone(j) /\ CallOf(j) = DropIndex("folded")
                            /\ SchemaIn(j) = Shape(Yes, Yes, Yes, Yes, "plain", "full")
           /\ j.next = 3 => /\ ~ScriptDone(j) /\ CallOf(j) = CreateIndex("folded", "live")
                            /\ SchemaIn(j) = Shape(Yes, Yes, Yes, Yes, "plain", "none")
           /\ j.next = 4 => /\ ScriptDone(j) /\ CallOf(j) = Stamp(4, 5)
                            /\ SchemaIn(j) = Shape(Yes, Yes, Yes, Yes, "plain", "live")
<1>1. Script(j) = SoftDeleteUp /\ Following(j) = 5 /\ j.next \in Nat
  BY DEF Script, Ups, Following, Job
<1>2. /\ Len(SoftDeleteUp) = 3
      /\ SoftDeleteUp[1] = AddColumn
      /\ SoftDeleteUp[2] = DropIndex("folded")
      /\ SoftDeleteUp[3] = CreateIndex("folded", "live")
  BY DEF SoftDeleteUp
<1>3. /\ j.next \in 1 .. 4
      /\ j.next = 1 => ~ScriptDone(j) /\ CallOf(j) = AddColumn
      /\ j.next = 2 => ~ScriptDone(j) /\ CallOf(j) = DropIndex("folded")
      /\ j.next = 3 => ~ScriptDone(j) /\ CallOf(j) = CreateIndex("folded", "live")
      /\ j.next = 4 => ScriptDone(j) /\ CallOf(j) = Stamp(4, 5)
  BY <1>1, <1>2 DEF ScriptDone, CallOf
<1>4. Reshaped(AddColumn, Shape(Yes, Yes, Yes, No, "plain", "full"))
        = Shape(Yes, Yes, Yes, Yes, "plain", "full")
  BY AddColumnShapes
<1>5. Reshaped(DropIndex("folded"), Shape(Yes, Yes, Yes, Yes, "plain", "full"))
        = Shape(Yes, Yes, Yes, Yes, "plain", "none")
  BY DropFoldedShapes
<1>6. Reshaped(CreateIndex("folded", "live"), Shape(Yes, Yes, Yes, Yes, "plain", "none"))
        = Shape(Yes, Yes, Yes, Yes, "plain", "live")
  BY CreateFoldedShapes
<1>7. j.next = 1 => SchemaIn(j) = Shape(Yes, Yes, Yes, No, "plain", "full")
  BY ZenonT(60), <1>1, <1>2, SchemaIs, SchemaSteps
<1>8. j.next = 2 => SchemaIn(j) = Shape(Yes, Yes, Yes, Yes, "plain", "full")
  BY ZenonT(60), <1>1, <1>2, SchemaIs, <1>4, SchemaSteps
<1>9. j.next = 3 => SchemaIn(j) = Shape(Yes, Yes, Yes, Yes, "plain", "none")
  BY ZenonT(60), <1>1, <1>2, SchemaIs, <1>4, <1>5, SchemaSteps
<1>10. j.next = 4 => SchemaIn(j) = Shape(Yes, Yes, Yes, Yes, "plain", "live")
  BY ZenonT(60), <1>1, <1>2, SchemaIs, <1>4, <1>5, <1>6, SchemaSteps
<1> QED
  BY Zenon, <1>3, <1>7, <1>8, <1>9, <1>10

LEMMA LowerUpRuns ==
    ASSUME NEW j \in Job, Upgrades(j), j.at = 5, j.next \in 1 .. Len(Script(j)) + 1
    PROVE  /\ j.next \in 1 .. 2
           /\ j.next = 1 => /\ ~ScriptDone(j) /\ CallOf(j) = Execute
                            /\ SchemaIn(j) = Shape(Yes, Yes, Yes, Yes, "plain", "live")
           /\ j.next = 2 => /\ ScriptDone(j) /\ CallOf(j) = Stamp(5, 6)
                            /\ SchemaIn(j) = Shape(Yes, Yes, Yes, Yes, "plain", "live")
<1>1. Script(j) = LowerUp /\ Following(j) = 6 /\ j.next \in Nat
  BY DEF Script, Ups, Following, Job
<1>2. /\ Len(LowerUp) = 1
      /\ LowerUp[1] = Execute
  BY DEF LowerUp
<1>3. /\ j.next \in 1 .. 2
      /\ j.next = 1 => ~ScriptDone(j) /\ CallOf(j) = Execute
      /\ j.next = 2 => ScriptDone(j) /\ CallOf(j) = Stamp(5, 6)
  BY <1>1, <1>2 DEF ScriptDone, CallOf
<1>4. Reshaped(Execute, Shape(Yes, Yes, Yes, Yes, "plain", "live"))
        = Shape(Yes, Yes, Yes, Yes, "plain", "live")
  BY ExecuteShapes
<1>5. j.next = 1 => SchemaIn(j) = Shape(Yes, Yes, Yes, Yes, "plain", "live")
  BY ZenonT(60), <1>1, <1>2, SchemaIs, SchemaSteps
<1>6. j.next = 2 => SchemaIn(j) = Shape(Yes, Yes, Yes, Yes, "plain", "live")
  BY ZenonT(60), <1>1, <1>2, SchemaIs, <1>4, SchemaSteps
<1> QED
  BY Zenon, <1>3, <1>5, <1>6

LEMMA InitDownRuns ==
    ASSUME NEW j \in Job, ~Upgrades(j), j.at = 1, j.next \in 1 .. Len(Script(j)) + 1
    PROVE  /\ j.next \in 1 .. 3
           /\ j.next = 1 => /\ ~ScriptDone(j) /\ CallOf(j) = DropIndex("email")
                            /\ SchemaIn(j) = Shape(Yes, No, No, No, "unique", "none")
           /\ j.next = 2 => /\ ~ScriptDone(j) /\ CallOf(j) = DropTable
                            /\ SchemaIn(j) = Shape(Yes, No, No, No, "none", "none")
           /\ j.next = 3 => /\ ScriptDone(j) /\ CallOf(j) = Stamp(1, 0)
                            /\ SchemaIn(j) = Shape(No, No, No, No, "none", "none")
<1>1. Script(j) = InitDown /\ Following(j) = 0 /\ j.next \in Nat
  BY DEF Script, Downs, Following, Job
<1>2. /\ Len(InitDown) = 2
      /\ InitDown[1] = DropIndex("email")
      /\ InitDown[2] = DropTable
  BY DEF InitDown
<1>3. /\ j.next \in 1 .. 3
      /\ j.next = 1 => ~ScriptDone(j) /\ CallOf(j) = DropIndex("email")
      /\ j.next = 2 => ~ScriptDone(j) /\ CallOf(j) = DropTable
      /\ j.next = 3 => ScriptDone(j) /\ CallOf(j) = Stamp(1, 0)
  BY <1>1, <1>2 DEF ScriptDone, CallOf
<1>4. Reshaped(DropIndex("email"), Shape(Yes, No, No, No, "unique", "none"))
        = Shape(Yes, No, No, No, "none", "none")
  BY DropEmailShapes
<1>5. Reshaped(DropTable, Shape(Yes, No, No, No, "none", "none"))
        = Shape(No, No, No, No, "none", "none")
  BY DropTableShapes DEF NoTable, Shape, No
<1>6. j.next = 1 => SchemaIn(j) = Shape(Yes, No, No, No, "unique", "none")
  BY ZenonT(60), <1>1, <1>2, SchemaIs, SchemaSteps
<1>7. j.next = 2 => SchemaIn(j) = Shape(Yes, No, No, No, "none", "none")
  BY ZenonT(60), <1>1, <1>2, SchemaIs, <1>4, SchemaSteps
<1>8. j.next = 3 => SchemaIn(j) = Shape(No, No, No, No, "none", "none")
  BY ZenonT(60), <1>1, <1>2, SchemaIs, <1>4, <1>5, SchemaSteps
<1> QED
  BY Zenon, <1>3, <1>6, <1>7, <1>8

LEMMA ZonedDownRuns ==
    ASSUME NEW j \in Job, ~Upgrades(j), j.at = 2, j.next \in 1 .. Len(Script(j)) + 1
    PROVE  /\ j.next \in 1 .. 2
           /\ j.next = 1 => /\ ~ScriptDone(j) /\ CallOf(j) = AlterType(No, Yes)
                            /\ SchemaIn(j) = Shape(Yes, Yes, No, No, "unique", "none")
           /\ j.next = 2 => /\ ScriptDone(j) /\ CallOf(j) = Stamp(2, 1)
                            /\ SchemaIn(j) = Shape(Yes, No, No, No, "unique", "none")
<1>1. Script(j) = ZonedDown /\ Following(j) = 1 /\ j.next \in Nat
  BY DEF Script, Downs, Following, Job
<1>2. /\ Len(ZonedDown) = 1
      /\ ZonedDown[1] = AlterType(No, Yes)
  BY DEF ZonedDown, Yes, No
<1>3. /\ j.next \in 1 .. 2
      /\ j.next = 1 => ~ScriptDone(j) /\ CallOf(j) = AlterType(No, Yes)
      /\ j.next = 2 => ScriptDone(j) /\ CallOf(j) = Stamp(2, 1)
  BY <1>1, <1>2 DEF ScriptDone, CallOf
<1>4. Reshaped(AlterType(No, Yes), Shape(Yes, Yes, No, No, "unique", "none"))
        = Shape(Yes, No, No, No, "unique", "none")
  BY AlterTypeShapes
<1>5. j.next = 1 => SchemaIn(j) = Shape(Yes, Yes, No, No, "unique", "none")
  BY ZenonT(60), <1>1, <1>2, SchemaIs, SchemaSteps
<1>6. j.next = 2 => SchemaIn(j) = Shape(Yes, No, No, No, "unique", "none")
  BY ZenonT(60), <1>1, <1>2, SchemaIs, <1>4, SchemaSteps
<1> QED
  BY Zenon, <1>3, <1>5, <1>6

LEMMA FoldedDownRuns ==
    ASSUME NEW j \in Job, ~Upgrades(j), j.at = 3, j.next \in 1 .. Len(Script(j)) + 1
    PROVE  /\ j.next \in 1 .. 4
           /\ j.next = 1 => /\ ~ScriptDone(j) /\ CallOf(j) = DropIndex("folded")
                            /\ SchemaIn(j) = Shape(Yes, Yes, No, No, "plain", "full")
           /\ j.next = 2 => /\ ~ScriptDone(j) /\ CallOf(j) = DropIndex("email")
                            /\ SchemaIn(j) = Shape(Yes, Yes, No, No, "plain", "none")
           /\ j.next = 3 => /\ ~ScriptDone(j) /\ CallOf(j) = CreateIndex("email", "unique")
                            /\ SchemaIn(j) = Shape(Yes, Yes, No, No, "none", "none")
           /\ j.next = 4 => /\ ScriptDone(j) /\ CallOf(j) = Stamp(3, 2)
                            /\ SchemaIn(j) = Shape(Yes, Yes, No, No, "unique", "none")
<1>1. Script(j) = FoldedDown /\ Following(j) = 2 /\ j.next \in Nat
  BY DEF Script, Downs, Following, Job
<1>2. /\ Len(FoldedDown) = 3
      /\ FoldedDown[1] = DropIndex("folded")
      /\ FoldedDown[2] = DropIndex("email")
      /\ FoldedDown[3] = CreateIndex("email", "unique")
  BY DEF FoldedDown
<1>3. /\ j.next \in 1 .. 4
      /\ j.next = 1 => ~ScriptDone(j) /\ CallOf(j) = DropIndex("folded")
      /\ j.next = 2 => ~ScriptDone(j) /\ CallOf(j) = DropIndex("email")
      /\ j.next = 3 => ~ScriptDone(j) /\ CallOf(j) = CreateIndex("email", "unique")
      /\ j.next = 4 => ScriptDone(j) /\ CallOf(j) = Stamp(3, 2)
  BY <1>1, <1>2 DEF ScriptDone, CallOf
<1>4. Reshaped(DropIndex("folded"), Shape(Yes, Yes, No, No, "plain", "full"))
        = Shape(Yes, Yes, No, No, "plain", "none")
  BY DropFoldedShapes
<1>5. Reshaped(DropIndex("email"), Shape(Yes, Yes, No, No, "plain", "none"))
        = Shape(Yes, Yes, No, No, "none", "none")
  BY DropEmailShapes
<1>6. Reshaped(CreateIndex("email", "unique"), Shape(Yes, Yes, No, No, "none", "none"))
        = Shape(Yes, Yes, No, No, "unique", "none")
  BY CreateEmailShapes
<1>7. j.next = 1 => SchemaIn(j) = Shape(Yes, Yes, No, No, "plain", "full")
  BY ZenonT(60), <1>1, <1>2, SchemaIs, SchemaSteps
<1>8. j.next = 2 => SchemaIn(j) = Shape(Yes, Yes, No, No, "plain", "none")
  BY ZenonT(60), <1>1, <1>2, SchemaIs, <1>4, SchemaSteps
<1>9. j.next = 3 => SchemaIn(j) = Shape(Yes, Yes, No, No, "none", "none")
  BY ZenonT(60), <1>1, <1>2, SchemaIs, <1>4, <1>5, SchemaSteps
<1>10. j.next = 4 => SchemaIn(j) = Shape(Yes, Yes, No, No, "unique", "none")
  BY ZenonT(60), <1>1, <1>2, SchemaIs, <1>4, <1>5, <1>6, SchemaSteps
<1> QED
  BY Zenon, <1>3, <1>7, <1>8, <1>9, <1>10

LEMMA DefaultsDownRuns ==
    ASSUME NEW j \in Job, ~Upgrades(j), j.at = 4, j.next \in 1 .. Len(Script(j)) + 1
    PROVE  /\ j.next \in 1 .. 2
           /\ j.next = 1 => /\ ~ScriptDone(j) /\ CallOf(j) = AlterDefault(No)
                            /\ SchemaIn(j) = Shape(Yes, Yes, Yes, No, "plain", "full")
           /\ j.next = 2 => /\ ScriptDone(j) /\ CallOf(j) = Stamp(4, 3)
                            /\ SchemaIn(j) = Shape(Yes, Yes, No, No, "plain", "full")
<1>1. Script(j) = DefaultsDown /\ Following(j) = 3 /\ j.next \in Nat
  BY DEF Script, Downs, Following, Job
<1>2. /\ Len(DefaultsDown) = 1
      /\ DefaultsDown[1] = AlterDefault(No)
  BY DEF DefaultsDown, Yes, No
<1>3. /\ j.next \in 1 .. 2
      /\ j.next = 1 => ~ScriptDone(j) /\ CallOf(j) = AlterDefault(No)
      /\ j.next = 2 => ScriptDone(j) /\ CallOf(j) = Stamp(4, 3)
  BY <1>1, <1>2 DEF ScriptDone, CallOf
<1>4. Reshaped(AlterDefault(No), Shape(Yes, Yes, Yes, No, "plain", "full"))
        = Shape(Yes, Yes, No, No, "plain", "full")
  BY AlterDefaultShapes
<1>5. j.next = 1 => SchemaIn(j) = Shape(Yes, Yes, Yes, No, "plain", "full")
  BY ZenonT(60), <1>1, <1>2, SchemaIs, SchemaSteps
<1>6. j.next = 2 => SchemaIn(j) = Shape(Yes, Yes, No, No, "plain", "full")
  BY ZenonT(60), <1>1, <1>2, SchemaIs, <1>4, SchemaSteps
<1> QED
  BY Zenon, <1>3, <1>5, <1>6

LEMMA SoftDeleteDownRuns ==
    ASSUME NEW j \in Job, ~Upgrades(j), j.at = 5, j.next \in 1 .. Len(Script(j)) + 1
    PROVE  /\ j.next \in 1 .. 4
           /\ j.next = 1 => /\ ~ScriptDone(j) /\ CallOf(j) = DropIndex("folded")
                            /\ SchemaIn(j) = Shape(Yes, Yes, Yes, Yes, "plain", "live")
           /\ j.next = 2 => /\ ~ScriptDone(j) /\ CallOf(j) = CreateIndex("folded", "full")
                            /\ SchemaIn(j) = Shape(Yes, Yes, Yes, Yes, "plain", "none")
           /\ j.next = 3 => /\ ~ScriptDone(j) /\ CallOf(j) = DropColumn
                            /\ SchemaIn(j) = Shape(Yes, Yes, Yes, Yes, "plain", "full")
           /\ j.next = 4 => /\ ScriptDone(j) /\ CallOf(j) = Stamp(5, 4)
                            /\ SchemaIn(j) = Shape(Yes, Yes, Yes, No, "plain", "full")
<1>1. Script(j) = SoftDeleteDown /\ Following(j) = 4 /\ j.next \in Nat
  BY DEF Script, Downs, Following, Job
<1>2. /\ Len(SoftDeleteDown) = 3
      /\ SoftDeleteDown[1] = DropIndex("folded")
      /\ SoftDeleteDown[2] = CreateIndex("folded", "full")
      /\ SoftDeleteDown[3] = DropColumn
  BY DEF SoftDeleteDown
<1>3. /\ j.next \in 1 .. 4
      /\ j.next = 1 => ~ScriptDone(j) /\ CallOf(j) = DropIndex("folded")
      /\ j.next = 2 => ~ScriptDone(j) /\ CallOf(j) = CreateIndex("folded", "full")
      /\ j.next = 3 => ~ScriptDone(j) /\ CallOf(j) = DropColumn
      /\ j.next = 4 => ScriptDone(j) /\ CallOf(j) = Stamp(5, 4)
  BY <1>1, <1>2 DEF ScriptDone, CallOf
<1>4. Reshaped(DropIndex("folded"), Shape(Yes, Yes, Yes, Yes, "plain", "live"))
        = Shape(Yes, Yes, Yes, Yes, "plain", "none")
  BY DropFoldedShapes
<1>5. Reshaped(CreateIndex("folded", "full"), Shape(Yes, Yes, Yes, Yes, "plain", "none"))
        = Shape(Yes, Yes, Yes, Yes, "plain", "full")
  BY CreateFoldedShapes
<1>6. Reshaped(DropColumn, Shape(Yes, Yes, Yes, Yes, "plain", "full"))
        = Shape(Yes, Yes, Yes, No, "plain", "full")
  BY DropColumnShapes
<1>7. j.next = 1 => SchemaIn(j) = Shape(Yes, Yes, Yes, Yes, "plain", "live")
  BY ZenonT(60), <1>1, <1>2, SchemaIs, SchemaSteps
<1>8. j.next = 2 => SchemaIn(j) = Shape(Yes, Yes, Yes, Yes, "plain", "none")
  BY ZenonT(60), <1>1, <1>2, SchemaIs, <1>4, SchemaSteps
<1>9. j.next = 3 => SchemaIn(j) = Shape(Yes, Yes, Yes, Yes, "plain", "full")
  BY ZenonT(60), <1>1, <1>2, SchemaIs, <1>4, <1>5, SchemaSteps
<1>10. j.next = 4 => SchemaIn(j) = Shape(Yes, Yes, Yes, No, "plain", "full")
  BY ZenonT(60), <1>1, <1>2, SchemaIs, <1>4, <1>5, <1>6, SchemaSteps
<1> QED
  BY Zenon, <1>3, <1>7, <1>8, <1>9, <1>10

LEMMA LowerDownRuns ==
    ASSUME NEW j \in Job, ~Upgrades(j), j.at = 6, j.next \in 1 .. Len(Script(j)) + 1
    PROVE  /\ j.next \in 1 .. 1
           /\ j.next = 1 => /\ ScriptDone(j) /\ CallOf(j) = Stamp(6, 5)
                            /\ SchemaIn(j) = Shape(Yes, Yes, Yes, Yes, "plain", "live")
<1>1. Script(j) = LowerDown /\ Following(j) = 5 /\ j.next \in Nat
  BY DEF Script, Downs, Following, Job
<1>2. /\ Len(LowerDown) = 0
  BY DEF LowerDown
<1>3. /\ j.next \in 1 .. 1
      /\ j.next = 1 => ScriptDone(j) /\ CallOf(j) = Stamp(6, 5)
  BY <1>1, <1>2 DEF ScriptDone, CallOf
<1>4. j.next = 1 => SchemaIn(j) = Shape(Yes, Yes, Yes, Yes, "plain", "live")
  BY ZenonT(60), <1>1, <1>2, SchemaIs, SchemaSteps
<1> QED
  BY Zenon, <1>3, <1>4

\* The fields of a shape.
LEMMA ShapeFields ==
    ASSUME NEW t, NEW z, NEW d, NEW e, NEW k, NEW f
    PROVE  LET s == Shape(t, z, d, e, k, f)
           IN  s.table = t /\ s.deletedAt = e /\ s.email = k /\ s.folded = f
  BY DEF Shape

\* What a run may be about to call, and the schema it then meets.
CallCase(j, c, s) ==
    \/ /\ c = CreateTable /\ Upgrades(j) /\ j.at = 0
       /\ s.table = No
    \/ /\ c = CreateIndex("email", "unique") /\ j.at \in {0, 3} /\ (j.at = 0 => Upgrades(j))
       /\ s.table = Yes /\ s.email = "none" /\ s.folded = "none"
    \/ /\ c = CreateIndex("email", "plain") /\ Upgrades(j) /\ j.at = 2
       /\ s.table = Yes /\ s.email = "none" /\ s.folded = "none"
    \/ /\ c = CreateIndex("folded", "full") /\ j.at = (IF Upgrades(j) THEN 2 ELSE 5)
       /\ s.table = Yes /\ s.email = "plain" /\ s.folded = "none"
    \/ /\ c = CreateIndex("folded", "live") /\ Upgrades(j) /\ j.at = 4
       /\ s.table = Yes /\ s.email = "plain" /\ s.folded = "none"
    \/ /\ c = DropIndex("email") /\ j.at \in {1, 2, 3}
       /\ s.table = Yes /\ s.email \in {"plain", "unique"} /\ s.folded = "none"
    \/ /\ c = DropIndex("folded") /\ j.at \in {3, 4, 5}
       /\ s.table = Yes /\ s.email = "plain" /\ s.folded \in {"full", "live"}
    \/ /\ \E y \in {Yes, No} : c = AlterType(y, Yes) \/ c = AlterDefault(y)
       /\ s.table = Yes
    \/ /\ c = AddColumn /\ Upgrades(j)
       /\ s.table = Yes /\ s.deletedAt = No
    \/ /\ c = Execute /\ Upgrades(j) /\ j.at = 5
       /\ s.table = Yes /\ s.email = "plain" /\ s.folded = "live"
    \/ /\ c = DropColumn /\ ~Upgrades(j) /\ j.at = 5
       /\ s.table = Yes /\ s.deletedAt = Yes /\ s.email = "plain" /\ s.folded = "full"
    \/ /\ c = DropTable /\ ~Upgrades(j) /\ j.at = 1
       /\ s.table = Yes

\* The same at the end of a script.
StampCase(j, c, s) ==
    /\ c = Stamp(j.at, Following(j))
    /\ s = SchemaAt[Following(j)]

\* These are all the calls there are.
LEMMA CallCases ==
    ASSUME NEW j \in Job, OnPlan(j), j.at # j.to
    PROVE  IF ScriptDone(j) THEN StampCase(j, CallOf(j), SchemaIn(j))
                            ELSE CallCase(j, CallOf(j), SchemaIn(j))
<1>1. j.next \in 1 .. Len(Script(j)) + 1
  BY DEF OnPlan
<1>2. IF Upgrades(j) THEN j.at \in 0 .. 5 ELSE j.at \in 1 .. 6
  BY DEF OnPlan, Job, Upgrades, Revisions, HeadRevision
<1>3. Following(j) = IF Upgrades(j) THEN j.at + 1 ELSE j.at - 1
  BY DEF Following
<1>4. CASE Upgrades(j) /\ j.at = 0
  <2>1. CASE j.next = 1
    BY <1>1, <1>4, <2>1, InitUpRuns, ShapeFields DEF CallCase
  <2>2. CASE j.next = 2
    BY <1>1, <1>4, <2>2, InitUpRuns, ShapeFields DEF CallCase
  <2>3. CASE j.next = 3
    BY <1>1, <1>3, <1>4, <2>3, InitUpRuns, SchemaIs DEF StampCase
  <2> QED
    BY <1>1, <1>4, <2>1, <2>2, <2>3, InitUpRuns
<1>5. CASE Upgrades(j) /\ j.at = 1
  <2>1. CASE j.next = 1
    BY <1>1, <1>5, <2>1, ZonedUpRuns, ShapeFields DEF CallCase
  <2>2. CASE j.next = 2
    BY <1>1, <1>3, <1>5, <2>2, ZonedUpRuns, SchemaIs DEF StampCase
  <2> QED
    BY <1>1, <1>5, <2>1, <2>2, ZonedUpRuns
<1>6. CASE Upgrades(j) /\ j.at = 2
  <2>1. CASE j.next = 1
    BY <1>1, <1>6, <2>1, FoldedUpRuns, ShapeFields DEF CallCase
  <2>2. CASE j.next = 2
    BY <1>1, <1>6, <2>2, FoldedUpRuns, ShapeFields DEF CallCase
  <2>3. CASE j.next = 3
    BY <1>1, <1>6, <2>3, FoldedUpRuns, ShapeFields DEF CallCase
  <2>4. CASE j.next = 4
    BY <1>1, <1>3, <1>6, <2>4, FoldedUpRuns, SchemaIs DEF StampCase
  <2> QED
    BY <1>1, <1>6, <2>1, <2>2, <2>3, <2>4, FoldedUpRuns
<1>7. CASE Upgrades(j) /\ j.at = 3
  <2>1. CASE j.next = 1
    BY <1>1, <1>7, <2>1, DefaultsUpRuns, ShapeFields DEF CallCase
  <2>2. CASE j.next = 2
    BY <1>1, <1>3, <1>7, <2>2, DefaultsUpRuns, SchemaIs DEF StampCase
  <2> QED
    BY <1>1, <1>7, <2>1, <2>2, DefaultsUpRuns
<1>8. CASE Upgrades(j) /\ j.at = 4
  <2>1. CASE j.next = 1
    BY <1>1, <1>8, <2>1, SoftDeleteUpRuns, ShapeFields DEF CallCase
  <2>2. CASE j.next = 2
    BY <1>1, <1>8, <2>2, SoftDeleteUpRuns, ShapeFields DEF CallCase
  <2>3. CASE j.next = 3
    BY <1>1, <1>8, <2>3, SoftDeleteUpRuns, ShapeFields DEF CallCase
  <2>4. CASE j.next = 4
    BY <1>1, <1>3, <1>8, <2>4, SoftDeleteUpRuns, SchemaIs DEF StampCase
  <2> QED
    BY <1>1, <1>8, <2>1, <2>2, <2>3, <2>4, SoftDeleteUpRuns
<1>9. CASE Upgrades(j) /\ j.at = 5
  <2>1. CASE j.next = 1
    BY <1>1, <1>9, <2>1, LowerUpRuns, ShapeFields DEF CallCase
  <2>2. CASE j.next = 2
    BY <1>1, <1>3, <1>9, <2>2, LowerUpRuns, SchemaIs DEF StampCase
  <2> QED
    BY <1>1, <1>9, <2>1, <2>2, LowerUpRuns
<1>10. CASE ~Upgrades(j) /\ j.at = 1
  <2>1. CASE j.next = 1
    BY <1>1, <1>10, <2>1, InitDownRuns, ShapeFields DEF CallCase
  <2>2. CASE j.next = 2
    BY <1>1, <1>10, <2>2, InitDownRuns, ShapeFields DEF CallCase
  <2>3. CASE j.next = 3
    BY <1>1, <1>3, <1>10, <2>3, InitDownRuns, SchemaIs DEF StampCase
  <2> QED
    BY <1>1, <1>10, <2>1, <2>2, <2>3, InitDownRuns
<1>11. CASE ~Upgrades(j) /\ j.at = 2
  <2>1. CASE j.next = 1
    BY <1>1, <1>11, <2>1, ZonedDownRuns, ShapeFields DEF CallCase
  <2>2. CASE j.next = 2
    BY <1>1, <1>3, <1>11, <2>2, ZonedDownRuns, SchemaIs DEF StampCase
  <2> QED
    BY <1>1, <1>11, <2>1, <2>2, ZonedDownRuns
<1>12. CASE ~Upgrades(j) /\ j.at = 3
  <2>1. CASE j.next = 1
    BY <1>1, <1>12, <2>1, FoldedDownRuns, ShapeFields DEF CallCase
  <2>2. CASE j.next = 2
    BY <1>1, <1>12, <2>2, FoldedDownRuns, ShapeFields DEF CallCase
  <2>3. CASE j.next = 3
    BY <1>1, <1>12, <2>3, FoldedDownRuns, ShapeFields DEF CallCase
  <2>4. CASE j.next = 4
    BY <1>1, <1>3, <1>12, <2>4, FoldedDownRuns, SchemaIs DEF StampCase
  <2> QED
    BY <1>1, <1>12, <2>1, <2>2, <2>3, <2>4, FoldedDownRuns
<1>13. CASE ~Upgrades(j) /\ j.at = 4
  <2>1. CASE j.next = 1
    BY <1>1, <1>13, <2>1, DefaultsDownRuns, ShapeFields DEF CallCase
  <2>2. CASE j.next = 2
    BY <1>1, <1>3, <1>13, <2>2, DefaultsDownRuns, SchemaIs DEF StampCase
  <2> QED
    BY <1>1, <1>13, <2>1, <2>2, DefaultsDownRuns
<1>14. CASE ~Upgrades(j) /\ j.at = 5
  <2>1. CASE j.next = 1
    BY <1>1, <1>14, <2>1, SoftDeleteDownRuns, ShapeFields DEF CallCase
  <2>2. CASE j.next = 2
    BY <1>1, <1>14, <2>2, SoftDeleteDownRuns, ShapeFields DEF CallCase
  <2>3. CASE j.next = 3
    BY <1>1, <1>14, <2>3, SoftDeleteDownRuns, ShapeFields DEF CallCase
  <2>4. CASE j.next = 4
    BY <1>1, <1>3, <1>14, <2>4, SoftDeleteDownRuns, SchemaIs DEF StampCase
  <2> QED
    BY <1>1, <1>14, <2>1, <2>2, <2>3, <2>4, SoftDeleteDownRuns
<1>15. CASE ~Upgrades(j) /\ j.at = 6
  <2>1. CASE j.next = 1
    BY <1>1, <1>3, <1>15, <2>1, LowerDownRuns, SchemaIs DEF StampCase
  <2> QED
    BY <1>1, <1>15, <2>1, LowerDownRuns
<1> QED
  BY <1>2, <1>4, <1>5, <1>6, <1>7, <1>8, <1>9, <1>10, <1>11, <1>12, <1>13, <1>14, <1>15

(***************************************************************************)
(* What a call does to the rows, and when it succeeds.                     *)
(***************************************************************************)
\* A schema is a shape of its fields.
LEMMA SchemaIsShape ==
    ASSUME NEW s \in Schema
    PROVE  s = Shape(s.table, s.zoned, s.defaults, s.deletedAt, s.email, s.folded)
  BY DEF Schema, Shape

LEMMA ShapeType ==
    ASSUME NEW t \in BOOLEAN, NEW z \in BOOLEAN, NEW d \in BOOLEAN, NEW e \in BOOLEAN,
           NEW k \in {"none", "plain", "unique"}, NEW f \in {"none", "plain", "full", "live"}
    PROVE  Shape(t, z, d, e, k, f) \in Schema
  BY DEF Schema, Shape

LEMMA NamesAreBoolean == Yes \in BOOLEAN /\ No \in BOOLEAN /\ Yes # No
  BY DEF Yes, No

\* When the calls of this chain succeed.
LEMMA SuccessIs ==
    ASSUME NEW d
    PROVE  /\ Succeeds(CreateTable, d) <=> ~d.schema.table
           /\ Succeeds(DropTable, d) <=> d.schema.table
           /\ Succeeds(AddColumn, d) <=> d.schema.table /\ ~d.schema.deletedAt
           /\ Succeeds(DropColumn, d) <=> d.schema.deletedAt
           /\ Succeeds(Execute, d) <=> d.schema.table
           /\ \A y, using : Succeeds(AlterType(y, using), d) <=> d.schema.table
           /\ \A y : Succeeds(AlterDefault(y), d) <=> d.schema.table
           /\ \A index, kind : Succeeds(CreateIndex(index, kind), d)
                                 <=> d.schema[index] = "none" /\ NoDuplicates(d, index, kind)
           /\ \A index : Succeeds(DropIndex(index), d) <=> d.schema[index] # "none"
           /\ \A from, to : Succeeds(Stamp(from, to), d) <=> d.revision = from
<1>1. Succeeds(CreateTable, d) <=> ~d.schema.table
  BY Zenon DEF Succeeds, CreateTable
<1>2. Succeeds(DropTable, d) <=> d.schema.table
  BY Zenon DEF Succeeds, DropTable
<1>3. Succeeds(AddColumn, d) <=> d.schema.table /\ ~d.schema.deletedAt
  BY Zenon DEF Succeeds, AddColumn
<1>4. Succeeds(DropColumn, d) <=> d.schema.deletedAt
  BY Zenon DEF Succeeds, DropColumn
<1>5. Succeeds(Execute, d) <=> d.schema.table
  BY Zenon DEF Succeeds, Execute
<1>6. \A y, using : Succeeds(AlterType(y, using), d) <=> d.schema.table
  BY Zenon DEF Succeeds, AlterType
<1>7. \A y : Succeeds(AlterDefault(y), d) <=> d.schema.table
  BY Zenon DEF Succeeds, AlterDefault
<1>8. \A index, kind : Succeeds(CreateIndex(index, kind), d)
                         <=> d.schema[index] = "none" /\ NoDuplicates(d, index, kind)
  BY Zenon DEF Succeeds, CreateIndex
<1>9. \A index : Succeeds(DropIndex(index), d) <=> d.schema[index] # "none"
  BY Zenon DEF Succeeds, DropIndex
<1>10. \A from, to : Succeeds(Stamp(from, to), d) <=> d.revision = from
  BY Zenon DEF Succeeds, Stamp
<1> QED
  BY Zenon, <1>1, <1>2, <1>3, <1>4, <1>5, <1>6, <1>7, <1>8, <1>9, <1>10

\* Only three calls touch a row.
LEMMA RowStays ==
    ASSUME NEW row \in Row, NEW s
    PROVE  /\ Rewritten(CreateTable, s, row) = row
           /\ Rewritten(AddColumn, s, row) = row
           /\ \A y : Rewritten(AlterType(y, Yes), s, row) = row
           /\ \A y : Rewritten(AlterDefault(y), s, row) = row
           /\ \A index, kind : Rewritten(CreateIndex(index, kind), s, row) = row
           /\ \A index : Rewritten(DropIndex(index), s, row) = row
           /\ \A from, to : Rewritten(Stamp(from, to), s, row) = row
<1>1. Rewritten(CreateTable, s, row) = row
  BY Zenon DEF Rewritten, CreateTable
<1>2. Rewritten(AddColumn, s, row) = row
  BY Zenon DEF Rewritten, AddColumn
<1>3. ASSUME NEW y
      PROVE  Rewritten(AlterType(y, Yes), s, row) = row
  <2>1. Rewritten(AlterType(y, Yes), s, row)
          = [row EXCEPT !.moved = @ \/ (~Yes /\ s.zoned # y)]
    BY Zenon DEF Rewritten, AlterType
  <2>2. (row.moved \/ (~Yes /\ s.zoned # y)) = row.moved
    BY Zenon DEF Row, Yes
  <2>3. [row EXCEPT !.moved = row.moved] = row
    BY DEF Row
  <2> QED
    BY Zenon, <2>1, <2>2, <2>3
<1>4. \A y : Rewritten(AlterDefault(y), s, row) = row
  BY Zenon DEF Rewritten, AlterDefault
<1>5. \A index, kind : Rewritten(CreateIndex(index, kind), s, row) = row
  BY Zenon DEF Rewritten, CreateIndex
<1>6. \A index : Rewritten(DropIndex(index), s, row) = row
  BY Zenon DEF Rewritten, DropIndex
<1>7. \A from, to : Rewritten(Stamp(from, to), s, row) = row
  BY Zenon DEF Rewritten, Stamp
<1> QED
  BY Zenon, <1>1, <1>2, <1>3, <1>4, <1>5, <1>6, <1>7

\* What those do to it.
LEMMA RowChanges ==
    ASSUME NEW row \in Row, NEW s
    PROVE  /\ Rewritten(DropTable, s, row) = Null
           /\ Rewritten(DropColumn, s, row) = [row EXCEPT !.deleted = FALSE]
           /\ Rewritten(Execute, s, row) = [row EXCEPT !.lower = TRUE]
<1>1. Rewritten(DropTable, s, row) = Null
  BY Zenon DEF Rewritten, DropTable
<1>2. Rewritten(DropColumn, s, row) = [row EXCEPT !.deleted = FALSE]
  BY Zenon DEF Rewritten, DropColumn
<1>3. Rewritten(Execute, s, row) = [row EXCEPT !.lower = TRUE]
  BY Zenon DEF Rewritten, Execute
<1> QED
  BY Zenon, <1>1, <1>2, <1>3

\* The stamp, alembic's checked update, succeeds only on the revision it was
\* planned for, and moves that alone.
LEMMA StampIs ==
    ASSUME NEW c, NEW d
    PROVE  /\ \A from, to : c = Stamp(from, to) => Effect(c, d).revision = to
           /\ Effect(c, d).schema = Reshaped(c, d.schema)
           /\ c.op # "stamp" => Effect(c, d).revision = d.revision
           /\ \A from, to, s : Reshaped(Stamp(from, to), s) = s
<1>1. \A from, to : c = Stamp(from, to) => Effect(c, d).revision = to
  BY DEF Effect, Stamp
<1>2. Effect(c, d).schema = Reshaped(c, d.schema)
  BY DEF Effect
<1>3. c.op # "stamp" => Effect(c, d).revision = d.revision
  BY DEF Effect
<1>4. \A from, to, s : Reshaped(Stamp(from, to), s) = s
  BY DEF Reshaped, Stamp
<1> QED
  BY Zenon, <1>1, <1>2, <1>3, <1>4

\* Rows are neither made nor lost by a call, but for the dropped table.
LEMMA EffectRows ==
    ASSUME NEW c, NEW d \in Database
    PROVE  /\ \A i \in Ids : Effect(c, d).rows[i] =
                 IF d.rows[i] = Null THEN Null ELSE Rewritten(c, d.schema, d.rows[i])
           /\ (\A row \in Row : Rewritten(c, d.schema, row) = row) => Effect(c, d).rows = d.rows
<1>1. d.rows \in [Ids -> Row \cup {Null}]
  BY DEF Database
<1>2. Effect(c, d).rows = [i \in Ids |-> IF d.rows[i] = Null THEN Null
                                         ELSE Rewritten(c, d.schema, d.rows[i])]
  BY DEF Effect
<1> QED
  BY <1>1, <1>2

\* A call of a script is no stamp.
LEMMA CallOp ==
    ASSUME NEW j, NEW c, NEW s, CallCase(j, c, s)
    PROVE  c.op # "stamp"
  BY DEF CallCase, CreateTable, CreateIndex, DropIndex, AlterType, AlterDefault, AddColumn,
         Execute, DropColumn, DropTable

(***************************************************************************)
(* A run on its plan.                                                      *)
(***************************************************************************)
\* The rows satisfy the unique indexes, and without a table there are none.
Sound(d) ==
    /\ d.schema.email = "unique" => NoDuplicates(d, "email", "unique")
    /\ d.schema.folded = "full" => NoDuplicates(d, "folded", "full")
    /\ d.schema.folded = "live" => NoDuplicates(d, "folded", "live")
    /\ ~d.schema.table => Rows(d) = {}

\* What the run j has left of the rows of old: all, until a downgrade drops
\* the table; who is deleted, until it drops the column; the spelling, until
\* an upgrade rewrites it.
Kept(j, old, d) ==
    Upgrades(j) \/ d.schema.table =>
        \A i \in Ids :
            /\ d.rows[i] = Null <=> old.rows[i] = Null
            /\ old.rows[i] # Null =>
                  /\ d.rows[i].name = old.rows[i].name
                  /\ d.rows[i].moved = old.rows[i].moved
                  /\ Upgrades(j) \/ d.schema.deletedAt => d.rows[i].deleted = old.rows[i].deleted
                  /\ Upgrades(j) /\ j.at < 5 => d.rows[i].lower = old.rows[i].lower

\* The run j, begun over old, has brought d where its plan says.
OnCourse(j, old, d) ==
    /\ d.revision = j.at
    /\ d.schema = SchemaIn(j)
    /\ Sound(d)
    /\ j.at \in {3, 4} => NoDuplicates(d, "folded", "full")
    /\ Kept(j, old, d)

LEMMA ScriptLength ==
    ASSUME NEW j, IF Upgrades(j) THEN j.at \in 0 .. 5 ELSE j.at \in 1 .. 6
    PROVE  Len(Script(j)) \in 0 .. 3
<1>1. /\ Len(InitUp) = 2 /\ Len(ZonedUp) = 1 /\ Len(FoldedUp) = 3
      /\ Len(DefaultsUp) = 1 /\ Len(SoftDeleteUp) = 3 /\ Len(LowerUp) = 1
  BY DEF InitUp, ZonedUp, FoldedUp, DefaultsUp, SoftDeleteUp, LowerUp
<1>2. /\ Len(InitDown) = 2 /\ Len(ZonedDown) = 1 /\ Len(FoldedDown) = 3
      /\ Len(DefaultsDown) = 1 /\ Len(SoftDeleteDown) = 3 /\ Len(LowerDown) = 0
  BY DEF InitDown, ZonedDown, FoldedDown, DefaultsDown, SoftDeleteDown, LowerDown
<1> QED
  BY <1>1, <1>2 DEF Script, Ups, Downs

\* Where a plan may stand while it has something left to do.
LEMMA PlanIs ==
    ASSUME NEW j \in Job, OnPlan(j), j.at # j.to
    PROVE  /\ IF Upgrades(j) THEN j.at \in 0 .. 5 ELSE j.at \in 1 .. 6
           /\ Len(Script(j)) \in 0 .. 3 /\ j.next \in 1 .. Len(Script(j)) + 1
<1>1. IF Upgrades(j) THEN j.at \in 0 .. 5 ELSE j.at \in 1 .. 6
  BY DEF OnPlan, Job, Upgrades, Revisions, HeadRevision
<1>2. j.next \in 1 .. Len(Script(j)) + 1
  BY DEF OnPlan
<1> QED
  BY <1>1, <1>2, ScriptLength

\* A call keeps a run on its plan.
LEMMA AdvancedIs ==
    ASSUME NEW j \in Job, OnPlan(j), j.at # j.to
    PROVE  /\ Advanced(j).from = j.from /\ Advanced(j).to = j.to
           /\ Upgrades(Advanced(j)) <=> Upgrades(j)
           /\ IF ScriptDone(j) THEN Advanced(j).at = Following(j) /\ Advanced(j).next = 1
                               ELSE Advanced(j).at = j.at /\ Advanced(j).next = j.next + 1
           /\ Following(j) \in Revisions
           /\ Following(j) = IF Upgrades(j) THEN j.at + 1 ELSE j.at - 1
           /\ Advanced(j) \in Job /\ OnPlan(Advanced(j))
<1>1. /\ Advanced(j).from = j.from /\ Advanced(j).to = j.to
      /\ IF ScriptDone(j) THEN Advanced(j).at = Following(j) /\ Advanced(j).next = 1
                          ELSE Advanced(j).at = j.at /\ Advanced(j).next = j.next + 1
  <2>1. CASE ScriptDone(j)
    BY <2>1 DEF Advanced, Job
  <2>2. CASE ~ScriptDone(j)
    BY <2>2 DEF Advanced, Job
  <2> QED
    BY <2>1, <2>2
<1>2. Upgrades(Advanced(j)) <=> Upgrades(j)
  BY <1>1 DEF Upgrades
<1>3. /\ Following(j) = IF Upgrades(j) THEN j.at + 1 ELSE j.at - 1
      /\ Following(j) \in Revisions
      /\ IF Upgrades(j) THEN Following(j) \in j.from .. j.to ELSE Following(j) \in j.to .. j.from
  BY SMTT(30) DEF Following, OnPlan, Upgrades, Job, Revisions, HeadRevision
<1>4. Advanced(j) \in Job
  <2>1. CASE ScriptDone(j)
    BY <2>1, <1>3 DEF Advanced, Job
  <2>2. CASE ~ScriptDone(j)
    BY <2>2 DEF Advanced, Job
  <2> QED
    BY <2>1, <2>2
<1>5. ~ScriptDone(j) => Script(Advanced(j)) = Script(j)
  BY <1>1, <1>2 DEF Script
<1>6. OnPlan(Advanced(j))
  <2>1. Advanced(j).from # Advanced(j).to
    BY <1>1 DEF OnPlan
  <2>2. IF Upgrades(Advanced(j)) THEN Advanced(j).at \in Advanced(j).from .. Advanced(j).to
                                 ELSE Advanced(j).at \in Advanced(j).to .. Advanced(j).from
    BY <1>1, <1>2, <1>3 DEF OnPlan
  <2>3. j.next \in 1 .. Len(Script(j)) + 1 /\ Len(Script(j)) \in Nat
    BY PlanIs
  <2>4. CASE ~ScriptDone(j)
    <3>1. Advanced(j).next \in 1 .. Len(Script(j)) + 1
      BY <1>1, <2>3, <2>4 DEF ScriptDone
    <3> QED
      BY <1>1, <1>5, <2>1, <2>2, <2>4, <3>1 DEF OnPlan
  <2>5. CASE ScriptDone(j)
    <3> DEFINE k == Advanced(j)
    <3>1. k.at \in Revisions /\ k.from \in Revisions /\ k.to \in Revisions
      BY <1>4 DEF Job
    <3>2. k.at # k.to => Len(Script(k)) \in 0 .. 3
      <4> SUFFICES ASSUME k.at # k.to PROVE IF Upgrades(k) THEN k.at \in 0 .. 5 ELSE k.at \in 1 .. 6
        BY ScriptLength
      <4> QED
        BY <2>2, <3>1 DEF Upgrades, Revisions, HeadRevision
    <3> QED
      BY <1>1, <2>1, <2>2, <2>5, <3>2 DEF OnPlan
  <2> QED
    BY <2>4, <2>5
<1> QED
  BY <1>1, <1>2, <1>3, <1>4, <1>6

\* A call brings the schema where the next one expects it.
LEMMA SchemaAdvances ==
    ASSUME NEW j \in Job, OnPlan(j), j.at # j.to
    PROVE  Reshaped(CallOf(j), SchemaIn(j)) = SchemaIn(Advanced(j))
<1>1. CASE ScriptDone(j)
  <2>1. CallOf(j) = Stamp(j.at, Following(j)) /\ SchemaIn(j) = SchemaAt[Following(j)]
    BY <1>1, CallCases DEF StampCase
  <2>2. SchemaIn(Advanced(j)) = SchemaAt[Following(j)]
    BY <1>1, AdvancedIs DEF SchemaIn
  <2> QED
    BY <2>1, <2>2, StampIs
<1>2. CASE ~ScriptDone(j)
  <2>1. CallOf(j) = Script(j)[j.next]
    BY <1>2 DEF CallOf
  <2>2. j.next \in {1, 2, 3}
    <3>1. Len(Script(j)) \in 0 .. 3 /\ j.next \in 1 .. Len(Script(j)) + 1
      BY PlanIs
    <3>2. \A n, l \in Int : l \in 0 .. 3 /\ n \in 1 .. l + 1 /\ ~(n > l) => n \in {1, 2, 3}
      OBVIOUS
    <3>3. ~(j.next > Len(Script(j))) /\ j.next \in Int /\ Len(Script(j)) \in Int
      BY <1>2, <3>1 DEF ScriptDone, Job
    <3> QED
      BY Zenon, <3>1, <3>2, <3>3
  <2>3. /\ Advanced(j).next = j.next + 1 /\ Advanced(j).at = j.at
        /\ Script(Advanced(j)) = Script(j)
    BY <1>2, AdvancedIs DEF Script
  <2> QED
    BY <2>1, <2>2, <2>3, SchemaSteps
<1> QED
  BY <1>1, <1>2

\* The indexes look at the rows alone.
LEMMA SameRows ==
    ASSUME NEW d, NEW e, e.rows = d.rows
    PROVE  /\ Rows(e) = Rows(d)
           /\ \A index, kind : NoDuplicates(e, index, kind) <=> NoDuplicates(d, index, kind)
  BY DEF Rows, NoDuplicates

(***************************************************************************)
(* A call that succeeds keeps its run on course.                           *)
(***************************************************************************)
Fields(s, table, deletedAt, email, folded) ==
    s.table = table /\ s.deletedAt = deletedAt /\ s.email = email /\ s.folded = folded

\* What each call leaves of the fields the indexes depend on.
LEMMA FieldsAfter ==
    ASSUME NEW s \in Schema
    PROVE  /\ Fields(Reshaped(CreateTable, s), Yes, s.deletedAt, s.email, s.folded)
           /\ Fields(Reshaped(DropTable, s), No, No, "none", "none")
           /\ Fields(Reshaped(AddColumn, s), s.table, Yes, s.email, s.folded)
           /\ s.folded # "live" =>
                 Fields(Reshaped(DropColumn, s), s.table, No, s.email, s.folded)
           /\ Fields(Reshaped(Execute, s), s.table, s.deletedAt, s.email, s.folded)
           /\ \A y, u :
                Fields(Reshaped(AlterType(y, u), s), s.table, s.deletedAt, s.email, s.folded)
           /\ \A y : Fields(Reshaped(AlterDefault(y), s), s.table, s.deletedAt, s.email, s.folded)
           /\ \A y : Fields(Reshaped(CreateIndex("email", y), s), s.table, s.deletedAt, y, s.folded)
           /\ \A y : Fields(Reshaped(CreateIndex("folded", y), s), s.table, s.deletedAt, s.email, y)
           /\ Fields(Reshaped(DropIndex("email"), s), s.table, s.deletedAt, "none", s.folded)
           /\ Fields(Reshaped(DropIndex("folded"), s), s.table, s.deletedAt, s.email, "none")
<1> DEFINE t == s.table  z == s.zoned  d == s.defaults
           e == s.deletedAt  k == s.email  f == s.folded
<1>1. s = Shape(t, z, d, e, k, f)
  BY SchemaIsShape
<1>2. \A a, b, g, h, m, n : Fields(Shape(a, b, g, h, m, n), a, h, m, n)
  BY ShapeFields DEF Fields
<1> HIDE DEF t, z, d, e, k, f
<1>3. Fields(Reshaped(CreateTable, s), Yes, e, k, f)
  BY <1>1, <1>2, CreateTableShapes
<1>4. Fields(Reshaped(DropTable, s), No, No, "none", "none")
  BY <1>1, DropTableShapes DEF NoTable, Fields, No
<1>5. Fields(Reshaped(AddColumn, s), t, Yes, k, f)
  BY <1>1, <1>2, AddColumnShapes
<1>6. f # "live" => Fields(Reshaped(DropColumn, s), t, No, k, f)
  BY <1>1, <1>2, DropColumnShapes
<1>7. Fields(Reshaped(Execute, s), t, e, k, f)
  BY <1>1, <1>2, ExecuteShapes
<1>8. \A y, u : Fields(Reshaped(AlterType(y, u), s), t, e, k, f)
  BY <1>1, <1>2, AlterTypeShapes
<1>9. \A y : Fields(Reshaped(AlterDefault(y), s), t, e, k, f)
  BY <1>1, <1>2, AlterDefaultShapes
<1>10. \A y : Fields(Reshaped(CreateIndex("email", y), s), t, e, y, f)
  BY <1>1, <1>2, CreateEmailShapes
<1>11. \A y : Fields(Reshaped(CreateIndex("folded", y), s), t, e, k, y)
  BY <1>1, <1>2, CreateFoldedShapes
<1>12. Fields(Reshaped(DropIndex("email"), s), t, e, "none", f)
  BY <1>1, <1>2, DropEmailShapes
<1>13. Fields(Reshaped(DropIndex("folded"), s), t, e, k, "none")
  BY <1>1, <1>2, DropFoldedShapes
<1> QED
  BY <1>3, <1>4, <1>5, <1>6, <1>7, <1>8, <1>9, <1>10, <1>11, <1>12, <1>13
     DEF t, z, d, e, k, f

\* Calls that leave the rows alone leave them kept ...
LEMMA KeptStays ==
    ASSUME NEW j, NEW k, NEW old, NEW d, NEW e, e.rows = d.rows, Kept(j, old, d),
           Upgrades(k) <=> Upgrades(j),
           ~Upgrades(k) /\ e.schema.table => d.schema.table,
           ~Upgrades(k) /\ e.schema.deletedAt => d.schema.deletedAt,
           Upgrades(k) /\ k.at < 5 => j.at < 5
    PROVE  Kept(k, old, e)
<1> SUFFICES ASSUME Upgrades(k) \/ e.schema.table, NEW i \in Ids
             PROVE  /\ d.rows[i] = Null <=> old.rows[i] = Null
                    /\ old.rows[i] # Null =>
                          /\ d.rows[i].name = old.rows[i].name
                          /\ d.rows[i].moved = old.rows[i].moved
                          /\ Upgrades(k) \/ e.schema.deletedAt =>
                                d.rows[i].deleted = old.rows[i].deleted
                          /\ Upgrades(k) /\ k.at < 5 => d.rows[i].lower = old.rows[i].lower
  BY DEF Kept
<1> QED
  BY Zenon DEF Kept

\* ... and sound, if they build no index on them.
LEMMA SoundStays ==
    ASSUME NEW d, NEW e, e.rows = d.rows, Sound(d),
           e.schema.email = "unique" =>
               d.schema.email = "unique" \/ NoDuplicates(d, "email", "unique"),
           e.schema.folded = "full" =>
               d.schema.folded = "full" \/ NoDuplicates(d, "folded", "full"),
           e.schema.folded = "live" =>
               d.schema.folded = "live" \/ NoDuplicates(d, "folded", "live"),
           ~e.schema.table => ~d.schema.table
    PROVE  Sound(e)
  BY Zenon, SameRows DEF Sound

LEMMA ChangedRow ==
    ASSUME NEW row \in Row, NEW y \in BOOLEAN
    PROVE  /\ LET r == [row EXCEPT !.lower = y]
              IN  /\ r \in Row /\ r # Null
                  /\ r.name = row.name /\ r.moved = row.moved /\ r.deleted = row.deleted
           /\ LET r == [row EXCEPT !.deleted = y]
              IN  /\ r \in Row /\ r # Null
                  /\ r.name = row.name /\ r.moved = row.moved /\ r.lower = row.lower
<1>1. Null \notin Row
  BY MigrationAssumption
<1>2. [row EXCEPT !.lower = y] \in Row /\ [row EXCEPT !.deleted = y] \in Row
  BY DEF Row
<1> QED
  BY <1>1, <1>2 DEF Row

\* The heart of the argument: a call that succeeds keeps its run on course.
LEMMA CallStaysOnCourse ==
    ASSUME NEW j \in Job, OnPlan(j), j.at # j.to, NEW old, NEW d \in Database,
           OnCourse(j, old, d), Succeeds(CallOf(j), d)
    PROVE  OnCourse(Advanced(j), old, Effect(CallOf(j), d))
<1> DEFINE c == CallOf(j)  k == Advanced(j)  e == Effect(CallOf(j), d)
<1>1. /\ d.schema \in Schema /\ d.rows \in [Ids -> Row \cup {Null}]
      /\ d.schema = SchemaIn(j) /\ d.revision = j.at
  BY DEF Database, OnCourse
<1>2. e.schema = SchemaIn(k) /\ e.schema = Reshaped(c, d.schema)
  BY <1>1, StampIs, SchemaAdvances
<1>3. e.revision = k.at
  BY <1>1, StampIs, AdvancedIs, CallCases, CallOp DEF StampCase
<1>4. /\ Upgrades(k) <=> Upgrades(j)
      /\ IF ScriptDone(j) THEN k.at = Following(j) ELSE k.at = j.at
      /\ Following(j) = IF Upgrades(j) THEN j.at + 1 ELSE j.at - 1
      /\ j.at \in Int
  BY AdvancedIs DEF Job, Revisions
<1>5. /\ Sound(d) /\ Kept(j, old, d)
      /\ j.at \in {3, 4} => NoDuplicates(d, "folded", "full")
  BY DEF OnCourse
<1>6. Succeeds(c, d)
  OBVIOUS
<1>7. /\ \A i \in Ids : e.rows[i] =
              IF d.rows[i] = Null THEN Null ELSE Rewritten(c, d.schema, d.rows[i])
      /\ (\A row \in Row : Rewritten(c, d.schema, row) = row) => e.rows = d.rows
  BY EffectRows
<1>8. IF ScriptDone(j) THEN StampCase(j, c, d.schema) ELSE CallCase(j, c, d.schema)
  BY <1>1, CallCases
<1> SUFFICES Sound(e) /\ Kept(k, old, e) /\ (k.at \in {3, 4} => NoDuplicates(e, "folded", "full"))
  BY <1>2, <1>3 DEF OnCourse
<1> HIDE DEF c, k, e
<1>9. CASE ScriptDone(j)
  <2>1. c = Stamp(j.at, Following(j)) /\ d.schema = SchemaAt[Following(j)]
    BY <1>8, <1>9 DEF StampCase
  <2>2. e.schema = d.schema
    BY <2>1, <1>2, StampIs
  <2>3. e.rows = d.rows
    BY <2>1, <1>7, RowStays
  <2>4. Sound(e)
    BY Zenon, <2>2, <2>3, <1>5, SoundStays
  <2>5. k.at \in {3, 4} => NoDuplicates(e, "folded", "full")
    <3>1. Following(j) \in {3, 4} /\ j.at \notin {3, 4} => d.schema.folded = "full"
      BY <2>1, SchemaIs, ShapeFields
    <3>2. k.at \in {3, 4} => NoDuplicates(d, "folded", "full")
      BY <3>1, <1>4, <1>5, <1>9 DEF Sound
    <3> QED
      BY Zenon, <2>3, <3>2, SameRows
  <2>6. Kept(k, old, e)
    <3>1. Upgrades(k) /\ k.at < 5 => j.at < 5
      BY <1>4, <1>9
    <3> QED
      BY Zenon, <2>2, <2>3, <3>1, <1>4, <1>5, KeptStays
  <2> QED
    BY <2>4, <2>5, <2>6
<1>10. CASE ~ScriptDone(j)
  <2>1. CallCase(j, c, d.schema) /\ k.at = j.at
    BY <1>4, <1>8, <1>10
  <2>2. ASSUME e.rows = d.rows,
               e.schema.email = "unique" =>
                   d.schema.email = "unique" \/ NoDuplicates(d, "email", "unique"),
               e.schema.folded = "full" =>
                   d.schema.folded = "full" \/ NoDuplicates(d, "folded", "full"),
               e.schema.folded = "live" =>
                   d.schema.folded = "live" \/ NoDuplicates(d, "folded", "live"),
               ~e.schema.table => ~d.schema.table,
               ~Upgrades(k) /\ e.schema.table => d.schema.table,
               ~Upgrades(k) /\ e.schema.deletedAt => d.schema.deletedAt
        PROVE  Sound(e) /\ Kept(k, old, e) /\ (k.at \in {3, 4} => NoDuplicates(e, "folded", "full"))
    <3>1. Sound(e)
      BY Zenon, <2>2, <1>5, SoundStays
    <3>2. Kept(k, old, e)
      BY Zenon, <2>1, <2>2, <1>4, <1>5, KeptStays
    <3>3. k.at \in {3, 4} => NoDuplicates(e, "folded", "full")
      BY Zenon, <2>1, <2>2, <1>5, SameRows
    <3> QED
      BY <3>1, <3>2, <3>3
  <2>3. CASE c = CreateTable /\ Upgrades(j) /\ d.schema.table = No
    <3>1. e.rows = d.rows
      BY <2>3, <1>7, RowStays
    <3>2. Fields(e.schema, Yes, d.schema.deletedAt, d.schema.email, d.schema.folded)
      BY <2>3, <1>1, <1>2, FieldsAfter
    <3> QED
      BY <2>2, <2>3, <3>1, <3>2, <1>4 DEF Fields, Yes
  <2>4. CASE \E index \in {"email", "folded"} : \E kind : c = CreateIndex(index, kind)
    <3>0. PICK index \in {"email", "folded"} : \E kind : c = CreateIndex(index, kind)
      BY <2>4
    <3>1. PICK kind : c = CreateIndex(index, kind)
      BY <3>0
    <3>2. e.rows = d.rows
      BY <3>1, <1>7, RowStays
    <3>3. NoDuplicates(d, index, kind)
      BY <3>1, <1>6, SuccessIs
    <3>4. Fields(e.schema, d.schema.table, d.schema.deletedAt,
                 IF index = "email" THEN kind ELSE d.schema.email,
                 IF index = "email" THEN d.schema.folded ELSE kind)
      BY <3>1, <1>1, <1>2, FieldsAfter
    <3> QED
      BY <2>2, <3>2, <3>3, <3>4 DEF Fields
  <2>5. CASE \E index \in {"email", "folded"} : c = DropIndex(index)
    <3>1. PICK index \in {"email", "folded"} : c = DropIndex(index)
      BY <2>5
    <3>2. e.rows = d.rows
      BY <3>1, <1>7, RowStays
    <3>3. Fields(e.schema, d.schema.table, d.schema.deletedAt,
                 IF index = "email" THEN "none" ELSE d.schema.email,
                 IF index = "email" THEN d.schema.folded ELSE "none")
      BY <3>1, <1>1, <1>2, FieldsAfter
    <3> QED
      BY <2>2, <3>2, <3>3 DEF Fields
  <2>6. CASE \E y : c = AlterType(y, Yes) \/ c = AlterDefault(y)
    <3>1. PICK y : c = AlterType(y, Yes) \/ c = AlterDefault(y)
      BY <2>6
    <3>2. e.rows = d.rows
      BY <3>1, <1>7, RowStays
    <3>3. Fields(e.schema, d.schema.table, d.schema.deletedAt, d.schema.email, d.schema.folded)
      BY <3>1, <1>1, <1>2, FieldsAfter
    <3> QED
      BY <2>2, <3>2, <3>3 DEF Fields
  <2>7. CASE c = AddColumn /\ Upgrades(j)
    <3>1. e.rows = d.rows
      BY <2>7, <1>7, RowStays
    <3>2. Fields(e.schema, d.schema.table, Yes, d.schema.email, d.schema.folded)
      BY <2>7, <1>1, <1>2, FieldsAfter
    <3> QED
      BY <2>2, <2>7, <3>1, <3>2, <1>4 DEF Fields
  <2>8. CASE /\ c = Execute /\ Upgrades(j) /\ j.at = 5
             /\ d.schema.table = Yes /\ d.schema.email = "plain" /\ d.schema.folded = "live"
    <3>1. Fields(e.schema, Yes, d.schema.deletedAt, "plain", "live")
      BY <2>8, <1>1, <1>2, FieldsAfter
    <3>2. \A i \in Ids :
              /\ e.rows[i] = Null <=> d.rows[i] = Null
              /\ d.rows[i] # Null => /\ e.rows[i].name = d.rows[i].name
                                     /\ e.rows[i].moved = d.rows[i].moved
                                     /\ e.rows[i].deleted = d.rows[i].deleted
      <4> SUFFICES ASSUME NEW i \in Ids, d.rows[i] # Null
                   PROVE  /\ e.rows[i] # Null /\ e.rows[i].name = d.rows[i].name
                          /\ e.rows[i].moved = d.rows[i].moved
                          /\ e.rows[i].deleted = d.rows[i].deleted
        BY <1>7
      <4>1. d.rows[i] \in Row
        BY <1>1
      <4>2. e.rows[i] = [d.rows[i] EXCEPT !.lower = TRUE]
        <5>1. e.rows[i] = Rewritten(Execute, d.schema, d.rows[i])
          BY <2>8, <1>7
        <5> QED
          BY Zenon, <5>1, <4>1, RowChanges
      <4> QED
        BY ZenonT(60), <4>1, <4>2, ChangedRow
    <3>3. NoDuplicates(e, "folded", "live")
      <4>1. NoDuplicates(d, "folded", "live")
        BY <2>8, <1>5 DEF Sound
      <4> QED
        BY <3>2, <4>1 DEF NoDuplicates, Rows
    <3>4. Sound(e)
      BY <3>1, <3>3 DEF Sound, Fields, Yes
    <3>5. Kept(k, old, e)
      BY <2>1, <2>8, <3>2, <1>4, <1>5 DEF Kept
    <3> QED
      BY <2>1, <2>8, <3>4, <3>5
  <2>9. CASE /\ c = DropColumn /\ ~Upgrades(j) /\ j.at = 5
             /\ d.schema.table = Yes /\ d.schema.email = "plain" /\ d.schema.folded = "full"
    <3>1. Fields(e.schema, Yes, No, "plain", "full")
      BY <2>9, <1>1, <1>2, FieldsAfter
    <3>2. \A i \in Ids :
              /\ e.rows[i] = Null <=> d.rows[i] = Null
              /\ d.rows[i] # Null => /\ e.rows[i].name = d.rows[i].name
                                     /\ e.rows[i].moved = d.rows[i].moved
      <4> SUFFICES ASSUME NEW i \in Ids, d.rows[i] # Null
                   PROVE  /\ e.rows[i] # Null /\ e.rows[i].name = d.rows[i].name
                          /\ e.rows[i].moved = d.rows[i].moved
        BY <1>7
      <4>1. d.rows[i] \in Row
        BY <1>1
      <4>2. e.rows[i] = [d.rows[i] EXCEPT !.deleted = FALSE]
        <5>1. e.rows[i] = Rewritten(DropColumn, d.schema, d.rows[i])
          BY <2>9, <1>7
        <5> QED
          BY Zenon, <5>1, <4>1, RowChanges
      <4> QED
        BY <4>1, <4>2, ChangedRow
    <3>3. NoDuplicates(e, "folded", "full")
      <4>1. NoDuplicates(d, "folded", "full")
        BY <2>9, <1>5 DEF Sound
      <4> QED
        BY <3>2, <4>1 DEF NoDuplicates, Rows
    <3>4. Sound(e)
      BY <3>1, <3>3 DEF Sound, Fields, Yes
    <3>5. Kept(k, old, e)
      BY <2>1, <2>9, <3>1, <3>2, <1>4, <1>5 DEF Kept, Fields, No, Yes
    <3> QED
      BY <2>1, <2>9, <3>4, <3>5
  <2>10. CASE c = DropTable /\ ~Upgrades(j) /\ j.at = 1
    <3>1. Fields(e.schema, No, No, "none", "none")
      BY <2>10, <1>1, <1>2, FieldsAfter
    <3>2. \A i \in Ids : e.rows[i] = Null
      BY <2>10, <1>1, <1>7, RowChanges
    <3>3. Rows(e) = {}
      BY <3>2 DEF Rows
    <3> QED
      BY <2>1, <2>10, <3>1, <3>3, <1>4 DEF Fields, No, Sound, Kept
  <2> QED
    BY <2>1, <2>3, <2>4, <2>5, <2>6, <2>7, <2>8, <2>9, <2>10 DEF CallCase
<1> QED
  BY <1>9, <1>10

(***************************************************************************)
(* Types, and the call that may fail.                                      *)
(***************************************************************************)
LEMMA ReshapedType ==
    ASSUME NEW j, NEW c, NEW s \in Schema, \E r : CallCase(j, c, r)
    PROVE  Reshaped(c, s) \in Schema
<1> DEFINE t == s.table  z == s.zoned  d == s.defaults
           e == s.deletedAt  k == s.email  f == s.folded
<1>1. s = Shape(t, z, d, e, k, f)
  BY SchemaIsShape
<1>2. /\ t \in BOOLEAN /\ z \in BOOLEAN /\ d \in BOOLEAN /\ e \in BOOLEAN
      /\ k \in {"none", "plain", "unique"} /\ f \in {"none", "plain", "full", "live"}
  BY DEF Schema
<1>3. Yes \in BOOLEAN /\ No \in BOOLEAN
  BY NamesAreBoolean
<1> HIDE DEF t, z, d, e, k, f
<1>4. CASE c = CreateTable
  BY <1>1, <1>2, <1>3, <1>4, CreateTableShapes, ShapeType
<1>5. CASE c = DropTable
  <2>1. Reshaped(c, s) = NoTable
    BY Zenon, <1>1, <1>5, DropTableShapes
  <2>2. NoTable \in Schema
    BY DEF NoTable, Schema
  <2> QED
    BY <2>1, <2>2
<1>6. CASE c = AddColumn
  BY <1>1, <1>2, <1>3, <1>6, AddColumnShapes, ShapeType
<1>7. CASE c = DropColumn
  <2>1. Reshaped(c, s) = [s EXCEPT !.deletedAt = FALSE,
                                   !.folded = IF @ = "live" THEN "none" ELSE @]
    BY Zenon, <1>7 DEF Reshaped, DropColumn
  <2> QED
    BY <2>1 DEF Schema
<1>8. CASE c = Execute
  BY <1>1, <1>8, ExecuteShapes
<1>9. CASE c \in {CreateIndex("email", "unique"), CreateIndex("email", "plain")}
  BY <1>1, <1>2, <1>9, CreateEmailShapes, ShapeType
<1>10. CASE c \in {CreateIndex("folded", "full"), CreateIndex("folded", "live")}
  BY <1>1, <1>2, <1>10, CreateFoldedShapes, ShapeType
<1>11. CASE c \in {DropIndex("email"), DropIndex("folded")}
  BY <1>1, <1>2, <1>11, DropEmailShapes, DropFoldedShapes, ShapeType
<1>12. CASE \E y \in {Yes, No} : c = AlterType(y, Yes) \/ c = AlterDefault(y)
  BY <1>1, <1>2, <1>3, <1>12, AlterTypeShapes, AlterDefaultShapes, ShapeType
<1> QED
  BY <1>4, <1>5, <1>6, <1>7, <1>8, <1>9, <1>10, <1>11, <1>12 DEF CallCase

\* A call makes a database of a database.
LEMMA EffectType ==
    ASSUME NEW j \in Job, OnPlan(j), j.at # j.to, NEW d \in Database
    PROVE  Effect(CallOf(j), d) \in Database
<1> DEFINE c == CallOf(j)  e == Effect(CallOf(j), d)
<1>1. /\ d.schema \in Schema /\ d.revision \in Revisions /\ d.rows \in [Ids -> Row \cup {Null}]
  BY DEF Database
<1>2. IF ScriptDone(j) THEN c = Stamp(j.at, Following(j)) ELSE CallCase(j, c, SchemaIn(j))
  BY CallCases DEF StampCase
<1>3. Following(j) \in Revisions
  BY AdvancedIs
<1> HIDE DEF c
<1>4. Reshaped(c, d.schema) \in Schema
  <2>1. CASE ScriptDone(j)
    BY <1>1, <1>2, <2>1, StampIs
  <2>2. CASE ~ScriptDone(j)
    BY Zenon, <1>1, <1>2, <2>2, ReshapedType
  <2> QED
    BY <2>1, <2>2
<1>5. Effect(c, d).revision \in Revisions
  BY <1>1, <1>2, <1>3, StampIs, CallOp
<1>6. \A row \in Row : Rewritten(c, d.schema, row) \in Row \cup {Null}
  <2> TAKE row \in Row
  <2> [row EXCEPT !.lower = TRUE] \in Row /\ [row EXCEPT !.deleted = FALSE] \in Row
    BY DEF Row
  <2>1. CASE c = Execute
    BY Zenon, <2>1, RowChanges
  <2>2. CASE c = DropColumn
    BY Zenon, <2>2, RowChanges
  <2>3. CASE c = DropTable
    BY <2>3, RowChanges
  <2>4. CASE c \notin {Execute, DropColumn, DropTable}
    BY <1>2, <2>4, RowStays DEF CallCase
  <2> QED
    BY <2>1, <2>2, <2>3, <2>4
<1>7. Effect(c, d) = [revision |-> Effect(c, d).revision, schema |-> Reshaped(c, d.schema),
                      rows |-> [i \in Ids |-> IF d.rows[i] = Null THEN Null
                                              ELSE Rewritten(c, d.schema, d.rows[i])]]
  BY DEF Effect
<1> QED
  BY <1>1, <1>4, <1>5, <1>6, <1>7 DEF Database, c

\* A run that starts where the database is starts on course.
LEMMA StartsOnCourse ==
    ASSUME NEW d \in Database, d.schema = SchemaAt[d.revision], Sound(d),
           NEW j, j.from = d.revision, j.at = j.from, j.next = 1
    PROVE  OnCourse(j, d, d)
<1>1. d.schema = SchemaIn(j)
  BY SchemaSteps
<1>2. d.revision \in {3, 4} => d.schema.folded = "full"
  BY SchemaIs, ShapeFields
<1>3. Kept(j, d, d)
  BY Zenon DEF Kept
<1> QED
  BY <1>1, <1>2, <1>3 DEF OnCourse, Sound

\* The only call that fails on its own account is the one that builds the full unique index.
LEMMA OnlyTheFullIndexFails ==
    ASSUME NEW j \in Job, OnPlan(j), j.at # j.to,
           NEW old, old.schema = SchemaAt[old.revision], Sound(old), old.revision = j.from,
           NEW d \in Database, OnCourse(j, old, d), ~Succeeds(CallOf(j), d)
    PROVE  /\ CallOf(j) = CreateIndex("folded", "full")
           /\ ~NoDuplicates(d, "folded", "full")
           /\ j.at = IF Upgrades(j) THEN 2 ELSE 5
           /\ d.schema.table = Yes
<1> DEFINE c == CallOf(j)
<1>1. /\ d.schema = SchemaIn(j) /\ d.revision = j.at /\ Sound(d) /\ Kept(j, old, d)
      /\ j.at \in {3, 4} => NoDuplicates(d, "folded", "full")
  BY DEF OnCourse
<1>2. ~ScriptDone(j) /\ CallCase(j, c, d.schema)
  BY <1>1, CallCases, SuccessIs DEF StampCase
<1>3. d.schema.table = Yes => d.schema.table
  BY DEF Yes
<1>4. d.schema.table = No => ~d.schema.table
  BY DEF No
<1>5. NoDuplicates(d, "folded", "full") => /\ NoDuplicates(d, "email", "unique")
                                           /\ NoDuplicates(d, "folded", "live")
  BY DEF NoDuplicates
<1>6. Upgrades(j) /\ j.at = 0 => Rows(d) = {}
  <2> SUFFICES ASSUME Upgrades(j), j.at = 0 PROVE Rows(d) = {}
    OBVIOUS
  <2>1. old.revision = 0
    BY DEF OnPlan, Upgrades, Job, Revisions
  <2>2. old.schema.table = No
    BY <2>1, SchemaIs, ShapeFields
  <2>3. Rows(old) = {}
    BY <2>2 DEF Sound, No
  <2> QED
    BY <1>1, <2>3 DEF Kept, Rows
<1>7. ASSUME NEW index, NEW kind, c = CreateIndex(index, kind), d.schema[index] = "none"
      PROVE  ~NoDuplicates(d, index, kind)
  BY <1>7, SuccessIs
<1> HIDE DEF c
<1>8. CASE c = CreateTable /\ d.schema.table = No
  BY <1>4, <1>8, SuccessIs DEF c
<1>9. CASE /\ c = CreateIndex("email", "unique") /\ j.at \in {0, 3} /\ (j.at = 0 => Upgrades(j))
           /\ d.schema.email = "none"
  <2>1. ~NoDuplicates(d, "email", "unique")
    BY <1>7, <1>9
  <2>2. j.at = 0 => NoDuplicates(d, "email", "unique")
    BY <1>6, <1>9 DEF NoDuplicates
  <2> QED
    BY <2>1, <2>2, <1>1, <1>5, <1>9
<1>10. CASE c = CreateIndex("email", "plain") /\ d.schema.email = "none"
  BY <1>7, <1>10 DEF NoDuplicates
<1>11. CASE /\ c = CreateIndex("folded", "full") /\ j.at = (IF Upgrades(j) THEN 2 ELSE 5)
            /\ d.schema.folded = "none" /\ d.schema.table = Yes
  BY <1>7, <1>11 DEF c
<1>12. CASE c = CreateIndex("folded", "live") /\ j.at = 4 /\ d.schema.folded = "none"
  BY <1>1, <1>5, <1>7, <1>12
<1>13. CASE c = DropIndex("email") /\ d.schema.email \in {"plain", "unique"}
  BY <1>13, SuccessIs DEF c
<1>14. CASE c = DropIndex("folded") /\ d.schema.folded \in {"full", "live"}
  BY <1>14, SuccessIs DEF c
<1>15. CASE (\E y : c = AlterType(y, Yes) \/ c = AlterDefault(y)) /\ d.schema.table = Yes
  <2>1. PICK y : c = AlterType(y, Yes) \/ c = AlterDefault(y)
    BY <1>15
  <2>2. ~Succeeds(c, d)
    BY DEF c
  <2>3. CASE c = AlterType(y, Yes)
    <3>1. Succeeds(AlterType(y, Yes), d) <=> d.schema.table
      BY SuccessIs
    <3> QED
      BY Zenon, <2>2, <2>3, <3>1, <1>3, <1>15
  <2>4. CASE c = AlterDefault(y)
    <3>1. Succeeds(AlterDefault(y), d) <=> d.schema.table
      BY SuccessIs
    <3> QED
      BY Zenon, <2>2, <2>4, <3>1, <1>3, <1>15
  <2> QED
    BY <2>1, <2>3, <2>4
<1>16. CASE c = AddColumn /\ d.schema.table = Yes /\ d.schema.deletedAt = No
  BY <1>3, <1>16, SuccessIs DEF c, No
<1>17. CASE c = Execute /\ d.schema.table = Yes
  BY <1>3, <1>17, SuccessIs DEF c
<1>18. CASE c = DropColumn /\ d.schema.deletedAt = Yes
  BY <1>18, SuccessIs DEF c, Yes
<1>19. CASE c = DropTable /\ d.schema.table = Yes
  BY <1>3, <1>19, SuccessIs DEF c
<1> QED
  BY <1>2, <1>8, <1>9, <1>10, <1>11, <1>12, <1>13, <1>14, <1>15, <1>16, <1>17, <1>18, <1>19
     DEF CallCase

(***************************************************************************)
(* The invariant, and the actions of a run but for its calls.              *)
(***************************************************************************)
\* What is committed is a whole revision, with its indexes satisfied.
Committed == db.schema = SchemaAt[db.revision] /\ Sound(db)

\* An upgrade is to head, and a run that has touched nothing is at its start.
Planned ==
    \A m \in Migrators : job[m] # Null =>
        /\ Upgrades(job[m]) => job[m].to = HeadRevision
        /\ holder # m => job[m].at = job[m].from /\ job[m].next = 1

\* Nobody has committed another revision since the run read it.
Current(j) == j.from = db.revision

\* The run that touched something is on course over what is committed, and
\* leaves the table open to writers only between the last two revisions; or
\* its plan is stale, and it is still inside its first script, at whose end
\* the checked stamp stops it.
Working ==
    holder # Null =>
        LET j == job[holder]
        IN  IF Current(j)
            THEN /\ OnCourse(j, db, work)
                 /\ lock # "table" => j.from >= 5 /\ j.at >= 5 /\ (Upgrades(j) \/ j.next = 1)
            ELSE j.at = j.from /\ work.revision = db.revision

\* The inductive invariant.
IInv == TypeOK /\ Committed /\ Planned /\ Working

LEMMA NullIsApart == /\ Null \notin Migrators /\ Null \notin Row
                     /\ Null \notin Database /\ Null \notin Job
  BY MigrationAssumption

LEMMA InitInvariant == Init => IInv
<1> SUFFICES ASSUME Init PROVE IInv
  OBVIOUS
<1>1. /\ db = [revision |-> 0, schema |-> NoTable, rows |-> [i \in Ids |-> Null]]
      /\ work = Null /\ holder = Null /\ lock = "none" /\ job = [m \in Migrators |-> Null]
  BY DEF Init
<1>2. NoTable = Shape(No, No, No, No, "none", "none") /\ NoTable \in Schema
  BY DEF NoTable, Shape, No, Schema
<1>3. db \in Database
  BY <1>1, <1>2 DEF Database, Revisions, HeadRevision
<1>4. TypeOK
  BY <1>1, <1>3 DEF TypeOK
<1>5. Committed
  <2>1. db.schema = SchemaAt[db.revision]
    BY <1>1, <1>2, SchemaIs
  <2>2. db.schema.email = "none" /\ db.schema.folded = "none" /\ Rows(db) = {}
    BY <1>1 DEF NoTable, Rows
  <2> QED
    BY <2>1, <2>2 DEF Committed, Sound
<1> QED
  BY <1>1, <1>4, <1>5 DEF IInv, Planned, Working

\* What the invariant says of a run that may go on.
LEMMA RunIs ==
    ASSUME IInv, NEW m \in Migrators, job[m] # Null, holder \in {Null, m}
    PROVE  /\ job[m] \in Job /\ OnPlan(job[m]) /\ Sees(m) \in Database
           /\ Current(job[m]) => OnCourse(job[m], db, Sees(m))
           /\ ~Current(job[m]) => job[m].at = job[m].from /\ Sees(m).revision = db.revision
<1>1. job[m] \in Job /\ OnPlan(job[m])
  BY DEF IInv, TypeOK
<1>2. db \in Database /\ work \in Database \cup {Null} /\ (holder = Null <=> work = Null)
  BY DEF IInv, TypeOK
<1>3. CASE holder = m
  <2>1. holder # Null /\ Sees(m) = work
    BY <1>3, NullIsApart DEF Sees
  <2> QED
    BY <1>1, <1>2, <1>3, <2>1 DEF IInv, Working
<1>4. CASE holder = Null
  <2>1. Sees(m) = db /\ job[m].at = job[m].from /\ job[m].next = 1
    BY <1>4, NullIsApart DEF Sees, IInv, Planned
  <2>2. Current(job[m]) => OnCourse(job[m], db, db)
    BY <1>2, <2>1, StartsOnCourse DEF IInv, Committed, Current
  <2> QED
    BY <1>1, <1>2, <2>1, <2>2
<1> QED
  BY <1>3, <1>4

LEMMA BeginKeepsInvariant ==
    ASSUME IInv, NEW m \in Migrators, Begin(m)
    PROVE  IInv'
<1>1. job[m] = Null /\ UNCHANGED <<db, work, holder, lock>>
  BY DEF Begin
<1>2. PICK to \in (0 .. db.revision - 1) \cup ({HeadRevision} \ {db.revision}) :
          job' = [job EXCEPT ![m] = [from |-> db.revision, to |-> to,
                                     at |-> db.revision, next |-> 1]]
  BY DEF Begin
<1> DEFINE j == [from |-> db.revision, to |-> to, at |-> db.revision, next |-> 1]
<1>3. db.revision \in 0 .. 6 /\ job \in [Migrators -> Job \cup {Null}]
  BY DEF IInv, TypeOK, Database, Revisions, HeadRevision
<1>4. j.from = db.revision /\ j.to = to /\ j.at = db.revision /\ j.next = 1
  OBVIOUS
<1>5. to \in 0 .. 6 /\ to # db.revision /\ (db.revision < to => to = HeadRevision)
  BY <1>3 DEF HeadRevision
<1>6. j \in Job
  BY <1>3, <1>5 DEF Job, Revisions, HeadRevision
<1> HIDE DEF j
<1>7. Upgrades(j) <=> db.revision < to
  BY <1>4 DEF Upgrades
<1>8. Len(Script(j)) \in 0 .. 3
  <2>1. IF Upgrades(j) THEN j.at \in 0 .. 5 ELSE j.at \in 1 .. 6
    BY <1>3, <1>4, <1>5, <1>7 DEF HeadRevision
  <2> QED
    BY <2>1, ScriptLength
<1>9. OnPlan(j)
  BY <1>3, <1>4, <1>5, <1>7, <1>8 DEF OnPlan
<1>10. job' = [job EXCEPT ![m] = j] /\ holder # m
  BY <1>1, <1>2, NullIsApart DEF j, IInv, TypeOK
<1>11. \A n \in Migrators : job'[n] = IF n = m THEN j ELSE job[n]
  BY <1>3, <1>10
<1>12. job' \in [Migrators -> Job \cup {Null}]
  BY <1>3, <1>6, <1>10
<1>13. TypeOK'
  BY <1>1, <1>9, <1>10, <1>11, <1>12, NullIsApart DEF IInv, TypeOK
<1>14. Committed'
  BY <1>1 DEF IInv, Committed, Sound, NoDuplicates, Rows
<1>15. Planned'
  BY <1>1, <1>4, <1>5, <1>7, <1>11 DEF IInv, Planned
<1>16. Working'
  <2> SUFFICES ASSUME holder # Null PROVE job'[holder] = job[holder]
    BY <1>1 DEF IInv, Working, Current
  <2> QED
    BY <1>10, <1>11 DEF IInv, TypeOK
<1> QED
  BY <1>13, <1>14, <1>15, <1>16 DEF IInv

\* Fail and Crash.
LEMMA RollBackKeepsInvariant ==
    ASSUME IInv, NEW m \in Migrators, job[m] # Null, holder \in {Null, m}, RollBack(m)
    PROVE  IInv'
<1>1. /\ db' = db /\ work' = Null /\ holder' = Null /\ lock' = "none"
      /\ job' = [job EXCEPT ![m] = Null]
  BY DEF RollBack, Release
<1>2. job \in [Migrators -> Job \cup {Null}]
  BY DEF IInv, TypeOK
<1>3. \A n \in Migrators : job'[n] = IF n = m THEN Null ELSE job[n]
  BY <1>1, <1>2
<1>4. TypeOK'
  BY <1>1, <1>2, <1>3 DEF IInv, TypeOK
<1>5. Committed'
  BY <1>1 DEF IInv, Committed
<1>6. Planned'
  BY <1>1, <1>3, NullIsApart DEF IInv, Planned
<1> QED
  BY <1>1, <1>4, <1>5, <1>6 DEF IInv, Working

\* A run that commits was never stale: its first stamp would have failed.
LEMMA CommitIs ==
    ASSUME IInv, NEW m \in Migrators, Commit(m)
    PROVE  /\ work \in Database /\ OnCourse(job[m], db, work) /\ job[m] \in Job
           /\ OnPlan(job[m]) /\ job[m].at = job[m].to /\ job[m].next = 1 /\ Current(job[m])
<1>1. holder = m /\ job[m].at = job[m].to /\ holder # Null
  BY NullIsApart DEF Commit
<1>2. work \in Database /\ job[m] \in Job /\ OnPlan(job[m])
  BY <1>1 DEF IInv, TypeOK
<1>3. job[m].at # job[m].from /\ job[m].next = 1
  BY <1>1, <1>2 DEF OnPlan
<1> QED
  BY <1>1, <1>2, <1>3 DEF IInv, Working

LEMMA CommitKeepsInvariant ==
    ASSUME IInv, NEW m \in Migrators, Commit(m)
    PROVE  IInv'
<1>1. /\ db' = work /\ work' = Null /\ holder' = Null /\ lock' = "none"
      /\ job' = [job EXCEPT ![m] = Null] /\ holder = m
  BY DEF Commit, Release
<1>2. job \in [Migrators -> Job \cup {Null}]
  BY DEF IInv, TypeOK
<1>3. \A n \in Migrators : job'[n] = IF n = m THEN Null ELSE job[n]
  BY <1>1, <1>2
<1>4. TypeOK'
  BY <1>1, <1>2, <1>3, CommitIs DEF IInv, TypeOK
<1>5. Committed'
  <2>1. work.schema = SchemaAt[work.revision] /\ Sound(work)
    BY CommitIs, SchemaSteps DEF OnCourse
  <2> QED
    BY <1>1, <2>1 DEF Committed
<1>6. Planned'
  BY <1>1, <1>3, NullIsApart DEF IInv, Planned
<1> QED
  BY <1>1, <1>4, <1>5, <1>6 DEF IInv, Working

(***************************************************************************)
(* A call of a run.                                                        *)
(***************************************************************************)
\* Only a stamp and the rewriting UPDATE leave the table unlocked.
LEMMA HoldsIs ==
    ASSUME NEW j, NEW c, NEW s, CallCase(j, c, s), Holds(c) # "table"
    PROVE  c = Execute
<1>1. Holds(CreateTable) = "table" /\ Holds(DropTable) = "table"
  BY Zenon DEF Holds, CreateTable, DropTable
<1>2. Holds(AddColumn) = "table" /\ Holds(DropColumn) = "table"
  BY Zenon DEF Holds, AddColumn, DropColumn
<1>3. \A y, u : Holds(AlterType(y, u)) = "table"
  BY Zenon DEF Holds, AlterType
<1>4. \A y : Holds(AlterDefault(y)) = "table"
  BY Zenon DEF Holds, AlterDefault
<1>5. \A index, kind : Holds(CreateIndex(index, kind)) = "table"
  BY Zenon DEF Holds, CreateIndex
<1>6. \A index : Holds(DropIndex(index)) = "table"
  BY Zenon DEF Holds, DropIndex
<1> QED
  BY <1>1, <1>2, <1>3, <1>4, <1>5, <1>6 DEF CallCase

LEMMA HoldsType ==
    ASSUME NEW c
    PROVE  Holds(c) \in {"none", "rows", "table"}
<1>1. CASE c.op = "stamp"
  BY Zenon, <1>1 DEF Holds
<1>2. CASE c.op = "execute"
  BY Zenon, <1>2 DEF Holds
<1>3. CASE c.op \notin {"stamp", "execute"}
  BY Zenon, <1>3 DEF Holds
<1> QED
  BY <1>1, <1>2, <1>3

\* A script without calls is the way back from head.
LEMMA EmptyScript ==
    ASSUME NEW j \in Job, OnPlan(j), j.at # j.to, j.next = 1, ScriptDone(j)
    PROVE  ~Upgrades(j) /\ j.at = 6
<1>1. IF Upgrades(j) THEN j.at \in 0 .. 5 ELSE j.at \in 1 .. 6
  BY PlanIs
<1>2. Len(Script(j)) < 1
  <2>1. Len(Script(j)) \in 0 .. 3
    BY PlanIs
  <2> QED
    BY <2>1 DEF ScriptDone
<1>3. /\ ~(Len(InitUp) < 1) /\ ~(Len(ZonedUp) < 1) /\ ~(Len(FoldedUp) < 1)
      /\ ~(Len(DefaultsUp) < 1) /\ ~(Len(SoftDeleteUp) < 1) /\ ~(Len(LowerUp) < 1)
      /\ ~(Len(InitDown) < 1) /\ ~(Len(ZonedDown) < 1) /\ ~(Len(FoldedDown) < 1)
      /\ ~(Len(DefaultsDown) < 1) /\ ~(Len(SoftDeleteDown) < 1)
  BY DEF InitUp, ZonedUp, FoldedUp, DefaultsUp, SoftDeleteUp, LowerUp,
         InitDown, ZonedDown, FoldedDown, DefaultsDown, SoftDeleteDown
<1>4. Upgrades(j) => Script(j) \in {InitUp, ZonedUp, FoldedUp, DefaultsUp, SoftDeleteUp, LowerUp}
  BY <1>1 DEF Script, Ups
<1>5. ~Upgrades(j) /\ j.at # 6 =>
          Script(j) \in {InitDown, ZonedDown, FoldedDown, DefaultsDown, SoftDeleteDown}
  BY <1>1 DEF Script, Downs
<1>6. \A s \in {InitUp, ZonedUp, FoldedUp, DefaultsUp, SoftDeleteUp, LowerUp,
                 InitDown, ZonedDown, FoldedDown, DefaultsDown, SoftDeleteDown} : ~(Len(s) < 1)
  BY Zenon, <1>3
<1>7. ~Upgrades(j)
  BY Zenon, <1>2, <1>4, <1>6
<1>8. j.at = 6
  BY Zenon, <1>2, <1>5, <1>6, <1>7
<1> QED
  BY <1>7, <1>8

\* A call that succeeds, on course or stale.
LEMMA StepKeepsInvariant ==
    ASSUME IInv, NEW m \in Migrators, Step(m)
    PROVE  IInv'
<1> DEFINE j == job[m]  c == Call(m)  d == Sees(m)  k == Advanced(job[m])
<1>1. /\ j # Null /\ holder \in {Null, m} /\ j.at # j.to /\ Succeeds(c, d)
      /\ work' = Effect(c, d) /\ holder' = m /\ lock' = Stronger(lock, Holds(c))
      /\ job' = [job EXCEPT ![m] = k] /\ db' = db
  BY DEF Step, MayCall
<1>2. /\ j \in Job /\ OnPlan(j) /\ d \in Database /\ c = CallOf(j) /\ k = Advanced(j)
      /\ Current(j) => OnCourse(j, db, d)
      /\ ~Current(j) => j.at = j.from /\ d.revision = db.revision
  BY <1>1, RunIs DEF Call
<1>3. job \in [Migrators -> Job \cup {Null}]
  BY DEF IInv, TypeOK
<1>4. /\ k \in Job /\ OnPlan(k) /\ k # Null /\ k.from = j.from /\ k.to = j.to
      /\ Upgrades(k) <=> Upgrades(j)
      /\ IF ScriptDone(j) THEN k.at = Following(j) /\ k.next = 1
                          ELSE k.at = j.at /\ k.next = j.next + 1
      /\ Following(j) = IF Upgrades(j) THEN j.at + 1 ELSE j.at - 1
  BY <1>1, <1>2, AdvancedIs, NullIsApart
<1>5. IF ScriptDone(j) THEN c = Stamp(j.at, Following(j)) ELSE CallCase(j, c, SchemaIn(j))
  BY <1>1, <1>2, CallCases DEF StampCase
<1>6. Upgrades(j) => j.to = HeadRevision
  BY <1>1 DEF IInv, Planned
<1> HIDE DEF j, c, d, k
<1>7. \A n \in Migrators : job'[n] = IF n = m THEN k ELSE job[n]
  BY <1>1, <1>3
<1>8. TypeOK'
  <2>1. Effect(c, d) \in Database
    BY <1>1, <1>2, EffectType
  <2>2. lock' \in {"none", "rows", "table"}
    BY <1>1, HoldsType DEF Stronger, IInv, TypeOK
  <2>3. work' # Null /\ holder' # Null
    BY <1>1, <2>1, NullIsApart
  <2>4. job' \in [Migrators -> Job \cup {Null}]
    BY <1>1, <1>3, <1>4
  <2>5. \A n \in Migrators : job'[n] # Null => OnPlan(job'[n])
    BY <1>4, <1>7 DEF IInv, TypeOK
  <2> QED
    BY <1>1, <1>4, <1>7, <2>1, <2>2, <2>3, <2>4, <2>5 DEF IInv, TypeOK
<1>9. Committed'
  BY <1>1 DEF IInv, Committed
<1>10. Planned'
  <2>1. \A n \in Migrators \ {m} : job[n] # Null =>
            /\ Upgrades(job[n]) => job[n].to = HeadRevision
            /\ job[n].at = job[n].from /\ job[n].next = 1
    BY <1>1, NullIsApart DEF IInv, Planned
  <2> QED
    BY <1>1, <1>4, <1>6, <1>7, <2>1 DEF Planned
<1>11. Working'
  <2>1. CASE Current(j)
    <3>1. OnCourse(k, db, work')
      BY <1>1, <1>2, <2>1, CallStaysOnCourse
    <3>2. ASSUME lock' # "table"
          PROVE  k.from >= 5 /\ k.at >= 5 /\ (Upgrades(k) \/ k.next = 1)
      <4>1. lock # "table" /\ Holds(c) # "table"
        BY <1>1, <3>2 DEF Stronger
      <4>2. \/ j.at = j.from /\ j.next = 1
            \/ j.from >= 5 /\ j.at >= 5 /\ (Upgrades(j) \/ j.next = 1)
        BY <1>1, <2>1, <4>1, NullIsApart DEF IInv, Planned, Working, j
      <4>3. CASE ScriptDone(j)
        <5>1. j.next = 1 => ~Upgrades(j) /\ j.at = 6
          BY <1>1, <1>2, <4>3, EmptyScript
        <5>2. j.at \in 0 .. 6 /\ j.from \in 0 .. 6 /\ (~Upgrades(j) => j.at <= j.from)
          BY <1>2 DEF Job, Revisions, HeadRevision, OnPlan
        <5> QED
          BY <1>4, <4>2, <4>3, <5>1, <5>2
      <4>4. CASE ~ScriptDone(j)
        <5>1. c = Execute
          BY <1>5, <4>1, <4>4, HoldsIs
        <5>2. Upgrades(j) /\ j.at = 5
          BY <1>5, <4>4, <5>1 DEF CallCase, Execute, CreateTable, CreateIndex, DropIndex,
             AlterType, AlterDefault, AddColumn, DropColumn, DropTable
        <5> QED
          BY <1>4, <4>2, <4>4, <5>2
      <4> QED
        BY <4>3, <4>4
    <3> QED
      BY <1>1, <1>4, <1>7, <2>1, <3>1, <3>2 DEF Working, Current
  <2>2. CASE ~Current(j)
    <3>1. ~ScriptDone(j)
      BY <1>2, <1>1, <1>5, <2>2, SuccessIs DEF Current
    <3>2. k.at = k.from /\ Effect(c, d).revision = db.revision
      BY <1>2, <1>4, <1>5, <2>2, <3>1, StampIs, CallOp
    <3> QED
      BY <1>1, <1>4, <1>7, <2>2, <3>2 DEF Working, Current
  <2> QED
    BY <2>1, <2>2
<1> QED
  BY <1>8, <1>9, <1>10, <1>11 DEF IInv

(***************************************************************************)
(* The application's writes, and the invariant.                            *)
(***************************************************************************)
\* SchemaAt field by field.
LEMMA SchemaFields ==
    ASSUME NEW r \in Revisions
    PROVE  /\ SchemaAt[r].table = (IF r = 0 THEN No ELSE Yes)
           /\ SchemaAt[r].deletedAt = (IF r < 5 THEN No ELSE Yes)
           /\ SchemaAt[r].email = IF r = 0 THEN "none" ELSE IF r < 3 THEN "unique" ELSE "plain"
           /\ SchemaAt[r].folded = IF r < 3 THEN "none" ELSE IF r < 5 THEN "full" ELSE "live"
<1>1. r \in {0, 1, 2, 3, 4, 5, 6}
  BY DEF Revisions, HeadRevision
<1>2. CASE r = 0
  BY <1>2, SchemaIs, ShapeFields
<1>3. CASE r = 1
  BY <1>3, SchemaIs, ShapeFields
<1>4. CASE r = 2
  BY <1>4, SchemaIs, ShapeFields
<1>5. CASE r = 3
  BY <1>5, SchemaIs, ShapeFields
<1>6. CASE r = 4
  BY <1>6, SchemaIs, ShapeFields
<1>7. CASE r = 5
  BY <1>7, SchemaIs, ShapeFields
<1>8. CASE r = 6
  BY <1>8, SchemaIs, ShapeFields
<1> QED
  BY <1>1, <1>2, <1>3, <1>4, <1>5, <1>6, <1>7, <1>8

\* A run that leaves the table unlocked is between the last two revisions.
LEMMA UnlockedSchema ==
    ASSUME NEW j \in Job, OnPlan(j), j.at >= 5, Upgrades(j) \/ j.next = 1
    PROVE  /\ SchemaIn(j).table = Yes /\ SchemaIn(j).deletedAt = Yes
           /\ SchemaIn(j).email = "plain" /\ SchemaIn(j).folded = "live"
<1>1. j.at \in Revisions /\ j.at \in {5, 6}
  BY DEF Job, Revisions, HeadRevision
<1>2. CASE j.next = 1
  <2>1. SchemaIn(j) = SchemaAt[j.at]
    BY <1>2, SchemaSteps
  <2> QED
    BY <1>1, <2>1, SchemaFields
<1>3. CASE j.next # 1
  <2>1. j.at # j.to
    BY <1>3 DEF OnPlan
  <2>2. j.at = 5 /\ j.next \in 1 .. Len(Script(j)) + 1
    BY <1>1, <1>3, <2>1, PlanIs
  <2>3. SchemaIn(j) = Shape(Yes, Yes, Yes, Yes, "plain", "live")
    BY <1>3, <2>2, LowerUpRuns
  <2> QED
    BY <2>3, ShapeFields
<1> QED
  BY <1>2, <1>3

\* A write the locks let through shows in what is committed and in what the
\* run sees, and harms neither if it makes no clash under the committed
\* indexes.
LEMMA WriteKeepsInvariant ==
    ASSUME IInv, NEW rows \in [Ids -> Row \cup {Null}], Write(rows), lock # "table",
           Sound([db EXCEPT !.rows = rows])
    PROVE  IInv'
<1>1. /\ db' = [db EXCEPT !.rows = rows] /\ UNCHANGED <<holder, lock, job>>
      /\ holder = Null => work' = Null
      /\ holder # Null => work' = [work EXCEPT !.rows =
             [i \in Ids |-> IF rows[i] = db.rows[i] THEN @[i] ELSE rows[i]]]
  BY DEF Write
<1>2. db \in Database /\ (holder # Null => work \in Database)
  BY DEF IInv, TypeOK
<1>3. /\ db'.revision = db.revision /\ db'.schema = db.schema /\ db'.rows = rows
      /\ db' \in Database
  BY <1>1, <1>2 DEF Database
<1>4. holder # Null =>
          /\ work'.revision = work.revision /\ work'.schema = work.schema
          /\ \A i \in Ids : work'.rows[i] = IF rows[i] = db.rows[i] THEN work.rows[i] ELSE rows[i]
          /\ work' \in Database
  BY <1>1, <1>2 DEF Database
<1>5. TypeOK'
  <2>1. holder = Null <=> work' = Null
    BY <1>1, <1>4, NullIsApart
  <2> QED
    BY <1>1, <1>3, <1>4, <2>1 DEF IInv, TypeOK
<1>6. Committed'
  BY <1>1, <1>3 DEF IInv, Committed
<1>7. Planned'
  BY <1>1 DEF IInv, Planned
<1>8. Working'
  <2> SUFFICES ASSUME holder # Null PROVE Working'
    BY <1>1 DEF Working
  <2> DEFINE j == job[holder]
  <2>1. j \in Job /\ OnPlan(j)
    BY DEF IInv, TypeOK
  <2>2. CASE Current(j)
    <3>1. /\ OnCourse(j, db, work)
          /\ j.from >= 5 /\ j.at >= 5 /\ (Upgrades(j) \/ j.next = 1)
      BY <2>2 DEF IInv, Working
    <3>2. /\ work.schema.table = Yes /\ work.schema.deletedAt = Yes
          /\ work.schema.email = "plain" /\ work.schema.folded = "live"
      BY <2>1, <3>1, UnlockedSchema DEF OnCourse
    <3>3. db.schema.folded = "live"
      <4>1. db.revision \in Revisions /\ db.revision >= 5
        BY <1>2, <2>2, <3>1 DEF Database, Current
      <4> QED
        BY <4>1, SchemaFields DEF IInv, Committed, Revisions
    <3>4. Kept(j, db, work)
      BY <3>1 DEF OnCourse
    <3>5. \A i \in Ids :
              /\ work'.rows[i] = Null <=> rows[i] = Null
              /\ rows[i] # Null => /\ work'.rows[i].name = rows[i].name
                                  /\ work'.rows[i].moved = rows[i].moved
                                  /\ work'.rows[i].deleted = rows[i].deleted
      BY <1>4, <3>2, <3>4 DEF Kept, Yes
    <3>6. NoDuplicates(work', "folded", "live")
      <4>1. NoDuplicates(db', "folded", "live")
        BY <1>1, <1>3, <3>3 DEF Sound
      <4> QED
        BY <1>3, <3>5, <4>1 DEF NoDuplicates, Rows
    <3>7. Sound(work')
      BY <1>4, <3>2, <3>6 DEF Sound, Yes
    <3>8. OnCourse(j, db', work')
      <4>1. Kept(j, db', work')
        <5>1. ~(j.at < 5)
          BY <2>1, <3>1 DEF Job, Revisions, HeadRevision
        <5> QED
          BY <1>3, <3>5, <5>1 DEF Kept
      <4>2. j.at \notin {3, 4}
        BY <3>1
      <4> QED
        BY <1>4, <3>1, <3>7, <4>1, <4>2 DEF OnCourse
    <3> QED
      BY <1>1, <1>3, <2>2, <3>1, <3>8 DEF Working, Current
  <2>3. CASE ~Current(j)
    BY <1>1, <1>3, <1>4, <2>3 DEF IInv, Working, Current
  <2> QED
    BY <2>2, <2>3
<1> QED
  BY <1>5, <1>6, <1>7, <1>8 DEF IInv

\* Where rows are, there is a table; where deleted_at is, too.
LEMMA TableIs ==
    ASSUME IInv
    PROVE  /\ db.schema.deletedAt => db.schema.table
           /\ \A i \in Ids : db.rows[i] # Null => db.schema.table
<1>1. db.revision \in Revisions /\ db.schema = SchemaAt[db.revision] /\ Sound(db)
  BY DEF IInv, TypeOK, Database, Committed
<1>2. db.schema.deletedAt => db.schema.table
  <2>1. db.schema.deletedAt = No \/ db.schema.table = Yes
    BY <1>1, SchemaFields DEF Revisions
  <2> QED
    BY <2>1 DEF No, Yes
<1>3. \A i \in Ids : db.rows[i] # Null => db.schema.table
  BY <1>1 DEF Sound, Rows
<1> QED
  BY <1>2, <1>3

\* Register and OldRegister.
LEMMA InsertKeepsInvariant ==
    ASSUME IInv, NEW i \in Ids, NEW row \in Row, Insert(i, row), db.schema.table
    PROVE  IInv'
<1> DEFINE rows == [db.rows EXCEPT ![i] = row]  after == [db EXCEPT !.rows = rows]
<1>1. /\ lock # "table" /\ Write(rows)
      /\ NoDuplicates(after, "folded", IF db.schema.folded = "none" THEN "plain"
                                       ELSE db.schema.folded)
      /\ NoDuplicates(after, "email", db.schema.email)
  BY DEF Insert
<1>2. db \in Database
  BY DEF IInv, TypeOK
<1>3. rows \in [Ids -> Row \cup {Null}] /\ after.schema = db.schema
  BY <1>2 DEF Database
<1>4. Sound(after)
  BY <1>1, <1>3 DEF Sound
<1> QED
  BY <1>1, <1>3, <1>4, WriteKeepsInvariant

LEMMA FewerRowsAreSound ==
    ASSUME NEW d, NEW e, Sound(d), d.schema.table, e.schema = d.schema,
           \A i \in Ids : e.rows[i] # Null =>
               /\ d.rows[i] # Null
               /\ e.rows[i].name = d.rows[i].name /\ e.rows[i].lower = d.rows[i].lower
               /\ d.rows[i].deleted => e.rows[i].deleted
    PROVE  Sound(e)
<1>1. \A index, kind : index \in {"email", "folded"} =>
          (NoDuplicates(d, index, kind) => NoDuplicates(e, index, kind))
  BY DEF NoDuplicates, Rows
<1> QED
  BY <1>1 DEF Sound

\* Deleting a row, or marking it deleted, makes no two rows clash.
LEMMA DeletesKeepInvariant ==
    ASSUME IInv, NEW i \in Ids, Delete(i) \/ OldDelete(i)
    PROVE  IInv'
<1> DEFINE marked == [db.rows EXCEPT ![i].deleted = TRUE]  gone == [db.rows EXCEPT ![i] = Null]
<1>1. /\ db \in Database /\ db.rows \in [Ids -> Row \cup {Null}] /\ db.rows[i] # Null
      /\ lock # "table" /\ (Write(marked) \/ Write(gone))
  BY DEF IInv, TypeOK, Database, Delete, OldDelete
<1>2. db.schema.table /\ Sound(db)
  BY <1>1, TableIs DEF IInv, Committed
<1>3. CASE Write(marked)
  <2>1. db.rows[i] \in Row
    BY <1>1
  <2>2. /\ [db.rows[i] EXCEPT !.deleted = TRUE] \in Row
        /\ [db.rows[i] EXCEPT !.deleted = TRUE].deleted = TRUE
        /\ [db.rows[i] EXCEPT !.deleted = TRUE].name = db.rows[i].name
        /\ [db.rows[i] EXCEPT !.deleted = TRUE].lower = db.rows[i].lower
    BY <2>1 DEF Row
  <2>3. marked \in [Ids -> Row \cup {Null}]
    BY <1>1, <2>2
  <2>4. \A n \in Ids : /\ n # i => marked[n] = db.rows[n]
                       /\ marked[i].deleted /\ marked[i].name = db.rows[i].name
                       /\ marked[i].lower = db.rows[i].lower
    BY <1>1, <2>2
  <2>5. Sound([db EXCEPT !.rows = marked])
    <3> DEFINE e == [db EXCEPT !.rows = marked]
    <3>1. e.schema = db.schema /\ e.rows = marked
      BY <1>1 DEF Database
    <3> HIDE DEF e, marked
    <3>2. Sound(e)
      BY <1>1, <1>2, <2>4, <3>1, FewerRowsAreSound
    <3> QED
      BY <3>2 DEF e
  <2> QED
    BY <1>1, <1>3, <2>3, <2>5, WriteKeepsInvariant
<1>4. CASE Write(gone)
  <2>1. gone \in [Ids -> Row \cup {Null}]
    BY <1>1
  <2>2. \A n \in Ids : gone[n] = IF n = i THEN Null ELSE db.rows[n]
    BY <1>1
  <2>3. Sound([db EXCEPT !.rows = gone])
    <3> DEFINE e == [db EXCEPT !.rows = gone]
    <3>1. e.schema = db.schema /\ e.rows = gone
      BY <1>1 DEF Database
    <3> HIDE DEF e, gone
    <3>2. Sound(e)
      BY <1>1, <1>2, <2>2, <3>1, FewerRowsAreSound
    <3> QED
      BY <3>2 DEF e
  <2> QED
    BY <1>1, <1>4, <2>1, <2>3, WriteKeepsInvariant
<1> QED
  BY <1>1, <1>3, <1>4

\* Every step, the stutter too, keeps the invariant.
LEMMA StepInvariant == IInv /\ [Next]_vars => IInv'
<1> SUFFICES ASSUME IInv, [Next]_vars PROVE IInv'
  OBVIOUS
<1>1. ASSUME NEW m \in Migrators, Migrate(m) PROVE IInv'
  <2>1. CASE Begin(m)
    BY <2>1, BeginKeepsInvariant
  <2>2. CASE Step(m)
    BY <2>2, StepKeepsInvariant
  <2>3. CASE Commit(m)
    BY <2>3, CommitKeepsInvariant
  <2>4. CASE Fail(m)
    BY <2>4, RollBackKeepsInvariant DEF Fail, MayCall
  <2>5. CASE Crash(m)
    BY <2>5, RollBackKeepsInvariant DEF Crash
  <2> QED
    BY <1>1, <2>1, <2>2, <2>3, <2>4, <2>5 DEF Migrate
<1>2. ASSUME NEW i \in Ids, NEW n \in Names,
             Register(i, n) \/ \E lower \in BOOLEAN : OldRegister(i, n, lower)
      PROVE  IInv'
  <2>1. \A lower \in BOOLEAN : NewRow(n, lower) \in Row
    BY DEF NewRow, Row
  <2>2. CASE Register(i, n)
    BY <2>1, <2>2, TableIs, InsertKeepsInvariant DEF Register
  <2>3. CASE \E lower \in BOOLEAN : OldRegister(i, n, lower)
    BY <2>1, <2>3, InsertKeepsInvariant DEF OldRegister
  <2> QED
    BY <1>2, <2>2, <2>3
<1>3. ASSUME NEW i \in Ids, Delete(i) \/ OldDelete(i) PROVE IInv'
  BY <1>3, DeletesKeepInvariant
<1>4. CASE UNCHANGED vars
  BY <1>4 DEF vars, IInv, TypeOK, Committed, Planned, Working, Current
<1> QED
  BY <1>1, <1>2, <1>3, <1>4 DEF Next, App

\* What alembic's transactions and PostgreSQL's locks keep true throughout:
\* the database is one whole revision, and the run at work is on its way
\* between two, or stale and bound to fail.
THEOREM Invariant == Spec => []IInv
<1>1. Init => IInv
  BY InitInvariant
<1>2. IInv /\ [Next]_vars => IInv'
  BY StepInvariant
<1> QED
  BY <1>1, <1>2, PTL DEF Spec

(***************************************************************************)
(* The properties the invariant gives.                                     *)
(***************************************************************************)
\* The state keeps its shape: one run at a time holds locks, and each is
\* somewhere on its plan.
THEOREM TypeCorrect == Spec => []TypeOK
<1>1. IInv => TypeOK
  BY DEF IInv
<1> QED
  BY <1>1, Invariant, PTL

\* The committed schema is the one of the committed revision, at head the one
\* models.py declares, whoever races, fails or crashes: for every number of
\* processes, rows and addresses.
THEOREM SchemaFollowsRevision == Spec => []SchemaIsRevision
<1>1. IInv => SchemaIsRevision
  BY SchemaIs DEF IInv, Committed, SchemaIsRevision, HeadRevision, ModelSchema, Shape, Yes
<1> QED
  BY <1>1, Invariant, PTL

\* From the folded index on, no two live users share an address, whichever
\* release writes while env.py runs the scripts.
THEOREM AddressesStayUnique == Spec => []LiveAddressesAreUnique
<1>1. IInv => LiveAddressesAreUnique
  <2> SUFFICES ASSUME IInv, db.revision >= 3 PROVE NoDuplicates(db, "folded", "live")
    BY DEF LiveAddressesAreUnique, NoDuplicates
  <2>1. db.revision \in Revisions /\ db.schema = SchemaAt[db.revision] /\ Sound(db)
    BY DEF IInv, TypeOK, Database, Committed
  <2>2. db.schema.folded \in {"full", "live"}
    BY <2>1, SchemaFields DEF Revisions
  <2> QED
    BY <2>1, <2>2 DEF Sound, NoDuplicates
<1> QED
  BY <1>1, Invariant, PTL

\* Only a commit moves the committed revision.
LEMMA OnlyCommitsMigrate ==
    ASSUME IInv, Next, db'.revision # db.revision
    PROVE  \E m \in Migrators : Commit(m)
<1>1. \A rows : Write(rows) => db'.revision = db.revision
  <2> SUFFICES ASSUME NEW rows, Write(rows) PROVE db'.revision = db.revision
    OBVIOUS
  <2>1. db \in Database /\ db' = [db EXCEPT !.rows = rows]
    BY DEF IInv, TypeOK, Write
  <2> QED
    BY <2>1 DEF Database
<1>2. ~App
  BY <1>1 DEF App, Delete, OldDelete, Register, OldRegister, Insert
<1> QED
  BY <1>2 DEF Next, Migrate, Begin, Step, Fail, Crash, RollBack

LEMMA CommitKeepsUsers ==
    ASSUME IInv, NEW m \in Migrators, Commit(m), db'.revision # 0
    PROVE  /\ Rows(db') = Rows(db)
           /\ \A i \in Rows(db) :
                 /\ db'.rows[i].name = db.rows[i].name
                 /\ db'.rows[i].moved = db.rows[i].moved
                 /\ db'.revision > db.revision => db'.rows[i].deleted = db.rows[i].deleted
<1> DEFINE j == job[m]
<1>1. /\ db' = work /\ work \in Database /\ OnCourse(j, db, work)
      /\ j.at = j.to /\ j.next = 1 /\ j.from = db.revision
  BY CommitIs DEF Commit, Current
<1>2. work.revision = j.to /\ work.schema = SchemaAt[work.revision] /\ Kept(j, db, work)
  BY <1>1, SchemaSteps DEF OnCourse
<1>3. work.schema.table
  BY <1>1, <1>2, SchemaFields DEF Database, Yes
<1>4. db'.revision > db.revision => Upgrades(j)
  <2>1. work.revision \in Int /\ db.revision \in Int
    BY <1>1 DEF IInv, TypeOK, Database, Revisions
  <2> QED
    BY <1>1, <1>2, <2>1 DEF Upgrades
<1> QED
  BY <1>1, <1>2, <1>3, <1>4 DEF Kept, Rows

\* Migrating neither loses a user nor moves its instants, and an upgrade
\* leaves who is deleted.
THEOREM UsersStay == Spec => UsersAreKept
<1>1. IInv /\ [Next]_vars =>
        [db'.revision \notin {0, db.revision} =>
            /\ Rows(db') = Rows(db)
            /\ \A i \in Rows(db) :
                  /\ db'.rows[i].name = db.rows[i].name
                  /\ db'.rows[i].moved = db.rows[i].moved
                  /\ db'.revision > db.revision => db'.rows[i].deleted = db.rows[i].deleted]_vars
  BY OnlyCommitsMigrate, CommitKeepsUsers
<1> QED
  BY <1>1, Invariant, PTL DEF Spec, UsersAreKept

LEMMA FailureHasCause ==
    ASSUME IInv, NEW m \in Migrators, Fail(m), db.revision = job[m].from
    PROVE  \/ /\ job[m].from < 3 /\ job[m].to = HeadRevision
              /\ \E i, k \in Rows(db) : SameName(i, k) /\ db.rows[i].lower # db.rows[k].lower
           \/ /\ job[m].from >= 5 /\ job[m].to < 5
              /\ \E i, k \in Rows(db) : SameName(i, k) /\ db.rows[i].deleted
<1> DEFINE j == job[m]  d == Sees(m)
<1>1. j # Null /\ holder \in {Null, m} /\ j.at # j.to /\ ~Succeeds(CallOf(j), d)
  BY DEF Fail, MayCall, Call
<1>2. j \in Job /\ OnPlan(j) /\ d \in Database /\ OnCourse(j, db, d)
  BY <1>1, RunIs DEF Current
<1>3. /\ db.revision \in Revisions /\ db.schema = SchemaAt[db.revision] /\ Sound(db)
      /\ Upgrades(j) => j.to = HeadRevision
  BY <1>1 DEF IInv, TypeOK, Database, Committed, Planned
<1>4. /\ ~NoDuplicates(d, "folded", "full") /\ j.at = (IF Upgrades(j) THEN 2 ELSE 5)
      /\ d.schema.table = Yes
  BY <1>1, <1>2, <1>3, OnlyTheFullIndexFails
<1> HIDE DEF j, d
<1>5. PICK i, k \in Rows(d) : i # k /\ d.rows[i].name = d.rows[k].name
  BY <1>4 DEF NoDuplicates
<1>6. Kept(j, db, d) /\ d.schema.table
  BY <1>2, <1>4 DEF OnCourse, Yes
<1>7. /\ i \in Rows(db) /\ k \in Rows(db) /\ i # k /\ db.rows[i].name = db.rows[k].name
      /\ Upgrades(j) /\ j.at < 5 =>
            d.rows[i].lower = db.rows[i].lower /\ d.rows[k].lower = db.rows[k].lower
  BY <1>5, <1>6 DEF Kept, Rows
<1>8. j.from \in 0 .. 6 /\ j.to \in 0 .. 6 /\ j.from # j.to
  BY <1>2 DEF Job, OnPlan, Revisions, HeadRevision
<1>9. CASE Upgrades(j)
  <2>1. j.from < 3
    BY <1>2, <1>4, <1>8, <1>9 DEF OnPlan
  <2>2. db.revision # 0
    <3>1. db.revision = 0 => Rows(db) = {}
      BY <1>3, SchemaFields DEF Sound, No
    <3> QED
      BY <1>7, <3>1
  <2>3. NoDuplicates(db, "email", "unique")
    <3>1. db.revision < 3
      BY <2>1 DEF j
    <3> QED
      BY <1>3, <2>2, <3>1, SchemaFields DEF Sound
  <2>4. db.rows[i].lower # db.rows[k].lower
    BY <1>7, <2>3 DEF NoDuplicates
  <2> QED
    BY <1>3, <1>7, <1>9, <2>1, <2>4 DEF SameName, j
<1>10. CASE ~Upgrades(j)
  <2>1. j.from >= 5 /\ j.to < 5
    BY <1>1, <1>2, <1>4, <1>8, <1>10 DEF OnPlan, j
  <2>2. NoDuplicates(db, "folded", "live")
    <3>1. db.revision >= 5
      BY <2>1 DEF j
    <3> QED
      BY <1>3, <3>1, SchemaFields DEF Sound, Revisions
  <2>3. db.rows[i].deleted \/ db.rows[k].deleted
    BY <1>7, <2>2 DEF NoDuplicates
  <2> QED
    BY <1>7, <2>1, <2>3 DEF SameName, j
<1> QED
  BY <1>9, <1>10

\* A script fails only over a rival's commit or over an address used twice;
\* the rewrite to lower case never does.
THEOREM FailuresHaveCause == Spec => FailsForCause
<1>1. IInv /\ [Next]_vars =>
        [\A m \in Migrators : Fail(m) =>
            \/ db.revision # job[m].from
            \/ /\ job[m].from < 3 /\ job[m].to = HeadRevision
               /\ \E i, j \in Rows(db) : SameName(i, j) /\ db.rows[i].lower # db.rows[j].lower
            \/ /\ job[m].from >= 5 /\ job[m].to < 5
               /\ \E i, j \in Rows(db) : SameName(i, j) /\ db.rows[i].deleted]_vars
  BY Zenon, FailureHasCause
<1> QED
  BY <1>1, Invariant, PTL DEF Spec, FailsForCause

\* The guard flags the calls that touch rows, and the building of an index.
LEMMA FlaggedCalls ==
    /\ Flagged(Execute) /\ Flagged(DropColumn) /\ Flagged(DropTable)
    /\ \A index, kind : Flagged(CreateIndex(index, kind))
<1>1. Matches("execute", {"update"})
  BY DEF Matches
<1>2. Matches("drop_column", {}) /\ Matches("drop_table", {}) /\ Matches("create_index", {})
  BY DEF Matches
<1>3. Flagged(Execute)
  BY Zenon, <1>1 DEF Flagged, Execute
<1>4. Flagged(DropColumn)
  BY Zenon, <1>2 DEF Flagged, DropColumn
<1>5. Flagged(DropTable)
  BY Zenon, <1>2 DEF Flagged, DropTable
<1>6. \A index, kind : Flagged(CreateIndex(index, kind))
  BY Zenon, <1>2 DEF Flagged, CreateIndex
<1> QED
  BY <1>3, <1>4, <1>5, <1>6

LEMMA BitingCallIsFlagged ==
    ASSUME IInv, NEW m \in Migrators,
           \/ Fail(m) /\ db.revision = job[m].from
           \/ Step(m) /\ work'.rows # Sees(m).rows
    PROVE  Flagged(Call(m))
<1> DEFINE j == job[m]  d == Sees(m)  c == Call(m)
<1>1. CASE Fail(m) /\ db.revision = j.from
  <2>1. j # Null /\ holder \in {Null, m} /\ j.at # j.to /\ ~Succeeds(CallOf(j), d)
    BY <1>1 DEF Fail, MayCall, Call
  <2>2. j \in Job /\ OnPlan(j) /\ d \in Database /\ OnCourse(j, db, d)
    BY <1>1, <2>1, RunIs DEF Current
  <2>3. db.schema = SchemaAt[db.revision] /\ Sound(db)
    BY DEF IInv, Committed
  <2>4. c = CreateIndex("folded", "full")
    BY <1>1, <2>1, <2>2, <2>3, OnlyTheFullIndexFails DEF Call
  <2> QED
    BY <2>4, FlaggedCalls
<1>2. CASE Step(m) /\ work'.rows # d.rows
  <2>1. j # Null /\ holder \in {Null, m} /\ j.at # j.to /\ work' = Effect(c, d)
    BY <1>2 DEF Step, MayCall
  <2>2. j \in Job /\ OnPlan(j) /\ d \in Database
    BY <2>1, RunIs
  <2>3. ~(\A row \in Row : Rewritten(c, d.schema, row) = row)
    BY <1>2, <2>1, <2>2, EffectRows
  <2>4. c = Stamp(j.at, Following(j)) \/ CallCase(j, c, SchemaIn(j))
    BY <2>1, <2>2, CallCases DEF Call, StampCase
  <2> HIDE DEF c, d, j
  <2>5. c \in {Execute, DropColumn, DropTable}
    BY <2>3, <2>4, RowStays DEF CallCase
  <2>6. Flagged(c)
    BY <2>5, FlaggedCalls
  <2> QED
    BY <2>6 DEF c
<1> QED
  BY <1>1, <1>2

\* Every call of the chain that rewrites or loses rows, or fails on them, is
\* one migration_guard.py flags.
THEOREM GuardFlags == Spec => GuardFlagsWhatBites
<1>1. IInv /\ [Next]_vars =>
        [\A m \in Migrators :
            (\/ Fail(m) /\ db.revision = job[m].from
             \/ Step(m) /\ work'.rows # Sees(m).rows)
            => Flagged(Call(m))]_vars
  BY Zenon, BitingCallIsFlagged
<1> QED
  BY <1>1, Invariant, PTL DEF Spec, GuardFlagsWhatBites
=============================================================================
