--------------------------- MODULE UserRefinement ---------------------------
(***************************************************************************)
(* UserUnitOfWork implements UserRegistry: the table stands for its live   *)
(* users, and a request acts at its commit.                                *)
(***************************************************************************)
EXTENDS UserUnitOfWork

\* The registry of live users that the table stands for.
LiveUsers ==
    [i \in Ids |-> IF IsLive(rows[i])
                   THEN [email |-> rows[i].email, profile |-> rows[i].profile]
                   ELSE Null]

SeenUsers ==
    [r \in Reqs |-> IF user[r] = Null THEN Null
                    ELSE [email |-> user[r].email, profile |-> user[r].profile]]

Stage ==
    [r \in Reqs |-> IF pc[r] = "idle" THEN "idle"
                    ELSE IF pc[r] = "committed" THEN "applied"
                    ELSE IF pc[r] = "done" THEN "answered" ELSE "open"]

Registry == INSTANCE UserRegistry WITH
    users <- LiveUsers, taken <- {i \in Ids : rows[i] # Null},
    asked <- req, seen <- SeenUsers, stage <- Stage

\* None is no user.
ASSUME RegistryAssumption == Null \notin Registry!UserData

\* Every interleaving of statements, locks, commits and faults looks, to the
\* clients and to the committed table, like requests that act at one instant.
RegistryPromise == Registry!RSpec
=============================================================================
