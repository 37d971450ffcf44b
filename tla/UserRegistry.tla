---------------------------- MODULE UserRegistry ----------------------------
(***************************************************************************)
(* What the users API promises, without sessions, locks or an index: each  *)
(* request acts at most once and in one instant, on the registry of live   *)
(* users.  A request looks a user up in one instant and acts in a later    *)
(* one (optimistic concurrency is not shipped), so an update writes the    *)
(* fields that differ from the user it saw, and a user deleted in between  *)
(* stays deleted.  A refusal is true at the instant it is given.           *)
(***************************************************************************)
EXTENDS Naturals

CONSTANTS Reqs, Seeds, Emails, Lower, Profiles, Null

Ids == Seeds \cup Reqs
UserData == [email : Emails, profile : Profiles]

VARIABLES
    users,   \* the live users: id -> data, Null for every other id
    taken,   \* the ids ever given to a user
    asked,   \* what each request asks for
    seen,    \* the user a request looked up
    stage,   \* idle, open, applied, answered
    answer   \* the status the client received

rvars == <<users, taken, asked, seen, stage, answer>>

Subject(r) == IF asked[r].op = "create" THEN r ELSE asked[r].id

SameAddress(d, e) == d # Null /\ Lower[d.email] = Lower[e]

Registered(e, r) == \E i \in Ids \ {Subject(r)} : SameAddress(users[i], e)

\* The user that an update of request r makes of d.
Patched(r, d) ==
    LET Field(f) == IF asked[r][f] \in {Null, seen[r][f]} THEN d[f] ELSE asked[r][f]
    IN  [email |-> Field("email"), profile |-> Field("profile")]

Effect(r) ==
    CASE asked[r].op = "get" -> users
      [] asked[r].op = "create" ->
             [users EXCEPT ![r] = [email |-> asked[r].email, profile |-> asked[r].profile]]
      [] asked[r].op = "delete" -> [users EXCEPT ![asked[r].id] = Null]
      [] asked[r].op = "update" ->
             IF users[asked[r].id] = Null THEN users
             ELSE [users EXCEPT ![asked[r].id] = Patched(r, @)]

Move(r, s) == stage' = [stage EXCEPT ![r] = s]

Ask(r) ==
    /\ stage[r] = "idle" /\ Move(r, "open")
    /\ \E op \in {"create", "get", "update", "delete"}, id \in Ids \cup {Null},
          e \in Emails \cup {Null}, p \in Profiles \cup {Null} :
           asked' = [asked EXCEPT ![r] = [op |-> op, id |-> id, email |-> e, profile |-> p]]
    /\ UNCHANGED <<users, taken, seen, answer>>

LookUp(r) ==
    /\ stage[r] = "open" /\ asked[r].op # "create" /\ seen[r] = Null
    /\ users[asked[r].id] # Null
    /\ seen' = [seen EXCEPT ![r] = users[asked[r].id]]
    /\ UNCHANGED <<users, taken, asked, stage, answer>>

\* The one effect of a request: an unused id for a new user, no action on a
\* user that was not seen alive, and an address no other live user holds.
Act(r) ==
    /\ stage[r] = "open"
    /\ IF asked[r].op = "create"
       THEN r \notin taken /\ taken' = taken \cup {r}
       ELSE seen[r] # Null /\ UNCHANGED taken
    /\ users' = Effect(r)
    /\ \A i, j \in Ids : users'[i] # Null /\ users'[j] # Null
           /\ SameAddress(users'[i], users'[j].email) => i = j
    /\ UNCHANGED <<asked, seen>>

Apply(r) == Act(r) /\ Move(r, "applied") /\ UNCHANGED answer

Reply(r, status) == Move(r, "answered") /\ answer' = [answer EXCEPT ![r] = status]

Acknowledge(r) ==
    /\ stage[r] = "applied"
    /\ Reply(r, CASE asked[r].op = "create" -> 201
                  [] asked[r].op = "delete" -> 204
                  [] OTHER -> 200)
    /\ UNCHANGED <<users, taken, asked, seen>>

RefuseAbsent(r) ==
    /\ stage[r] = "open" /\ asked[r].op # "create"
    /\ users[asked[r].id] = Null /\ seen[r] = Null
    /\ Reply(r, 404)
    /\ UNCHANGED <<users, taken, asked, seen>>

RefuseDuplicate(r) ==
    /\ stage[r] = "open" /\ asked[r].email # Null
    /\ Registered(asked[r].email, r)
    /\ Reply(r, 409)
    /\ UNCHANGED <<users, taken, asked, seen>>

\* A server error or a timeout: without effect, after the effect, or (the
\* commit was cut short) together with it.
Break(r) ==
    /\ stage[r] \in {"open", "applied"}
    /\ \E status \in {500, 504} : Reply(r, status)
    /\ \/ UNCHANGED <<users, taken, asked, seen>>
       \/ Act(r)

RInit ==
    /\ users \in [Ids -> UserData \cup {Null}]
    /\ taken \in SUBSET Seeds
    /\ \A i \in Ids : users[i] # Null => i \in taken
    /\ stage = [r \in Reqs |-> "idle"]
    /\ seen = [r \in Reqs |-> Null]
    /\ answer = [r \in Reqs |-> Null]

RNext ==
    \E r \in Reqs :
        \/ Ask(r) \/ LookUp(r) \/ Apply(r) \/ Acknowledge(r)
        \/ RefuseAbsent(r) \/ RefuseDuplicate(r) \/ Break(r)

RSpec == RInit /\ [][RNext]_rvars
=============================================================================
