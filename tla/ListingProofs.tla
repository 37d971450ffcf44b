---------------------------- MODULE ListingProofs ----------------------------
(***************************************************************************)
(* Theorems of AccessControl's decisions, for every setting, host, token   *)
(* and clock, and of UserListing, for any table, query, settings and       *)
(* token, any number of pages and any writers: the types, what a walk's    *)
(* requests take from AccessControl, and what the pages put together say.  *)
(*                                                                         *)
(* A walk is followed by places: the sort and the primary key give every   *)
(* matching user a number of users before it, a page is who stands at its  *)
(* places, and a commit moves nobody else by more than one.                *)
(***************************************************************************)
EXTENDS UserListing, TLAPS, FiniteSetTheorems

\* A server that started in production never answers that authentication is
\* not configured (app/core/config.py:12-14), whatever token comes.
THEOREM ProductionAuthenticates ==
    ASSUME NEW s, NEW t, NEW now, NEW roles, Boots(s), ENV(s) = "production"
    PROVE  require_roles(roles, s, t, now) # "not configured"
<1>1. s.jwks = "https" /\ s.issuer # "" /\ s.audience # ""
  BY DEF Boots, validate_production_settings, validate_production_oauth
<1>2. validate_token(s, t, now) \in {"ok", "unauthorized"}
  BY <1>1 DEF validate_token
<1>3. get_current_caller(s, t, now) \in {"ok", "unauthorized"}
  BY <1>2 DEF get_current_caller
<1> QED
  BY <1>3 DEF require_roles

\* A token that is accepted carries the issuer and the audience the settings
\* name, both set, is signed by the provider and not expired beyond the
\* leeway: PyJWT's silence about an unset issuer lets none through.
THEOREM AcceptedIsIssued ==
    ASSUME NEW s, NEW t, NEW now, validate_token(s, t, now) = "ok"
    PROVE  /\ s.issuer # "" /\ s.audience # ""
           /\ t.iss = s.issuer /\ t.aud = s.audience
           /\ t.key = "provider" /\ t.missing = {} /\ t.exp > now - Leeway
<1>1. s.issuer # "" /\ s.audience # "" /\ Decodes(s, t, now)
  BY DEF validate_token
<1> QED
  BY <1>1 DEF Decodes

\* Who gets past require_roles is a named caller with an accepted token, and
\* holds every role asked for or, where the settings enable it, the bypass.
THEOREM AdmittedHoldsRoles ==
    ASSUME NEW s, NEW t, NEW now, NEW roles, require_roles(roles, s, t, now) = "ok"
    PROVE  /\ validate_token(s, t, now) = "ok" /\ t.sub # ""
           /\ \/ roles \subseteq extract_roles(t)
              \/ s.superuser.enabled /\ s.superuser.role \in extract_roles(t)
<1>1. get_current_caller(s, t, now) = "ok"
  BY DEF require_roles
<1>2. validate_token(s, t, now) = "ok" /\ t.sub # ""
  BY <1>1 DEF get_current_caller
<1> QED
  BY <1>1, <1>2 DEF require_roles, is_superuser

-----------------------------------------------------------------------------
(***************************************************************************)
(* The walk.                                                               *)
(***************************************************************************)
\* What comes after "boot" is a server that booted, and the parameters were
\* checked by the time rows are read.
Checked ==
    /\ start \in Starts
    /\ pc \notin {"boot", "refused"} => Boots(start.settings)
    /\ pc \in {"rows", "count", "page"} => query.limit \in 1 .. MaxLimit

IInv == TypeOK /\ Checked /\ ProductionIsConfigured

\* What the assumption says of a start.
LEMMA StartFacts ==
    /\ MaxClock \in Nat
    /\ \A s \in Starts :
           /\ s.table \in [Ids -> Kinds \cup {Null}] /\ s.commits \in Nat
           /\ s.query.limit \in Nat /\ s.clock \in 0 .. MaxClock
  BY Zenon, ListingAssumption

LEMMA TokenFacts ==
    ASSUME NEW s \in Starts
    PROVE  /\ s.settings.issuer \in {"", "provider"} /\ s.settings.audience \in {"", "service"}
           /\ s.token.form \in {"none", "garbled", "jwt"}
           /\ s.token.iat \in Int /\ s.token.exp \in Int
  BY Zenon, ListingAssumption

LEMMA InitInvariant == Init => IInv
  BY StartFacts DEF Init, IInv, TypeOK, Checked, ProductionIsConfigured, query

\* LIMIT and OFFSET cut a sequence no longer than the limit out of the rows.
LEMMA WindowIsShort ==
    ASSUME NEW s \in Seq(Ids), offset \in Nat, query.limit \in Nat
    PROVE  Window(s) \in Seq(Ids) /\ Len(Window(s)) <= query.limit
<1> DEFINE last == Min({Len(s), offset + query.limit})
<1>1. last \in Nat /\ last <= Len(s) /\ last <= offset + query.limit
  <2>1. \E x \in {Len(s), offset + query.limit} :
            \A y \in {Len(s), offset + query.limit} : x <= y
    OBVIOUS
  <2> QED
    BY <2>1 DEF Min
<1> HIDE DEF last
<1>2. Window(s) = SubSeq(s, offset + 1, last)
  BY DEF Window, last
<1>3. SubSeq(s, offset + 1, last) \in Seq(Ids)
  BY <1>1
<1>4. Len(SubSeq(s, offset + 1, last)) = IF offset + 1 <= last THEN last - offset ELSE 0
  BY <1>1
<1> QED
  BY <1>1, <1>2, <1>3, <1>4

LEMMA CountIsNat == Count \in Nat
<1>1. Matching \subseteq Ids
  BY DEF Matching
<1>2. IsFiniteSet(Matching)
  BY <1>1, ListingAssumption, FS_Subset
<1> QED
  BY <1>2, FS_CardinalityType DEF Count

LEMMA OrdersAreRows == \A s \in Orders : s \in Seq(Ids)
<1> SUFFICES ASSUME NEW s \in Orders PROVE s \in Seq(Ids)
  OBVIOUS
<1>1. Matching \subseteq Ids /\ Cardinality(Matching) \in Nat
  BY CountIsNat DEF Matching, Count
<1>2. s \in [1 .. Cardinality(Matching) -> Matching]
  BY DEF Orders, SetToSeqs
<1> QED
  BY <1>1, <1>2

LEMMA RequestKeepsInvariant == IInv /\ Request => IInv'
<1> SUFFICES ASSUME IInv, Request PROVE IInv'
  OBVIOUS
<1>1. pc = "next" /\ start \in Starts /\ Boots(start.settings)
      /\ UNCHANGED <<start, clock, table, offset, page, total, got, writes, touched>>
  BY DEF Request, IInv, Checked
<1>2. Caller \in {"ok", "not configured", "unauthorized", "forbidden"}
  <2>1. validate_token(start.settings, start.token, clock)
            \in {"ok", "not configured", "unauthorized"}
    BY Zenon DEF validate_token
  <2>2. get_current_caller(start.settings, start.token, clock)
            \in {"ok", "not configured", "unauthorized"}
    BY <2>1 DEF get_current_caller
  <2> QED
    BY <2>2 DEF Caller, require_roles
<1>3. Caller = "not configured" => ENV(start.settings) # "production"
  BY <1>1, ProductionAuthenticates DEF Caller
<1>4. answer' \in {"bad host", "unprocessable", "bad request", "ok", Caller}
  BY DEF Request
<1>5. pc' = IF answer' = "ok" THEN "rows" ELSE "refused"
  BY DEF Request
<1>6. answer' = "ok" => Valid(query)
  BY DEF Request
<1>7. ProductionIsConfigured'
  BY <1>1, <1>3, <1>4 DEF ProductionIsConfigured, ENV
<1>8. TypeOK'
  BY <1>1, <1>2, <1>4, <1>5 DEF IInv, TypeOK, query
<1>9. Checked'
  BY <1>1, <1>5, <1>6 DEF Checked, Valid, query
<1> QED
  BY <1>7, <1>8, <1>9 DEF IInv

LEMMA PageKeepsInvariant == IInv /\ (Boot \/ ReadRows \/ ReadTotal \/ Respond) => IInv'
<1> SUFFICES ASSUME IInv, Boot \/ ReadRows \/ ReadTotal \/ Respond PROVE IInv'
  OBVIOUS
<1>1. CASE Boot
  BY <1>1 DEF Boot, IInv, TypeOK, Checked, ProductionIsConfigured, query
<1>2. CASE ReadRows
  <2>1. PICK s \in Orders : page' = Window(s)
    BY <1>2 DEF ReadRows
  <2>2. page' \in Seq(Ids) /\ Len(page') <= query.limit
    BY <1>2, <2>1, OrdersAreRows, WindowIsShort, StartFacts
       DEF ReadRows, IInv, TypeOK, Checked, query
  <2> QED
    BY <1>2, <2>2 DEF ReadRows, IInv, TypeOK, Checked, ProductionIsConfigured, query
<1>3. CASE ReadTotal
  BY <1>3, CountIsNat DEF ReadTotal, IInv, TypeOK, Checked, ProductionIsConfigured, query
<1>4. CASE Respond
  <2>1. got' \in Seq(Ids) /\ offset' \in Nat
    <3>1. start.query.limit \in Nat /\ offset \in Nat /\ got \in Seq(Ids) /\ page \in Seq(Ids)
      BY StartFacts DEF IInv, TypeOK, Checked
    <3>2. got' = got \o page /\ offset' \in {offset, offset + start.query.limit}
      BY <1>4 DEF Respond, query
    <3>3. got \o page \in Seq(Ids)
      BY <3>1
    <3> QED
      BY <3>1, <3>2, <3>3
  <2>2. pc' \in {"done", "next"} /\ pc = "page"
        /\ UNCHANGED <<start, clock, answer, table, page, total, writes, touched>>
    BY <1>4 DEF Respond
  <2> QED
    BY <2>1, <2>2 DEF IInv, TypeOK, Checked, ProductionIsConfigured, query
<1> QED
  BY <1>1, <1>2, <1>3, <1>4

\* The writers, and the clock.
LEMMA OthersKeepInvariant ==
    ASSUME IInv,
           Tick \/ \E i \in Ids : Delete(i) \/ \E k \in Kinds : Insert(i, k) \/ Update(i, k)
    PROVE  IInv'
<1>1. CASE Tick
  <2>1. clock' \in 0 .. MaxClock
    <3>1. clock \in 0 .. MaxClock /\ MaxClock \in Nat
      BY StartFacts DEF IInv, TypeOK
    <3>2. clock < MaxClock /\ clock' = clock + 1
      BY <1>1 DEF Tick
    <3> QED
      BY <3>1, <3>2
  <2>2. UNCHANGED <<start, answer, table, pc, offset, page, total, got, writes, touched>>
    BY <1>1 DEF Tick
  <2> QED
    BY <2>1, <2>2 DEF IInv, TypeOK, Checked, ProductionIsConfigured, query
<1>2. CASE \E i \in Ids, row \in Kinds \cup {Null} : Write(i, row)
  <2>1. PICK i \in Ids, row \in Kinds \cup {Null} : Write(i, row)
    BY <1>2
  <2>2. table' \in [Ids -> Kinds \cup {Null}] /\ touched' \subseteq Ids
    BY <2>1 DEF Write, IInv, TypeOK
  <2>3. start.commits \in Nat
    BY StartFacts DEF IInv, Checked
  <2>4. writes' \in 0 .. start.commits
    <3>1. writes \in 0 .. start.commits
      BY DEF IInv, TypeOK
    <3>2. writes < start.commits /\ writes' = writes + 1
      BY <2>1 DEF Write
    <3> QED
      BY <2>3, <3>1, <3>2
  <2>5. UNCHANGED <<start, clock, answer, pc, offset, page, total, got>>
    BY <2>1 DEF Write
  <2> QED
    BY <2>2, <2>4, <2>5 DEF IInv, TypeOK, Checked, ProductionIsConfigured, query
<1> QED
  BY <1>1, <1>2 DEF Delete, Insert, Update

LEMMA StepInvariant == IInv /\ [Next]_vars => IInv'
<1>1. IInv /\ UNCHANGED vars => IInv'
  BY DEF vars, IInv, TypeOK, Checked, ProductionIsConfigured, query
<1> QED
  BY <1>1, RequestKeepsInvariant, PageKeepsInvariant, OthersKeepInvariant DEF Next

THEOREM Invariant == Spec => []IInv
  BY InitInvariant, StepInvariant, PTL DEF Spec

-----------------------------------------------------------------------------
\* The state of a walk keeps its shape, and no page is longer than its limit,
\* whatever limits are asked for.
THEOREM TypeCorrect == Spec => []TypeOK
  BY Invariant, PTL DEF IInv

\* config.py's promise, of every request of every walk: a server that started
\* in production never finds authentication not configured.
THEOREM ProductionConfigured == Spec => []ProductionIsConfigured
  BY Invariant, PTL DEF IInv

\* require_roles at every page: rows are read only for a token of the
\* provider, for this service, within its life at that moment, naming its
\* subject, with the reader's role or the enabled bypass.
THEOREM ReadersOnly == Spec => RowsNeedAReader
<1> DEFINE t == start.token
           Admitted == /\ t.form = "jwt" /\ t.key = "provider" /\ t.iss = "provider"
                       /\ t.aud = "service"
                       /\ clock - t.exp < Leeway /\ t.iat - clock <= Leeway
                       /\ t.missing = {} /\ t.sub # ""
                       /\ \/ "users.read" \in t.roles.names
                          \/ /\ start.settings.superuser.enabled
                             /\ start.settings.superuser.role \in t.roles.names
<1>1. IInv /\ [Next]_vars => [pc = "next" /\ pc' = "rows" => Admitted]_vars
  <2> SUFFICES ASSUME IInv, Next, pc = "next", pc' = "rows" PROVE Admitted
    OBVIOUS
  <2>1. Request
    BY DEF Next, Boot, Tick, ReadRows, ReadTotal, Respond, Delete, Insert, Update, Write
  <2>2. require_roles({"users.read"}, start.settings, t, clock) = "ok"
    BY <2>1 DEF Request, Caller
  <2>3. /\ validate_token(start.settings, t, clock) = "ok" /\ t.sub # ""
        /\ \/ {"users.read"} \subseteq extract_roles(t)
           \/ start.settings.superuser.enabled
              /\ start.settings.superuser.role \in extract_roles(t)
    BY <2>2, AdmittedHoldsRoles
  <2>4. Decodes(start.settings, t, clock) /\ start.settings.issuer # ""
        /\ start.settings.audience # "" /\ t.form # "none" /\ t.form # "garbled"
    BY <2>3, Zenon DEF validate_token
  <2>5. /\ start.settings.issuer = "provider" /\ start.settings.audience = "service"
        /\ t.iat \in Int /\ t.exp \in Int /\ clock \in Int
        /\ t.form \in {"none", "garbled", "jwt"}
    <3>1. start \in Starts /\ clock \in 0 .. MaxClock /\ MaxClock \in Nat
      BY StartFacts DEF IInv, Checked, TypeOK
    <3>2. clock \in Int
      BY <3>1
    <3>3. /\ start.settings.issuer \in {"", "provider"}
          /\ start.settings.audience \in {"", "service"}
          /\ t.form \in {"none", "garbled", "jwt"} /\ t.iat \in Int /\ t.exp \in Int
      BY <3>1, TokenFacts
    <3> QED
      BY <2>4, <3>2, <3>3
  <2>6. extract_roles(t) \subseteq t.roles.names
    BY DEF extract_roles
  <2> DEFINE HasRole == \/ "users.read" \in t.roles.names
                        \/ /\ start.settings.superuser.enabled
                           /\ start.settings.superuser.role \in t.roles.names
  <2>7. HasRole
    BY <2>3, <2>6
  <2>8. /\ t.form = "jwt" /\ t.key = "provider" /\ t.missing = {}
        /\ t.iss = "provider" /\ t.aud = "service"
        /\ t.exp > clock - Leeway /\ t.iat <= clock + Leeway
    BY <2>4, <2>5 DEF Decodes
  <2>9. clock - t.exp < Leeway /\ t.iat - clock <= Leeway
    BY <2>5, <2>8, AccessAssumption
  <2> QED
    BY <2>3, <2>7, <2>8, <2>9
<1> QED
  BY <1>1, Invariant, PTL DEF Spec, RowsNeedAReader

-----------------------------------------------------------------------------
(***************************************************************************)
(* Places: how many of M come before one, in an order R of it.             *)
(***************************************************************************)
\* R orders M, each element against each other.
Linear(M, R) ==
    /\ \A u \in M : <<u, u>> \notin R
    /\ \A u, v, w \in M : <<u, v>> \in R /\ <<v, w>> \in R => <<u, w>> \in R
    /\ \A u, v \in M : u # v => <<u, v>> \in R \/ <<v, u>> \in R

\* How many come before u, and who is among the first n.
Ahead(M, R, u) == {v \in M : <<v, u>> \in R}

Place(M, R, u) == Cardinality(Ahead(M, R, u))

First(M, R, n) == {u \in M : Place(M, R, u) < n}

Later(M, R, n) == M \ First(M, R, n)

Elements(s) == {s[k] : k \in DOMAIN s}

LEMMA PlaceIsNat ==
    ASSUME NEW M, IsFiniteSet(M), NEW R, NEW u
    PROVE  IsFiniteSet(Ahead(M, R, u)) /\ Place(M, R, u) \in Nat
<1>1. Ahead(M, R, u) \subseteq M
  BY DEF Ahead
<1>2. IsFiniteSet(Ahead(M, R, u))
  BY <1>1, FS_Subset
<1> QED
  BY <1>2, FS_CardinalityType DEF Place

\* Who comes later has a higher place, so no place is taken twice.
LEMMA PlacesGrow ==
    ASSUME NEW M, IsFiniteSet(M), NEW R, Linear(M, R), NEW u \in M, NEW v \in M, <<u, v>> \in R
    PROVE  Place(M, R, u) < Place(M, R, v)
<1>1. Ahead(M, R, u) \subseteq Ahead(M, R, v) /\ u \in Ahead(M, R, v) /\ u \notin Ahead(M, R, u)
  BY DEF Ahead, Linear
<1>2. IsFiniteSet(Ahead(M, R, v)) /\ Place(M, R, u) \in Nat /\ Place(M, R, v) \in Nat
  BY PlaceIsNat
<1>3. Cardinality(Ahead(M, R, u)) <= Cardinality(Ahead(M, R, v))
      /\ Cardinality(Ahead(M, R, u)) # Cardinality(Ahead(M, R, v))
  BY <1>1, <1>2, FS_Subset
<1> QED
  BY <1>2, <1>3 DEF Place

LEMMA PlacesDiffer ==
    ASSUME NEW M, IsFiniteSet(M), NEW R, Linear(M, R), NEW u \in M, NEW v \in M,
           Place(M, R, u) = Place(M, R, v)
    PROVE  u = v
<1>1. Place(M, R, u) \in Nat /\ Place(M, R, v) \in Nat
  BY PlaceIsNat
<1>2. SUFFICES ASSUME u # v PROVE FALSE
  OBVIOUS
<1>3. <<u, v>> \in R \/ <<v, u>> \in R
  BY <1>2 DEF Linear
<1> QED
  BY <1>1, <1>3, PlacesGrow

LEMMA Numbers ==
    ASSUME NEW n \in Nat
    PROVE  IsFiniteSet(1 .. n) /\ Cardinality(1 .. n) = n
<1>1. n \in Int /\ 1 \in Int
  OBVIOUS
<1>2. IsFiniteSet(1 .. n) /\ Cardinality(1 .. n) = IF 1 > n THEN 0 ELSE n - 1 + 1
  BY <1>1, FS_Interval
<1> QED
  BY <1>2

\* s lists all of M, n users, in an order that R does not contradict.
Listed(M, R, n, s) ==
    /\ n = Cardinality(M) /\ s \in [1 .. n -> M]
    /\ \A k, l \in 1 .. n : k # l => s[k] # s[l]
    /\ \A k, l \in 1 .. n : k < l => <<s[l], s[k]>> \notin R

\* In such a list each stands at its place.
LEMMA SortedPlaces ==
    ASSUME NEW M, IsFiniteSet(M), NEW R, Linear(M, R), NEW n \in Nat, NEW s, Listed(M, R, n, s)
    PROVE  /\ Elements(s) = M
           /\ \A k \in 1 .. n : Place(M, R, s[k]) = k - 1
<1>0. /\ n = Cardinality(M) /\ s \in [1 .. n -> M]
      /\ \A k, l \in 1 .. n : k # l => s[k] # s[l]
      /\ \A k, l \in 1 .. n : k < l => <<s[l], s[k]>> \notin R
  BY DEF Listed
<1>1. s \in Injection(1 .. n, M)
  BY <1>0 DEF Injection, IsInjective
<1>2. IsFiniteSet(1 .. n) /\ Cardinality(1 .. n) = n
  BY Numbers
<1>3. s \in Surjection(1 .. n, M)
  BY <1>0, <1>1, <1>2, FS_Injection
<1>4. Elements(s) = M
  BY <1>3 DEF Surjection, Elements
<1>5. ASSUME NEW k \in 1 .. n
      PROVE  Place(M, R, s[k]) = k - 1
  <2> DEFINE f == [l \in 1 .. k - 1 |-> s[l]]
  <2>1. \A l \in 1 .. n : <<s[l], s[k]>> \in R <=> l < k
    <3> SUFFICES ASSUME NEW l \in 1 .. n PROVE <<s[l], s[k]>> \in R <=> l < k
      OBVIOUS
    <3>1. l < k \/ l = k \/ k < l
      OBVIOUS
    <3>2. CASE l < k
      <4>1. s[l] # s[k] /\ s[l] \in M /\ s[k] \in M /\ <<s[k], s[l]>> \notin R
        BY <1>0, <3>2
      <4> QED
        BY <3>2, <4>1 DEF Linear
    <3>3. CASE l = k
      BY <1>0, <3>3 DEF Linear
    <3>4. CASE k < l
      BY <1>0, <3>4
    <3> QED
      BY <1>0, <3>1, <3>2, <3>3, <3>4
  <2>2. Ahead(M, R, s[k]) = {s[l] : l \in 1 .. k - 1}
    <3>1. \A v \in M : \E l \in 1 .. n : v = s[l]
      BY <1>0, <1>4 DEF Elements
    <3>2. \A l \in 1 .. n : l < k <=> l \in 1 .. k - 1
      OBVIOUS
    <3>3. 1 .. k - 1 \subseteq 1 .. n
      OBVIOUS
    <3> QED
      BY <1>0, <2>1, <3>1, <3>2, <3>3 DEF Ahead
  <2>3. f \in Bijection(1 .. k - 1, Ahead(M, R, s[k]))
    <3>1. 1 .. k - 1 \subseteq 1 .. n
      OBVIOUS
    <3>2. f \in [1 .. k - 1 -> Ahead(M, R, s[k])]
      BY <2>2
    <3>3. \A a, b \in 1 .. k - 1 : f[a] = f[b] => a = b
      BY <1>0, <3>1
    <3>4. \A v \in Ahead(M, R, s[k]) : \E a \in 1 .. k - 1 : f[a] = v
      BY <2>2
    <3> QED
      BY <3>2, <3>3, <3>4 DEF Bijection, Injection, Surjection, IsInjective
  <2>4. IsFiniteSet(1 .. k - 1) /\ Cardinality(1 .. k - 1) = k - 1
    <3>1. k - 1 \in Nat
      OBVIOUS
    <3> QED
      BY <3>1, Numbers
  <2>5. ExistsBijection(1 .. k - 1, Ahead(M, R, s[k]))
    BY <2>3 DEF ExistsBijection
  <2> QED
    BY <2>4, <2>5, FS_Bijection DEF Place
<1> QED
  BY <1>4, <1>5

-----------------------------------------------------------------------------
(***************************************************************************)
(* What one commit does to the places.                                     *)
(***************************************************************************)
\* A commit on the row i: the others stay, in the order they had.
Others(M, R, N, S, i) ==
    /\ \A u : u # i => (u \in N <=> u \in M)
    /\ \A u, v : u # i /\ v # i => (<<u, v>> \in S <=> <<u, v>> \in R)

LEMMA PlaceShifts ==
    ASSUME NEW M, IsFiniteSet(M), NEW R, NEW N, IsFiniteSet(N), NEW S, NEW i,
           Others(M, R, N, S, i), NEW u, u # i
    PROVE  Place(N, S, u) - (IF i \in Ahead(N, S, u) THEN 1 ELSE 0)
           = Place(M, R, u) - (IF i \in Ahead(M, R, u) THEN 1 ELSE 0)
<1> DEFINE A == Ahead(M, R, u)  B == Ahead(N, S, u)
<1>1. A \ {i} = B \ {i}
  BY DEF Ahead, Others
<1>2. /\ IsFiniteSet(A) /\ Cardinality(A) \in Nat
      /\ IsFiniteSet(B) /\ Cardinality(B) \in Nat
  BY PlaceIsNat DEF Place
<1>3. /\ Cardinality(A \ {i}) = IF i \in A THEN Cardinality(A) - 1 ELSE Cardinality(A)
      /\ Cardinality(B \ {i}) = IF i \in B THEN Cardinality(B) - 1 ELSE Cardinality(B)
  BY <1>2, FS_RemoveElement
<1> HIDE DEF A, B
<1>4. Cardinality(B) - (IF i \in B THEN 1 ELSE 0) = Cardinality(A) - (IF i \in A THEN 1 ELSE 0)
  BY <1>1, <1>2, <1>3
<1> QED
  BY <1>4 DEF A, B, Place

\* It brings one other row at most among the first n ...
LEMMA FirstGains ==
    ASSUME NEW M, IsFiniteSet(M), NEW R, NEW N, IsFiniteSet(N), NEW S, NEW i,
           Others(M, R, N, S, i), Linear(M, R), NEW n \in Nat
    PROVE  \E x : First(N, S, n) \ {i} \subseteq First(M, R, n) \cup {x}
<1> DEFINE New == (First(N, S, n) \ {i}) \ First(M, R, n)
<1>1. ASSUME NEW u \in New
      PROVE  u \in M /\ Place(M, R, u) = n
  <2>1. u # i /\ u \in N /\ Place(N, S, u) < n
    BY DEF First
  <2>2. u \in M
    BY <2>1 DEF Others
  <2>3. ~(Place(M, R, u) < n)
    BY <2>2 DEF First
  <2>4. Place(N, S, u) \in Nat /\ Place(M, R, u) \in Nat
    BY PlaceIsNat
  <2>5. Place(N, S, u) - (IF i \in Ahead(N, S, u) THEN 1 ELSE 0)
        = Place(M, R, u) - (IF i \in Ahead(M, R, u) THEN 1 ELSE 0)
    BY <2>1, PlaceShifts
  <2> QED
    BY <2>1, <2>2, <2>3, <2>4, <2>5
<1>2. \A u, v \in New : u = v
  BY <1>1, PlacesDiffer
<1> QED
  BY <1>2

\* ... and one row at most, itself or another, past them.
LEMMA LaterGains ==
    ASSUME NEW M, IsFiniteSet(M), NEW R, NEW N, IsFiniteSet(N), NEW S, NEW i,
           Others(M, R, N, S, i), Linear(M, R), Linear(N, S), NEW n \in Nat
    PROVE  \E x : Later(N, S, n) \subseteq Later(M, R, n) \cup {x}
<1> DEFINE New == Later(N, S, n) \ Later(M, R, n)
<1>1. ASSUME NEW u \in New, u # i
      PROVE  u \in M /\ u \in N /\ i \in Ahead(N, S, u) /\ Place(N, S, u) = n
             /\ Place(M, R, u) = n - 1
  <2>1. u \in N /\ ~(Place(N, S, u) < n)
    BY DEF Later, First
  <2>2. u \in M
    BY <1>1, <2>1 DEF Others
  <2>3. Place(M, R, u) < n
    BY <2>2 DEF Later, First
  <2>4. Place(N, S, u) \in Nat /\ Place(M, R, u) \in Nat
    BY PlaceIsNat
  <2>5. Place(N, S, u) - (IF i \in Ahead(N, S, u) THEN 1 ELSE 0)
        = Place(M, R, u) - (IF i \in Ahead(M, R, u) THEN 1 ELSE 0)
    BY <1>1, PlaceShifts
  <2> QED
    BY <2>1, <2>2, <2>3, <2>4, <2>5
<1>2. ASSUME i \in New, NEW u \in New, u # i
      PROVE  FALSE
  <2>1. i \in N /\ ~(Place(N, S, i) < n)
    BY <1>2 DEF Later, First
  <2>2. <<i, u>> \in S /\ u \in N /\ Place(N, S, u) = n
    BY <1>1, <1>2 DEF Ahead
  <2> QED
    BY <2>1, <2>2, PlacesGrow
<1>3. \A u, v \in New : u = v
  <2> SUFFICES ASSUME NEW u \in New, NEW v \in New PROVE u = v
    OBVIOUS
  <2>1. CASE u = i \/ v = i
    BY <2>1, <1>2
  <2>2. CASE u # i /\ v # i
    BY <2>2, <1>1, PlacesDiffer
  <2> QED
    BY <2>1, <2>2
<1> QED
  BY <1>3

LEMMA OneMore ==
    ASSUME NEW T, IsFiniteSet(T), NEW x, NEW U, U \subseteq T \cup {x}
    PROVE  IsFiniteSet(U) /\ Cardinality(U) <= Cardinality(T) + 1
<1>1. /\ IsFiniteSet(T \cup {x}) /\ Cardinality(T) \in Nat
      /\ Cardinality(T \cup {x}) <= Cardinality(T) + 1
  BY FS_AddElement, FS_CardinalityType
<1>2. /\ IsFiniteSet(U) /\ Cardinality(U) <= Cardinality(T \cup {x})
  BY <1>1, FS_Subset
<1>3. Cardinality(U) \in Nat /\ Cardinality(T \cup {x}) \in Nat
  BY <1>1, <1>2, FS_CardinalityType
<1> QED
  BY <1>1, <1>2, <1>3

LEMMA FewerOf ==
    ASSUME NEW T, IsFiniteSet(T), NEW U, U \subseteq T
    PROVE  /\ IsFiniteSet(U) /\ Cardinality(U) <= Cardinality(T)
           /\ Cardinality(U) \in Nat /\ Cardinality(T) \in Nat
  BY FS_Subset, FS_CardinalityType

\* Before of the model, over any table.
Sooner(t, sort, i, j) ==
    LET Less(k) == IF sort[k].desc THEN t[j][sort[k].field] < t[i][sort[k].field]
                   ELSE t[i][sort[k].field] < t[j][sort[k].field]
        Same(k) == t[i][sort[k].field] = t[j][sort[k].field]
    IN  \E k \in Terms(sort) : Less(k) /\ \A l \in Terms(sort) : l < k => Same(l)

Ordered(t, sort) ==
    {p \in Ids \X Ids :
        \/ Sooner(t, sort, p[1], p[2])
        \/ ~Sooner(t, sort, p[1], p[2]) /\ ~Sooner(t, sort, p[2], p[1]) /\ p[1] < p[2]}

\* The terms of the sort and then the primary key leave no tie, and no cycle.
LEMMA OrderIsLinear ==
    ASSUME NEW t, NEW sort, Terms(sort) \subseteq Nat, NEW M, M \subseteq Ids,
           \A k \in Terms(sort), u \in M : t[u][sort[k].field] \in Nat
    PROVE  Linear(M, Ordered(t, sort))
<1> DEFINE Less(k, i, j) == IF sort[k].desc THEN t[j][sort[k].field] < t[i][sort[k].field]
                            ELSE t[i][sort[k].field] < t[j][sort[k].field]
           Same(k, i, j) == t[i][sort[k].field] = t[j][sort[k].field]
           Soon(i, j) == Sooner(t, sort, i, j)
           K == Terms(sort)
<1>1. \A k \in K, u, v \in M : Less(k, u, v) \/ Same(k, u, v) \/ Less(k, v, u)
  OBVIOUS
<1>2. \A k \in K, u, v \in M : ~(Less(k, u, v) /\ Same(k, u, v))
  OBVIOUS
<1>3. \A k \in K, u, v, w \in M :
          /\ Less(k, u, v) /\ Less(k, v, w) => Less(k, u, w)
          /\ Less(k, u, v) /\ Same(k, v, w) => Less(k, u, w)
          /\ Same(k, u, v) /\ Less(k, v, w) => Less(k, u, w)
          /\ Same(k, u, v) /\ Same(k, v, w) => Same(k, u, w)
  OBVIOUS
<1>4. \A k, u, v : Same(k, u, v) <=> Same(k, v, u)
  OBVIOUS
<1>5. \A u, v : Soon(u, v) <=> \E k \in K : Less(k, u, v) /\ \A l \in K : l < k => Same(l, u, v)
  BY DEF Sooner
<1>6. \A u : Same(0, u, u) /\ \A k : Same(k, u, u)
  OBVIOUS
<1>7. K \subseteq Nat /\ Ids \subseteq Nat
  BY ListingAssumption
<1> HIDE DEF Less, Same, Soon, K
<1>8. \A u \in M : ~Soon(u, u)
  BY <1>2, <1>5, <1>6
<1>9. \A u, v, w \in M : Soon(u, v) /\ Soon(v, w) => Soon(u, w)
  <2> SUFFICES ASSUME NEW u \in M, NEW v \in M, NEW w \in M, Soon(u, v), Soon(v, w)
               PROVE  Soon(u, w)
    OBVIOUS
  <2>1. PICK k \in K : Less(k, u, v) /\ \A l \in K : l < k => Same(l, u, v)
    BY <1>5
  <2>2. PICK m \in K : Less(m, v, w) /\ \A l \in K : l < m => Same(l, v, w)
    BY <1>5
  <2>3. CASE k < m
    BY <2>1, <2>2, <2>3, <1>3, <1>5, <1>7
  <2>4. CASE k = m
    BY <2>1, <2>2, <2>4, <1>3, <1>5, <1>7
  <2>5. CASE m < k
    BY <2>1, <2>2, <2>5, <1>3, <1>5, <1>7
  <2> QED
    BY <2>3, <2>4, <2>5, <1>7
\* Ties share every term: the first that they did not share would order them.
<1>10. \A u, v \in M : ~Soon(u, v) /\ ~Soon(v, u) => \A k \in K : Same(k, u, v)
  <2> SUFFICES ASSUME NEW u \in M, NEW v \in M, ~Soon(u, v), ~Soon(v, u),
                      NEW k \in K, ~Same(k, u, v)
               PROVE  FALSE
    OBVIOUS
  <2> DEFINE D == {l \in K : ~Same(l, u, v)}
  <2>1. D \subseteq Nat /\ D # {}
    BY <1>7
  <2>2. PICK m \in D : \A l \in D : ~(<<l, m>> \in OpToRel(<, Nat))
    BY <2>1, NatLessThanWellFounded, WFMin
  <2>3. \A l \in D : ~(l < m)
    BY <2>1, <2>2 DEF OpToRel
  <2>4. \A l \in K : l < m => Same(l, u, v)
    BY <2>3
  <2>5. m \in K /\ ~Same(m, u, v)
    OBVIOUS
  <2> QED
    BY <2>4, <2>5, <1>1, <1>4, <1>5
<1>11. \A u, v, w \in M : ~Soon(u, v) /\ ~Soon(v, u) /\ Soon(v, w) => Soon(u, w)
  BY <1>3, <1>5, <1>10
<1>12. \A u, v, w \in M : Soon(u, v) /\ ~Soon(v, w) /\ ~Soon(w, v) => Soon(u, w)
  BY <1>3, <1>5, <1>10
<1>13. \A u, v, w \in M :
          ~Soon(u, v) /\ ~Soon(v, u) /\ ~Soon(v, w) /\ ~Soon(w, v) => ~Soon(u, w) /\ ~Soon(w, u)
  BY <1>2, <1>3, <1>4, <1>5, <1>10
<1>14. \A u, v \in M : <<u, v>> \in Ordered(t, sort) <=>
          Soon(u, v) \/ (~Soon(u, v) /\ ~Soon(v, u) /\ u < v)
  BY DEF Ordered, Soon
<1>15. \A u \in M : <<u, u>> \notin Ordered(t, sort)
  BY <1>7, <1>8, <1>14
<1>16. \A u, v, w \in M : <<u, v>> \in Ordered(t, sort) /\ <<v, w>> \in Ordered(t, sort)
                          => <<u, w>> \in Ordered(t, sort)
  BY <1>7, <1>9, <1>11, <1>12, <1>13, <1>14
<1>17. \A u, v \in M : u # v => <<u, v>> \in Ordered(t, sort) \/ <<v, u>> \in Ordered(t, sort)
  BY <1>7, <1>14
<1> QED
  BY <1>15, <1>16, <1>17 DEF Linear

-----------------------------------------------------------------------------
(***************************************************************************)
(* Pages.                                                                  *)
(***************************************************************************)
\* A sequence has no more elements than places.
LEMMA ElementsOf ==
    ASSUME NEW S, NEW s \in Seq(S)
    PROVE  /\ Elements(s) \subseteq S /\ IsFiniteSet(Elements(s))
           /\ Cardinality(Elements(s)) \in Nat /\ Cardinality(Elements(s)) <= Len(s)
           /\ (\A k, l \in DOMAIN s : s[k] = s[l] => k = l) => Cardinality(Elements(s)) = Len(s)
<1>1. Len(s) \in Nat /\ DOMAIN s = 1 .. Len(s) /\ \A k \in 1 .. Len(s) : s[k] \in S
  OBVIOUS
<1>2. IsFiniteSet(1 .. Len(s)) /\ Cardinality(1 .. Len(s)) = Len(s)
  BY <1>1, Numbers
<1>3. s \in Surjection(1 .. Len(s), Elements(s))
  BY <1>1 DEF Surjection, Elements
<1>4. /\ IsFiniteSet(Elements(s)) /\ Cardinality(Elements(s)) <= Len(s)
      /\ Cardinality(Elements(s)) = Len(s) <=> s \in Injection(1 .. Len(s), Elements(s))
  BY <1>2, <1>3, FS_Surjection
<1>5. (\A k, l \in DOMAIN s : s[k] = s[l] => k = l) => s \in Injection(1 .. Len(s), Elements(s))
  BY <1>1, <1>3 DEF Injection, IsInjective, Surjection
<1>6. Elements(s) \subseteq S
  BY <1>1 DEF Elements
<1> QED
  BY <1>4, <1>5, <1>6, FS_CardinalityType

LEMMA ElementsJoin ==
    ASSUME NEW S, NEW s \in Seq(S), NEW t \in Seq(S)
    PROVE  /\ s \o t \in Seq(S) /\ Len(s \o t) = Len(s) + Len(t)
           /\ Elements(s \o t) = Elements(s) \cup Elements(t)
<1>1. /\ Len(s) \in Nat /\ Len(t) \in Nat /\ DOMAIN s = 1 .. Len(s) /\ DOMAIN t = 1 .. Len(t)
      /\ Len(s \o t) = Len(s) + Len(t) /\ s \o t \in Seq(S)
      /\ DOMAIN (s \o t) = 1 .. Len(s) + Len(t)
  OBVIOUS
<1>2. \A k \in 1 .. Len(s) + Len(t) :
          (s \o t)[k] = IF k <= Len(s) THEN s[k] ELSE t[k - Len(s)]
  OBVIOUS
<1>3. Elements(s \o t) \subseteq Elements(s) \cup Elements(t)
  BY <1>1, <1>2 DEF Elements
<1>4. Elements(s) \subseteq Elements(s \o t)
  <2>1. \A k \in 1 .. Len(s) : k \in 1 .. Len(s) + Len(t) /\ k <= Len(s)
    BY <1>1
  <2> QED
    BY <1>1, <1>2, <2>1 DEF Elements
<1>5. Elements(t) \subseteq Elements(s \o t)
  <2>1. ASSUME NEW k \in 1 .. Len(t)
        PROVE  t[k] = (s \o t)[k + Len(s)] /\ k + Len(s) \in 1 .. Len(s) + Len(t)
    <3>1. k + Len(s) \in 1 .. Len(s) + Len(t) /\ ~(k + Len(s) <= Len(s)) /\ k + Len(s) - Len(s) = k
      BY <1>1
    <3> QED
      BY <1>2, <3>1
  <2> QED
    BY <1>1, <2>1 DEF Elements
<1> QED
  BY <1>1, <1>3, <1>4, <1>5

\* w is what LIMIT m OFFSET b leaves of it.
Cut(s, n, b, m, w) ==
    /\ Len(w) = IF n <= b THEN 0 ELSE IF n < b + m THEN n - b ELSE m
    /\ \A k \in 1 .. Len(w) : w[k] = s[b + k]

\* A page is who stands at its places.
LEMMA PageIs ==
    ASSUME NEW M, IsFiniteSet(M), NEW R, Linear(M, R), NEW n \in Nat, NEW s, Listed(M, R, n, s),
           NEW b \in Nat, NEW m \in Nat \ {0}, NEW w \in Seq(M), Cut(s, n, b, m, w)
    PROVE  /\ Elements(w) = First(M, R, b + m) \ First(M, R, b)
           /\ Cardinality(Elements(w)) = Len(w)
           /\ Len(w) < m => First(M, R, b + m) = M
           /\ \A k \in 1 .. Len(w) : Place(M, R, w[k]) = b + k - 1
<1>1. /\ \A k \in 1 .. n : Place(M, R, s[k]) = k - 1
      /\ \A u \in M : \E k \in 1 .. n : u = s[k]
  <2>1. Elements(s) = M /\ \A k \in 1 .. n : Place(M, R, s[k]) = k - 1
    BY SortedPlaces
  <2>2. DOMAIN s = 1 .. n
    BY DEF Listed
  <2> QED
    BY <2>1, <2>2 DEF Elements
<1>2. /\ Len(w) \in Nat /\ DOMAIN w = 1 .. Len(w) /\ \A k \in 1 .. Len(w) : b + k \in 1 .. n
      /\ Len(w) = IF n <= b THEN 0 ELSE IF n < b + m THEN n - b ELSE m
      /\ \A k \in 1 .. Len(w) : w[k] = s[b + k]
      /\ s \in [1 .. n -> M]
  <2>1. Len(w) \in Nat /\ DOMAIN w = 1 .. Len(w)
    OBVIOUS
  <2>2. \A k \in 1 .. Len(w) : b + k \in 1 .. n
    BY <2>1 DEF Cut
  <2> QED
    BY <2>1, <2>2 DEF Cut, Listed
<1>3. \A k \in 1 .. Len(w) : Place(M, R, w[k]) = b + k - 1 /\ w[k] \in M
  <2> SUFFICES ASSUME NEW k \in 1 .. Len(w) PROVE Place(M, R, w[k]) = b + k - 1 /\ w[k] \in M
    OBVIOUS
  <2>1. b + k \in 1 .. n /\ w[k] = s[b + k] /\ s[b + k] \in M
    BY <1>2
  <2>2. Place(M, R, s[b + k]) = b + k - 1
    BY <1>1, <2>1
  <2> QED
    BY Zenon, <2>1, <2>2
<1>4. Elements(w) \subseteq First(M, R, b + m) \ First(M, R, b)
  <2>1. \A k \in 1 .. Len(w) : b + k - 1 < b + m /\ ~(b + k - 1 < b)
    BY <1>2
  <2> QED
    BY <1>2, <1>3, <2>1 DEF Elements, First
<1>5. First(M, R, b + m) \ First(M, R, b) \subseteq Elements(w)
  <2> SUFFICES ASSUME NEW u \in M, Place(M, R, u) < b + m, ~(Place(M, R, u) < b)
               PROVE  u \in Elements(w)
    BY DEF First
  <2>1. PICK k \in 1 .. n : u = s[k]
    BY <1>1
  <2>2. k - 1 < b + m /\ ~(k - 1 < b)
    BY <1>1, <2>1
  <2>3. k - b \in 1 .. Len(w) /\ b + (k - b) = k
    BY <1>2, <2>2
  <2>4. w[k - b] = u
    BY <1>2, <2>1, <2>3
  <2> QED
    BY <1>2, <2>3, <2>4 DEF Elements
<1>6. Len(w) < m => First(M, R, b + m) = M
  <2> SUFFICES ASSUME Len(w) < m, NEW u \in M PROVE Place(M, R, u) < b + m
    BY DEF First
  <2>1. PICK k \in 1 .. n : u = s[k] /\ Place(M, R, u) = k - 1
    BY <1>1
  <2> QED
    BY <1>2, <2>1
<1>7. \A k, l \in DOMAIN w : w[k] = w[l] => k = l
  <2> SUFFICES ASSUME NEW k \in 1 .. Len(w), NEW l \in 1 .. Len(w), w[k] = w[l] PROVE k = l
    BY <1>2
  <2>1. b + k - 1 = b + l - 1
    BY <1>3
  <2> QED
    BY <2>1
<1>8. Cardinality(Elements(w)) = Len(w)
  BY <1>7, ElementsOf
<1> QED
  BY <1>3, <1>4, <1>5, <1>6, <1>8

\* A page moves nobody into the ranks of the missed or the repeated who was
\* not counted there.
LEMMA PageCounts ==
    ASSUME NEW M, IsFiniteSet(M), NEW E, IsFiniteSet(E), NEW P, NEW Q, P \subseteq Q, Q \subseteq M,
           NEW W, W = Q \ P
    PROVE  Cardinality(W) - Cardinality(E \cup W) + Cardinality((E \cup W) \cap (M \ Q))
           <= Cardinality(E \cap (M \ P)) - Cardinality(E)
<1> DEFINE A == E \cap W  B == E \cap (M \ Q)  C == E \cap (M \ P)
<1>1. (E \cup W) \cap (M \ Q) = B
  OBVIOUS
<1>2. /\ W \subseteq M /\ A \subseteq E /\ B \subseteq E /\ C \subseteq E
      /\ A \cap B = {} /\ A \cup B \subseteq C
  OBVIOUS
<1>3. IsFiniteSet(W) /\ IsFiniteSet(A) /\ IsFiniteSet(B) /\ IsFiniteSet(C)
  BY <1>2, FewerOf
<1>4. Cardinality(E \cup W) = Cardinality(E) + Cardinality(W) - Cardinality(A)
  BY <1>3, FS_Union
<1>5. Cardinality(A \cup B) = Cardinality(A) + Cardinality(B)
  <2>1. Cardinality(A \cup B) = Cardinality(A) + Cardinality(B) - Cardinality(A \cap B)
    BY <1>3, FS_Union
  <2>2. Cardinality(A \cap B) = 0
    BY <1>2, FS_EmptySet
  <2>3. Cardinality(A) \in Nat /\ Cardinality(B) \in Nat
    BY <1>3, FS_CardinalityType
  <2> QED
    BY <2>1, <2>2, <2>3
<1>6. Cardinality(A \cup B) <= Cardinality(C)
  BY <1>2, <1>3, FewerOf
<1>7. /\ Cardinality(A) \in Nat /\ Cardinality(B) \in Nat /\ Cardinality(C) \in Nat
      /\ Cardinality(W) \in Nat /\ Cardinality(E) \in Nat
  BY <1>3, FS_CardinalityType
<1> HIDE DEF A, B, C
<1>8. Cardinality(W) - Cardinality(E \cup W) + Cardinality(B) <= Cardinality(C) - Cardinality(E)
  BY <1>4, <1>5, <1>6, <1>7
<1> QED
  BY <1>1, <1>8 DEF B, C

-----------------------------------------------------------------------------
(***************************************************************************)
(* The invariant of a walk.                                                *)
(***************************************************************************)
\* The order the query gives the table.
Order == Ordered(table, parse_sort(query.sort))

\* What the client has or is about to get, and how far into the order that is.
Sent == IF pc \in {"count", "page"} THEN got \o page ELSE got

Bound == IF pc \in {"count", "page", "done"} THEN offset + query.limit ELSE offset

AtEnd == pc = "done" \/ (pc \in {"count", "page"} /\ Len(page) < query.limit)

\* Of the users among the first Bound that nobody wrote, the ones never sent.
Missed == (First(Matching, Order, Bound) \ touched) \ Elements(Sent)
\* The users sent who are to come once more.
Coming == Elements(Sent) \cap Later(Matching, Order, Bound)

\* Missed users, and repetitions there were or will be, are paid for by commits.
Drift ==
    Sortable(query.sort) =>
        /\ Cardinality(Missed) <= writes
        /\ Len(Sent) - Cardinality(Elements(Sent)) + Cardinality(Coming) <= writes
        /\ AtEnd => Cardinality((Matching \ touched) \ Elements(Sent)) <= writes

\* While nobody writes, what was sent stands in its place.
Quiet ==
    writes = 0 =>
        /\ touched = {}
        /\ pc \in {"page", "done"} => total = Count
        /\ Sortable(query.sort) =>
              \A k \in DOMAIN Sent : Sent[k] \in Matching /\ Place(Matching, Order, Sent[k]) = k - 1

\* The walk: pages before the last are full, and drift is paid for.
WalkInv ==
    /\ pc \in {"rows", "count", "page", "done"} => Sortable(query.sort)
    /\ ~AtEnd => Len(Sent) = Bound
    /\ Drift
    /\ Quiet

LEMMA MatchingIsFinite == Matching \subseteq Ids /\ IsFiniteSet(Matching)
<1>1. Matching \subseteq Ids
  BY DEF Matching
<1> QED
  BY <1>1, ListingAssumption, FS_Subset

LEMMA SortFacts ==
    ASSUME NEW a \in Starts, Sortable(a.query.sort)
    PROVE  /\ Terms(parse_sort(a.query.sort)) \subseteq Nat
           /\ \A k \in Terms(parse_sort(a.query.sort)) :
                 parse_sort(a.query.sort)[k].field \in USER_SORTABLE
<1> DEFINE sort == a.query.sort
<1>1. sort \in Seq([field : STRING, desc : BOOLEAN])
  BY Zenon, ListingAssumption
<1>2. DOMAIN sort \subseteq Nat
  BY <1>1
<1>3. DOMAIN Default \subseteq Nat /\ \A k \in DOMAIN Default : Default[k].field \in USER_SORTABLE
  BY DEF Default, Term, USER_SORTABLE
<1> HIDE DEF sort
<1>4. CASE Terms(sort) = {}
  BY <1>3, <1>4 DEF parse_sort, Terms, sort
<1>5. CASE Terms(sort) # {}
  BY <1>2, <1>5 DEF parse_sort, Terms, Sortable, sort
<1> QED
  BY <1>4, <1>5

LEMMA KindFacts ==
    /\ Ids \subseteq Nat /\ IsFiniteSet(Ids)
    /\ \A k \in Kinds : k.created_at \in Nat /\ k.full_name \in Nat
  BY Zenon, ListingAssumption

\* Whatever the table, the query orders its users.
LEMMA UsersAreOrdered ==
    ASSUME NEW a \in Starts, Sortable(a.query.sort), NEW t \in [Ids -> Kinds \cup {Null}],
           NEW M, M \subseteq Ids, \A u \in M : t[u] # Null
    PROVE  Linear(M, Ordered(t, parse_sort(a.query.sort)))
<1> DEFINE sort == parse_sort(a.query.sort)
<1>1. /\ Terms(sort) \subseteq Nat
      /\ \A k \in Terms(sort) : sort[k].field \in {"created_at", "full_name"}
  BY SortFacts DEF USER_SORTABLE
<1>2. \A u \in M : t[u] \in Kinds
  OBVIOUS
<1>3. \A u \in M : t[u]["created_at"] \in Nat /\ t[u]["full_name"] \in Nat
  BY <1>2, KindFacts
<1> HIDE DEF sort
<1>4. \A k \in Terms(sort), u \in M : t[u][sort[k].field] \in Nat
  BY <1>1, <1>3
<1>5. Linear(M, Ordered(t, sort))
  BY <1>1, <1>4, OrderIsLinear
<1> QED
  BY <1>5 DEF sort

LEMMA OrderOfMatching ==
    ASSUME TypeOK, start \in Starts, Sortable(query.sort)
    PROVE  Linear(Matching, Order)
<1>1. /\ table \in [Ids -> Kinds \cup {Null}]
      /\ Matching \subseteq Ids /\ \A u \in Matching : table[u] # Null
  BY DEF TypeOK, Matching, Matches
<1> QED
  BY <1>1, UsersAreOrdered DEF Order, query

LEMMA OrderOfMatchingNext ==
    ASSUME table' \in [Ids -> Kinds \cup {Null}], start' = start, start \in Starts,
           Sortable(query.sort)
    PROVE  Linear(Matching', Order') /\ Matching' \subseteq Ids /\ IsFiniteSet(Matching')
<1>1. Matching' \subseteq Ids /\ \A u \in Matching' : table'[u] # Null
  BY DEF Matching, Matches
<1>2. Order' = Ordered(table', parse_sort(start.query.sort))
  BY DEF Order, query
<1> QED
  BY <1>1, <1>2, UsersAreOrdered, KindFacts, FS_Subset DEF query

LEMMA SentType ==
    ASSUME TypeOK
    PROVE  Sent \in Seq(Ids) /\ Len(Sent) \in Nat
<1>1. got \in Seq(Ids) /\ page \in Seq(Ids)
  BY DEF TypeOK
<1>2. got \o page \in Seq(Ids) /\ Len(got \o page) \in Nat /\ Len(got) \in Nat
  BY <1>1
<1> QED
  BY <1>1, <1>2 DEF Sent

LEMMA InitWalk == Init => WalkInv
<1> SUFFICES ASSUME Init PROVE WalkInv
  OBVIOUS
<1>1. pc = "boot" /\ got = <<>> /\ offset = 0 /\ writes = 0 /\ touched = {}
  BY DEF Init
<1>2. Sent = <<>> /\ Bound = 0 /\ ~AtEnd
  BY <1>1 DEF Sent, Bound, AtEnd
<1>3. Elements(Sent) = {} /\ Len(Sent) = 0 /\ DOMAIN Sent = {}
  BY <1>2 DEF Elements
<1>4. First(Matching, Order, 0) = {}
  <2>1. \A u : ~(Place(Matching, Order, u) < 0)
    BY MatchingIsFinite, PlaceIsNat
  <2> QED
    BY <2>1 DEF First
<1>5. Missed = {} /\ Coming = {}
  BY <1>2, <1>3, <1>4 DEF Missed, Coming
<1>6. Cardinality({}) = 0
  BY FS_EmptySet
<1>7. Drift
  <2>1. Cardinality(Missed) = 0 /\ Cardinality(Coming) = 0 /\ Cardinality(Elements(Sent)) = 0
    BY <1>3, <1>5, <1>6
  <2>2. Cardinality(Missed) <= writes
        /\ Len(Sent) - Cardinality(Elements(Sent)) + Cardinality(Coming) <= writes
    BY <1>1, <1>3, <2>1
  <2> QED
    BY <1>2, <2>2 DEF Drift
<1>8. Quiet
  BY <1>1, <1>3 DEF Quiet
<1> QED
  BY <1>1, <1>2, <1>3, <1>7, <1>8 DEF WalkInv

-----------------------------------------------------------------------------
(***************************************************************************)
(* Reading a page.                                                         *)
(***************************************************************************)
\* What SubSeq cuts out.
LEMMA WindowIs ==
    ASSUME TypeOK, query.limit \in Nat \ {0}, NEW n \in Nat, NEW M, M \subseteq Ids,
           NEW s \in [1 .. n -> M]
    PROVE  /\ Window(s) \in Seq(M)
           /\ Len(Window(s)) = IF n <= offset THEN 0
                               ELSE IF n < offset + query.limit THEN n - offset ELSE query.limit
           /\ \A k \in 1 .. Len(Window(s)) : Window(s)[k] = s[offset + k]
<1> DEFINE last == Min({Len(s), offset + query.limit})  m == query.limit
<1>1. offset \in Nat /\ m \in Nat \ {0}
  BY DEF TypeOK
<1>2. s \in Seq(M) /\ Len(s) = n
  OBVIOUS
<1>3. last = IF n <= offset + m THEN n ELSE offset + m
  <2>1. \E x \in {n, offset + m} : \A y \in {n, offset + m} : x <= y
    BY <1>1
  <2>2. last \in {n, offset + m} /\ \A y \in {n, offset + m} : last <= y
    BY <1>2, <2>1 DEF Min
  <2> HIDE DEF last, m
  <2> QED
    BY <1>1, <2>2
<1>4. Window(s) = SubSeq(s, offset + 1, last)
  BY DEF Window
<1> HIDE DEF last, m
<1>5. last \in Nat /\ last <= n
  BY <1>1, <1>3
<1>6. /\ SubSeq(s, offset + 1, last) \in Seq(M)
      /\ Len(SubSeq(s, offset + 1, last)) = IF offset + 1 <= last THEN last - offset ELSE 0
      /\ \A k \in 1 .. Len(SubSeq(s, offset + 1, last)) :
            SubSeq(s, offset + 1, last)[k] = s[offset + k]
  BY <1>1, <1>2, <1>5
<1>7. (IF offset + 1 <= last THEN last - offset ELSE 0)
      = IF n <= offset THEN 0 ELSE IF n < offset + m THEN n - offset ELSE m
  BY <1>1, <1>3
<1> QED
  BY <1>4, <1>6, <1>7 DEF m

\* What ReadRows takes, whichever order the database chose.
LEMMA PageRead ==
    ASSUME TypeOK, Checked, WalkInv, ReadRows
    PROVE  /\ page' \in Seq(Matching)
           /\ Elements(page') = First(Matching, Order, offset + query.limit)
                                \ First(Matching, Order, offset)
           /\ Cardinality(Elements(page')) = Len(page')
           /\ Len(page') < query.limit => First(Matching, Order, offset + query.limit) = Matching
           /\ \A k \in 1 .. Len(page') : Place(Matching, Order, page'[k]) = offset + k - 1
           /\ Len(page') = IF Count <= offset THEN 0
                           ELSE IF Count < offset + query.limit THEN Count - offset ELSE query.limit
<1>1. pc = "rows" /\ Sortable(query.sort) /\ query.limit \in Nat \ {0} /\ offset \in Nat
  <2>1. MaxLimit \in Nat
    BY Zenon, ListingAssumption
  <2>2. pc = "rows" /\ query.limit \in 1 .. MaxLimit
    BY DEF ReadRows, Checked
  <2>3. query.limit \in Nat \ {0}
    BY <2>1, <2>2
  <2> QED
    BY <2>2, <2>3 DEF WalkInv, TypeOK
<1>2. Linear(Matching, Order)
  BY <1>1, OrderOfMatching DEF Checked
<1>3. PICK s \in Orders : page' = Window(s)
  BY DEF ReadRows
<1> DEFINE n == Cardinality(Matching)
<1>4. n \in Nat /\ Matching \subseteq Ids /\ IsFiniteSet(Matching)
  BY MatchingIsFinite, FS_CardinalityType
<1>5. s \in [1 .. n -> Matching] /\ \A k, l \in 1 .. n : k # l => s[k] # s[l]
  BY DEF Orders, SetToSeqs
<1>6. \A k, l \in 1 .. n : k < l => ~Before(s[l], s[k])
  BY <1>5 DEF Orders
<1>7. \A u, v : <<u, v>> \in Order => Before(u, v)
  <2>1. \A u, v : Sooner(table, parse_sort(query.sort), u, v) <=> Precedes(u, v)
    BY DEF Sooner, Precedes
  <2>2. ASSUME NEW u, NEW v, <<u, v>> \in Order
        PROVE  Precedes(u, v) \/ (~Precedes(u, v) /\ ~Precedes(v, u) /\ u < v)
    BY <2>1, <2>2 DEF Order, Ordered
  <2> QED
    BY <2>2 DEF Before, Ties
<1>8. \A k, l \in 1 .. n : k < l => <<s[l], s[k]>> \notin Order
  BY <1>6, <1>7
<1> HIDE DEF n
<1>9. /\ page' \in Seq(Matching)
      /\ Len(page') = IF n <= offset THEN 0
                      ELSE IF n < offset + query.limit THEN n - offset ELSE query.limit
      /\ \A k \in 1 .. Len(page') : page'[k] = s[offset + k]
  <2>1. /\ Window(s) \in Seq(Matching)
        /\ Len(Window(s)) = IF n <= offset THEN 0
                            ELSE IF n < offset + query.limit THEN n - offset ELSE query.limit
        /\ \A k \in 1 .. Len(Window(s)) : Window(s)[k] = s[offset + k]
    BY SMTT(30), <1>1, <1>4, <1>5, WindowIs
  <2> QED
    BY <1>3, <2>1
<1>10. n = Cardinality(Matching)
  BY DEF n
<1> DEFINE w == page'  m == query.limit
<1>11. /\ w \in Seq(Matching) /\ m \in Nat \ {0}
       /\ Len(w) = IF n <= offset THEN 0 ELSE IF n < offset + m THEN n - offset ELSE m
       /\ \A k \in 1 .. Len(w) : w[k] = s[offset + k]
  BY <1>1, <1>9
<1> HIDE DEF w, m
<1>12. Listed(Matching, Order, n, s) /\ Cut(s, n, offset, m, w)
  BY <1>5, <1>8, <1>10, <1>11 DEF Listed, Cut
<1>13. /\ Elements(w) = First(Matching, Order, offset + m) \ First(Matching, Order, offset)
       /\ Cardinality(Elements(w)) = Len(w)
       /\ Len(w) < m => First(Matching, Order, offset + m) = Matching
       /\ \A k \in 1 .. Len(w) : Place(Matching, Order, w[k]) = offset + k - 1
  BY <1>1, <1>2, <1>4, <1>11, <1>12, PageIs
<1>14. Count = n
  BY <1>10 DEF Count
<1> QED
  BY <1>9, <1>11, <1>13, <1>14 DEF w, m

\* A page sends who stands at its places, and so misses nobody else.
LEMMA ReadKeepsWalk == TypeOK /\ TypeOK' /\ Checked /\ WalkInv /\ ReadRows => WalkInv'
<1> SUFFICES ASSUME TypeOK, TypeOK', Checked, WalkInv, ReadRows PROVE WalkInv'
  OBVIOUS
<1> DEFINE E == Elements(got)  W == Elements(page')  m == query.limit
           P == First(Matching, Order, offset)  Q == First(Matching, Order, offset + m)
<1>1. /\ pc = "rows" /\ pc' = "count"
      /\ UNCHANGED <<start, clock, answer, table, offset, total, got, writes, touched>>
  BY DEF ReadRows
<1>2. Sent = got /\ Bound = offset /\ ~AtEnd /\ Sortable(query.sort)
  BY <1>1 DEF Sent, Bound, AtEnd, WalkInv
<1>3. Sent' = got \o page' /\ Bound' = offset + m /\ (AtEnd' <=> Len(page') < m)
  BY <1>1 DEF Sent, Bound, AtEnd, query
<1>4. Matching' = Matching /\ Order' = Order /\ query' = query /\ Sortable(query.sort)'
  BY <1>1, <1>2 DEF Matching, Matches, Order, query
<1>5. got \in Seq(Ids) /\ page' \in Seq(Ids) /\ offset \in Nat /\ m \in Nat /\ Len(page') <= m
      /\ writes \in Nat
  <2>1. start.commits \in Nat /\ start.query.limit \in Nat
    BY StartFacts DEF Checked
  <2>2. got \in Seq(Ids) /\ page' \in Seq(Ids) /\ offset \in Nat /\ writes \in 0 .. start.commits
    BY DEF TypeOK
  <2>3. Len(page') <= start.query.limit
    BY <1>1 DEF TypeOK, query
  <2> QED
    BY <2>1, <2>2, <2>3 DEF query
<1>6. /\ W = Q \ P /\ Cardinality(W) = Len(page') /\ page' \in Seq(Matching)
      /\ Len(page') < m => Q = Matching
      /\ \A k \in 1 .. Len(page') : Place(Matching, Order, page'[k]) = offset + k - 1
  BY PageRead
<1>7. Elements(Sent') = E \cup W /\ Len(Sent') = Len(got) + Len(page')
  BY <1>3, <1>5, ElementsJoin
<1>8. P \subseteq Q /\ Q \subseteq Matching
  <2>1. \A u : Place(Matching, Order, u) \in Nat
    BY MatchingIsFinite, PlaceIsNat
  <2>2. \A u : Place(Matching, Order, u) < offset => Place(Matching, Order, u) < offset + m
    BY <1>5, <2>1
  <2> QED
    BY <2>2 DEF First
<1>9. /\ IsFiniteSet(Matching) /\ IsFiniteSet(E) /\ Cardinality(E) \in Nat
      /\ Len(got) \in Nat /\ Len(page') \in Nat
  BY <1>5, MatchingIsFinite, ElementsOf
<1>10. /\ Cardinality((P \ touched) \ E) <= writes
       /\ Len(got) - Cardinality(E) + Cardinality(E \cap (Matching \ P)) <= writes
  BY <1>2 DEF WalkInv, Drift, Missed, Coming, Later
<1>11. /\ Missed' = (Q \ touched) \ (E \cup W)
       /\ Coming' = (E \cup W) \cap (Matching \ Q)
  BY <1>1, <1>3, <1>4, <1>7 DEF Missed, Coming, Later
<1> HIDE DEF E, W, m, P, Q
<1>12. Cardinality((Q \ touched) \ (E \cup W)) <= writes
  <2>1. (Q \ touched) \ (E \cup W) \subseteq (P \ touched) \ E
    BY <1>6
  <2>2. IsFiniteSet((P \ touched) \ E)
    BY <1>8, <1>9, FewerOf
  <2>3. /\ Cardinality((Q \ touched) \ (E \cup W)) <= Cardinality((P \ touched) \ E)
        /\ Cardinality((Q \ touched) \ (E \cup W)) \in Nat
        /\ Cardinality((P \ touched) \ E) \in Nat
    BY <2>1, <2>2, FewerOf
  <2> QED
    BY <1>5, <1>10, <2>3
<1>13. (Len(got) + Len(page')) - Cardinality(E \cup W) + Cardinality((E \cup W) \cap (Matching \ Q))
       <= writes
  <2>1. Cardinality(W) - Cardinality(E \cup W) + Cardinality((E \cup W) \cap (Matching \ Q))
        <= Cardinality(E \cap (Matching \ P)) - Cardinality(E)
    BY <1>6, <1>8, <1>9, PageCounts
  <2>2. IsFiniteSet(W)
    BY <1>6, <1>8, <1>9, FewerOf
  <2>3. IsFiniteSet(E \cup W)
    BY <1>9, <2>2, FS_Union
  <2>4. IsFiniteSet((E \cup W) \cap (Matching \ Q)) /\ IsFiniteSet(E \cap (Matching \ P))
    BY <1>9, <2>3, FS_Intersection
  <2>5. \A S : IsFiniteSet(S) => Cardinality(S) \in Nat
    BY FS_CardinalityType
  <2>6. /\ Cardinality(E \cup W) \in Nat
        /\ Cardinality((E \cup W) \cap (Matching \ Q)) \in Nat
        /\ Cardinality(E \cap (Matching \ P)) \in Nat
    BY Zenon, <2>3, <2>4, <2>5
  <2> DEFINE sent == Len(got)  more == Len(page')
             before == Cardinality(E)  after == Cardinality(E \cup W)
             due == Cardinality(E \cap (Matching \ P))
             left == Cardinality((E \cup W) \cap (Matching \ Q))
  <2>7. more - after + left <= due - before /\ sent - before + due <= writes
    BY Zenon, <1>6, <1>10, <2>1
  <2>8. /\ sent \in Nat /\ more \in Nat /\ writes \in Nat
        /\ before \in Nat /\ after \in Nat /\ due \in Nat /\ left \in Nat
    BY <1>5, <1>9, <2>6
  <2> HIDE DEF sent, more, before, after, due, left
  <2>9. (sent + more) - after + left <= writes
    BY <2>7, <2>8
  <2> QED
    BY Zenon, <2>9 DEF sent, more, before, after, due, left
<1>14. Drift'
  <2>1. Cardinality(Missed') <= writes'
    BY <1>1, <1>11, <1>12
  <2>2. Len(Sent') - Cardinality(Elements(Sent')) + Cardinality(Coming') <= writes'
    <3>1. writes' = writes
      BY <1>1
    <3>2. Len(Sent') - Cardinality(Elements(Sent')) + Cardinality(Coming')
          = (Len(got) + Len(page')) - Cardinality(E \cup W)
            + Cardinality((E \cup W) \cap (Matching \ Q))
      <4>1. Len(Sent') = Len(got) + Len(page')
        BY <1>7
      <4>2. Cardinality(Elements(Sent')) = Cardinality(E \cup W)
        BY <1>7
      <4>3. Cardinality(Coming') = Cardinality((E \cup W) \cap (Matching \ Q))
        BY <1>11
      <4> QED
        BY <4>1, <4>2, <4>3
    <3> QED
      BY <1>13, <3>1, <3>2
  <2>3. AtEnd' => (Matching' \ touched') \ Elements(Sent') = Missed'
    BY <1>1, <1>3, <1>4, <1>6, <1>7, <1>11
  <2> QED
    BY <2>1, <2>2, <2>3 DEF Drift
<1>15. ~AtEnd' => Len(Sent') = Bound'
  <2>1. Len(got) = offset
    BY <1>2 DEF WalkInv
  <2>2. ~(Len(page') < m) => Len(page') = m
    BY <1>5, <1>9
  <2> QED
    BY <1>3, <1>7, <2>1, <2>2
<1>16. Quiet'
  <2> SUFFICES ASSUME writes' = 0
               PROVE  /\ touched' = {}
                      /\ \A k \in DOMAIN Sent' :
                            Sent'[k] \in Matching /\ Place(Matching, Order, Sent'[k]) = k - 1
    BY <1>1, <1>4 DEF Quiet
  <2>1. /\ touched' = {}
        /\ \A k \in DOMAIN got : got[k] \in Matching /\ Place(Matching, Order, got[k]) = k - 1
    BY <1>1, <1>2 DEF WalkInv, Quiet
  <2>2. Len(got) = offset
    BY <1>2 DEF WalkInv
  <2>3. ASSUME NEW k \in DOMAIN Sent'
        PROVE  Sent'[k] \in Matching /\ Place(Matching, Order, Sent'[k]) = k - 1
    <3>1. k \in 1 .. Len(got) + Len(page')
      BY <1>3, <1>5
    <3>2. CASE k <= Len(got)
      <4>1. Sent'[k] = got[k] /\ k \in DOMAIN got
        BY <1>3, <1>5, <3>1, <3>2
      <4> QED
        BY <2>1, <4>1
    <3>3. CASE ~(k <= Len(got))
      <4>1. k - Len(got) \in 1 .. Len(page') /\ offset + (k - Len(got)) - 1 = k - 1
        BY <1>9, <2>2, <3>1, <3>3
      <4>2. Sent'[k] = page'[k - Len(got)]
        BY <1>3, <1>5, <3>1, <3>3
      <4>3. page'[k - Len(got)] \in Matching
        BY <1>6, <4>1
      <4> QED
        BY <1>6, <4>1, <4>2, <4>3
    <3> QED
      BY <3>2, <3>3
  <2> QED
    BY <2>1, <2>3
<1> QED
  BY <1>4, <1>14, <1>15, <1>16 DEF WalkInv

-----------------------------------------------------------------------------
(***************************************************************************)
(* The other steps, and the theorems.                                      *)
(***************************************************************************)
\* Steps that only move the walk: a request, a total, the arrival of a page.
LEMMA SentStays ==
    ASSUME WalkInv, start' = start, table' = table, writes' = writes, touched' = touched,
           Sent' = Sent, Bound' = Bound, AtEnd' <=> AtEnd,
           (pc \in {"rows", "count", "page", "done"} => Sortable(query.sort))',
           (writes = 0 /\ pc \in {"page", "done"} => total = Count)'
    PROVE  WalkInv'
<1>1. Matching' = Matching /\ Order' = Order /\ query' = query
  BY DEF Matching, Matches, Order, query
<1>2. Missed' = Missed /\ Coming' = Coming
  BY <1>1 DEF Missed, Coming, Later
<1>3. Drift'
  BY <1>1, <1>2 DEF WalkInv, Drift
<1>4. Quiet'
  BY <1>1 DEF WalkInv, Quiet
<1> QED
  BY <1>3, <1>4 DEF WalkInv

LEMMA MovesKeepWalk ==
    ASSUME TypeOK, WalkInv, Boot \/ Tick \/ Request \/ ReadTotal \/ Respond \/ UNCHANGED vars
    PROVE  WalkInv'
<1>1. start' = start /\ table' = table /\ writes' = writes /\ touched' = touched /\ query' = query
  BY DEF Boot, Tick, Request, ReadTotal, Respond, vars, query
<1>2. Sent' = Sent /\ Bound' = Bound /\ (AtEnd' <=> AtEnd)
  <2>1. CASE Boot
    BY <1>1, <2>1 DEF Boot, Sent, Bound, AtEnd
  <2>2. CASE Tick \/ UNCHANGED vars
    BY <1>1, <2>2 DEF Tick, vars, Sent, Bound, AtEnd
  <2>3. CASE Request
    BY <1>1, <2>3 DEF Request, Sent, Bound, AtEnd
  <2>4. CASE ReadTotal
    BY <1>1, <2>4 DEF ReadTotal, Sent, Bound, AtEnd
  <2>5. CASE Respond
    BY <1>1, <2>5 DEF Respond, Sent, Bound, AtEnd
  <2> QED
    BY <2>1, <2>2, <2>3, <2>4, <2>5
<1>3. (pc \in {"rows", "count", "page", "done"} => Sortable(query.sort))'
  <2>1. CASE Request
    BY <1>1, <2>1 DEF Request
  <2>2. CASE Boot \/ Tick \/ ReadTotal \/ Respond \/ UNCHANGED vars
    BY <1>1, <2>2 DEF Boot, Tick, ReadTotal, Respond, vars, WalkInv
  <2> QED
    BY <2>1, <2>2
<1>4. (writes = 0 /\ pc \in {"page", "done"} => total = Count)'
  <2>1. Count' = Count
    BY <1>1 DEF Count, Matching, Matches
  <2>2. CASE ReadTotal
    BY <2>1, <2>2 DEF ReadTotal
  <2>3. CASE Boot \/ Tick \/ Request \/ Respond \/ UNCHANGED vars
    BY <1>1, <2>1, <2>3 DEF Boot, Tick, Request, Respond, vars, WalkInv, Quiet
  <2> QED
    BY <2>2, <2>3
<1> QED
  BY <1>1, <1>2, <1>3, <1>4, SentStays

\* A commit shifts the others by one place, and pays for what that costs.
LEMMA WriteKeepsWalk ==
    ASSUME TypeOK, TypeOK', Checked, WalkInv, NEW i \in Ids, NEW row \in Kinds \cup {Null},
           Write(i, row)
    PROVE  WalkInv'
<1> DEFINE M == Matching  N == Matching'  R == Order  S == Order'  E == Elements(Sent)  b == Bound
<1>1. /\ table' = [table EXCEPT ![i] = row] /\ writes' = writes + 1 /\ touched' = touched \cup {i}
      /\ UNCHANGED <<start, clock, answer, pc, offset, page, total, got>>
  BY DEF Write
<1>2. query' = query /\ Sent' = Sent /\ Bound' = Bound /\ (AtEnd' <=> AtEnd)
  BY <1>1 DEF query, Sent, Bound, AtEnd
<1>3. start \in Starts /\ writes \in Nat /\ Sent \in Seq(Ids) /\ Bound \in Nat
      /\ table \in [Ids -> Kinds \cup {Null}] /\ table' \in [Ids -> Kinds \cup {Null}]
  <2>1. start \in Starts /\ start.commits \in Nat /\ start.query.limit \in Nat
    BY StartFacts DEF Checked
  <2>2. writes \in 0 .. start.commits /\ offset \in Nat
    BY DEF TypeOK
  <2>3. table \in [Ids -> Kinds \cup {Null}] /\ table' \in [Ids -> Kinds \cup {Null}]
    BY DEF TypeOK
  <2> QED
    BY <2>1, <2>2, <2>3, SentType DEF Bound, query
<1>4. Others(M, R, N, S, i)
  <2>1. \A u \in Ids : u # i => table'[u] = table[u]
    BY <1>1, <1>3
  <2>2. \A u : u # i => (u \in N <=> u \in M)
    BY <1>2, <2>1 DEF Matching, Matches
  <2>3. \A u, v \in Ids : \A sort : u # i /\ v # i =>
            (Sooner(table', sort, u, v) <=> Sooner(table, sort, u, v))
    BY <2>1 DEF Sooner
  <2>4. \A u, v : u # i /\ v # i => (<<u, v>> \in S <=> <<u, v>> \in R)
    BY <1>2, <2>3 DEF Order, Ordered
  <2> QED
    BY <2>2, <2>4 DEF Others
<1>5. IsFiniteSet(M) /\ IsFiniteSet(E) /\ IsFiniteSet(N)
  <2>1. M \subseteq Ids /\ N \subseteq Ids
    BY DEF Matching
  <2> QED
    BY <1>3, <2>1, KindFacts, FS_Subset, ElementsOf
<1>6. Drift'
  <2> SUFFICES ASSUME Sortable(query.sort)
               PROVE  /\ Cardinality(Missed') <= writes + 1
                      /\ Len(Sent) - Cardinality(E) + Cardinality(Coming') <= writes + 1
                      /\ AtEnd => Cardinality((N \ touched') \ E) <= writes + 1
    BY <1>1, <1>2 DEF Drift
  <2>1. Linear(M, R) /\ Linear(N, S)
    BY <1>1, <1>3, OrderOfMatching, OrderOfMatchingNext
  <2>2. /\ Cardinality(Missed) <= writes
        /\ Len(Sent) - Cardinality(E) + Cardinality(Coming) <= writes
        /\ AtEnd => Cardinality((M \ touched) \ E) <= writes
    BY DEF WalkInv, Drift
  <2>3. /\ Missed = (First(M, R, b) \ touched) \ E /\ Missed' = (First(N, S, b) \ touched') \ E
        /\ Coming = E \cap Later(M, R, b) /\ Coming' = E \cap Later(N, S, b)
    BY <1>2 DEF Missed, Coming
  <2> HIDE DEF M, N, R, S, E, b
  <2>4. IsFiniteSet(Missed) /\ IsFiniteSet(Coming)
    <3>1. Missed \subseteq M /\ Coming \subseteq E
      BY <2>3 DEF First
    <3> QED
      BY <1>5, <3>1, FS_Subset
  <2>5. Cardinality(Missed') <= writes + 1
    <3>1. PICK x : First(N, S, b) \ {i} \subseteq First(M, R, b) \cup {x}
      BY <1>3, <1>4, <1>5, <2>1, FirstGains DEF b
    <3>2. Missed' \subseteq Missed \cup {x}
      BY <1>1, <2>3, <3>1
    <3>3. IsFiniteSet(Missed') /\ Cardinality(Missed') <= Cardinality(Missed) + 1
      BY <2>4, <3>2, OneMore
    <3>4. Cardinality(Missed) \in Nat /\ Cardinality(Missed') \in Nat
      BY <2>4, <3>3, FS_CardinalityType
    <3> QED
      BY <1>3, <2>2, <3>3, <3>4
  <2>6. Len(Sent) - Cardinality(E) + Cardinality(Coming') <= writes + 1
    <3>1. PICK x : Later(N, S, b) \subseteq Later(M, R, b) \cup {x}
      BY <1>3, <1>4, <1>5, <2>1, LaterGains DEF b
    <3>2. Coming' \subseteq Coming \cup {x}
      BY <2>3, <3>1
    <3>3. IsFiniteSet(Coming') /\ Cardinality(Coming') <= Cardinality(Coming) + 1
      BY <2>4, <3>2, OneMore
    <3>4. /\ Cardinality(Coming) \in Nat /\ Cardinality(Coming') \in Nat
          /\ Cardinality(E) \in Nat /\ Len(Sent) \in Nat
      BY <1>3, <1>5, <2>4, <3>3, FS_CardinalityType
    <3> QED
      BY <1>3, <2>2, <3>3, <3>4
  <2>7. AtEnd => Cardinality((N \ touched') \ E) <= writes + 1
    <3>1. (N \ touched') \ E \subseteq (M \ touched) \ E
      BY <1>1, <1>4 DEF Others
    <3>2. IsFiniteSet((M \ touched) \ E)
      BY <1>5, FS_Difference
    <3>3. /\ Cardinality((N \ touched') \ E) <= Cardinality((M \ touched) \ E)
          /\ Cardinality((N \ touched') \ E) \in Nat /\ Cardinality((M \ touched) \ E) \in Nat
      BY <3>1, <3>2, FewerOf
    <3> QED
      BY <1>3, <2>2, <3>3
  <2> QED
    BY <2>5, <2>6, <2>7
<1>7. Quiet'
  <2>1. writes' # 0
    BY <1>1, <1>3
  <2> QED
    BY <2>1 DEF Quiet
<1>8. /\ (pc \in {"rows", "count", "page", "done"} => Sortable(query.sort))'
      /\ (~AtEnd => Len(Sent) = Bound)'
  BY <1>1, <1>2 DEF WalkInv
<1> QED
  BY <1>6, <1>7, <1>8 DEF WalkInv

LEMMA StepWalk == IInv /\ IInv' /\ WalkInv /\ [Next]_vars => WalkInv'
<1> SUFFICES ASSUME IInv, IInv', WalkInv, [Next]_vars PROVE WalkInv'
  OBVIOUS
<1>1. TypeOK /\ TypeOK' /\ Checked
  BY DEF IInv
<1>2. CASE Boot \/ Tick \/ Request \/ ReadTotal \/ Respond \/ UNCHANGED vars
  BY <1>1, <1>2, MovesKeepWalk
<1>3. CASE ReadRows
  BY <1>1, <1>3, ReadKeepsWalk
<1>4. CASE \E i \in Ids : Delete(i) \/ \E k \in Kinds : Insert(i, k) \/ Update(i, k)
  <2>1. PICK i \in Ids, row \in Kinds \cup {Null} : Write(i, row)
    BY <1>4 DEF Delete, Insert, Update
  <2> QED
    BY <1>1, <2>1, WriteKeepsWalk
<1> QED
  BY <1>2, <1>3, <1>4 DEF Next

\* The invariant, beside the one above, in every reachable state.
THEOREM WalkInvariant == Spec => []WalkInv
  BY InitWalk, StepWalk, Invariant, PTL DEF Spec

-----------------------------------------------------------------------------
(***************************************************************************)
(* The total.                                                              *)
(***************************************************************************)
\* No more is sent than there are users, and at the end no fewer, but for the
\* commits since; and a total is the count at the time it was read.
TotalInv ==
    /\ Len(Sent) - Count <= writes
    /\ AtEnd => Count - Len(Sent) <= writes
    /\ pc \in {"page", "done"} =>
          /\ Len(Sent) - total <= writes
          /\ AtEnd => total - Len(Sent) <= writes

LEMMA InitTotal == Init => TotalInv
<1> SUFFICES ASSUME Init PROVE TotalInv
  OBVIOUS
<1>1. Sent = <<>> /\ ~AtEnd /\ pc = "boot" /\ writes = 0
  BY DEF Init, Sent, AtEnd
<1>2. Len(Sent) = 0 /\ Count \in Nat
  BY <1>1, CountIsNat
<1> QED
  BY <1>1, <1>2 DEF TotalInv

\* A commit changes the count by one at most.
LEMMA CountShifts ==
    ASSUME TypeOK, NEW i \in Ids, NEW row \in Kinds \cup {Null}, Write(i, row)
    PROVE  Count' \in Nat /\ Count - Count' <= 1 /\ Count' - Count <= 1
<1>1. table' = [table EXCEPT ![i] = row] /\ query' = query /\ table \in [Ids -> Kinds \cup {Null}]
  BY DEF Write, TypeOK, query
<1>2. Matching' \subseteq Matching \cup {i} /\ Matching \subseteq Matching' \cup {i}
  BY <1>1 DEF Matching, Matches
<1>3. IsFiniteSet(Matching) /\ IsFiniteSet(Matching')
  <2>1. Matching \subseteq Ids /\ Matching' \subseteq Ids
    BY DEF Matching
  <2> QED
    BY <2>1, KindFacts, FS_Subset
<1>4. /\ Cardinality(Matching') <= Cardinality(Matching) + 1
      /\ Cardinality(Matching) <= Cardinality(Matching') + 1
  BY <1>2, <1>3, OneMore
<1>5. Cardinality(Matching) \in Nat /\ Cardinality(Matching') \in Nat
  BY <1>3, FS_CardinalityType
<1> QED
  BY <1>4, <1>5 DEF Count

LEMMA StepTotal == IInv /\ IInv' /\ WalkInv /\ TotalInv /\ [Next]_vars => TotalInv'
<1> SUFFICES ASSUME IInv, IInv', WalkInv, TotalInv, [Next]_vars PROVE TotalInv'
  OBVIOUS
<1>1. TypeOK /\ TypeOK' /\ Checked /\ Count \in Nat /\ Len(Sent) \in Nat
  BY CountIsNat, SentType DEF IInv
<1>2. writes \in Nat /\ offset \in Nat /\ total \in Nat /\ query.limit \in Nat
  <2>1. start.commits \in Nat /\ start.query.limit \in Nat /\ writes \in 0 .. start.commits
    BY StartFacts DEF IInv, Checked, TypeOK
  <2>2. offset \in Nat /\ total \in Nat
    BY DEF IInv, TypeOK
  <2> QED
    BY <2>1, <2>2 DEF query
<1>3. CASE Boot \/ Tick \/ Request \/ ReadTotal \/ Respond \/ UNCHANGED vars
  <2>1. start' = start /\ table' = table /\ writes' = writes /\ query' = query /\ Count' = Count
    BY <1>3 DEF Boot, Tick, Request, ReadTotal, Respond, vars, query, Count, Matching, Matches
  <2>2. Sent' = Sent /\ (AtEnd' <=> AtEnd)
    <3>1. CASE Boot
      BY <2>1, <3>1 DEF Boot, Sent, AtEnd
    <3>2. CASE Tick \/ UNCHANGED vars
      BY <2>1, <3>2 DEF Tick, vars, Sent, AtEnd
    <3>3. CASE Request
      BY <2>1, <3>3 DEF Request, Sent, AtEnd
    <3>4. CASE ReadTotal
      BY <2>1, <3>4 DEF ReadTotal, Sent, AtEnd
    <3>5. CASE Respond
      BY <2>1, <3>5 DEF Respond, Sent, AtEnd
    <3> QED
      BY <1>3, <3>1, <3>2, <3>3, <3>4, <3>5
  <2>3. CASE ReadTotal
    BY <2>1, <2>2, <2>3 DEF ReadTotal, TotalInv
  <2>4. CASE Boot \/ Tick \/ Request \/ Respond \/ UNCHANGED vars
    <3>1. total' = total /\ (pc' \in {"page", "done"} => pc \in {"page", "done"})
      BY <2>4 DEF Boot, Tick, Request, Respond, vars
    <3> QED
      BY <2>1, <2>2, <3>1 DEF TotalInv
  <2> QED
    BY <1>3, <2>3, <2>4
<1>4. CASE ReadRows
  <2> DEFINE m == query.limit  n == Len(page')
  <2>1. /\ pc = "rows" /\ pc' = "count" /\ writes' = writes /\ got' = got /\ query' = query
        /\ Count' = Count
    BY <1>4 DEF ReadRows, query, Count, Matching, Matches
  <2>2. n = IF Count <= offset THEN 0 ELSE IF Count < offset + m THEN Count - offset ELSE m
    BY <1>1, <1>4, PageRead
  <2>3. got \in Seq(Ids) /\ page' \in Seq(Ids) /\ Len(got) = offset /\ Len(got) - Count <= writes
    BY <1>1, <2>1 DEF TypeOK, WalkInv, TotalInv, Sent, Bound, AtEnd
  <2>4. Len(Sent') = offset + n /\ n \in Nat /\ (AtEnd' <=> n < m)
    BY <2>1, <2>3 DEF Sent, AtEnd
  <2> DEFINE count == Count  sent == Len(Sent')
  <2>5. /\ count \in Nat /\ offset \in Nat /\ writes \in Nat /\ m \in Nat /\ n \in Nat
        /\ n = IF count <= offset THEN 0 ELSE IF count < offset + m THEN count - offset ELSE m
        /\ offset - count <= writes /\ sent = offset + n
    BY <1>1, <1>2, <2>2, <2>3, <2>4
  <2> HIDE DEF m, n, count, sent
  <2>6. sent - count <= writes
    <3>1. CASE count <= offset
      BY <2>5, <3>1
    <3>2. CASE ~(count <= offset)
      BY <2>5, <3>2
    <3> QED
      BY <3>1, <3>2
  <2>7. n < m => count - sent <= writes
    BY <2>5
  <2> QED
    BY <2>1, <2>4, <2>6, <2>7 DEF TotalInv, count, sent
<1>5. CASE \E i \in Ids : Delete(i) \/ \E k \in Kinds : Insert(i, k) \/ Update(i, k)
  <2>1. PICK i \in Ids, row \in Kinds \cup {Null} : Write(i, row)
    BY <1>5 DEF Delete, Insert, Update
  <2>2. /\ writes' = writes + 1 /\ Sent' = Sent /\ (AtEnd' <=> AtEnd)
        /\ total' = total /\ pc' = pc
    BY <2>1 DEF Write, Sent, AtEnd, query
  <2>3. Count' \in Nat /\ Count - Count' <= 1 /\ Count' - Count <= 1
    BY <1>1, <2>1, CountShifts
  <2>4. /\ Len(Sent) - Count <= writes
        /\ AtEnd => Count - Len(Sent) <= writes
        /\ pc \in {"page", "done"} =>
              Len(Sent) - total <= writes /\ (AtEnd => total - Len(Sent) <= writes)
    BY DEF TotalInv
  <2> DEFINE sent == Len(Sent)  count == Count  next == Count'
  <2>5. sent \in Nat /\ count \in Nat /\ next \in Nat /\ count - next <= 1 /\ next - count <= 1
    BY <1>1, <2>3
  <2> HIDE DEF sent, count, next
  <2>6. sent - count <= writes => sent - next <= writes + 1
    BY <1>2, <2>5
  <2>7. count - sent <= writes => next - sent <= writes + 1
    BY <1>2, <2>5
  <2>8. /\ sent - total <= writes => sent - total <= writes + 1
        /\ total - sent <= writes => total - sent <= writes + 1
    BY <1>2, <2>5
  <2> QED
    BY <2>2, <2>4, <2>6, <2>7, <2>8 DEF TotalInv, sent, count, next
<1> QED
  BY <1>3, <1>4, <1>5 DEF Next

LEMMA TotalInvariant == Spec => []TotalInv
  BY InitTotal, StepTotal, Invariant, WalkInvariant, PTL DEF Spec

-----------------------------------------------------------------------------
(***************************************************************************)
(* What a walk tells its client.                                           *)
(***************************************************************************)
\* A user nobody wrote is missed, or a user repeated, no more often than there
\* were commits, and the total is off by no more, for every number of users,
\* pages and commits in between: what LIMIT and OFFSET over separate requests,
\* and a count of its own (repository.py), can promise.
THEOREM WalkDrifts == Spec => []DriftIsBounded
<1>1. IInv /\ WalkInv /\ TotalInv => DriftIsBounded
  <2> SUFFICES ASSUME IInv, WalkInv, TotalInv, pc = "done"
               PROVE  /\ Cardinality((Matching \ touched) \ Seen) <= writes
                      /\ Repeats <= writes
                      /\ Len(got) - total <= writes /\ total - Len(got) <= writes
    BY DEF DriftIsBounded
  <2>1. Sent = got /\ AtEnd /\ Sortable(query.sort) /\ Seen = Elements(got)
    BY DEF Sent, AtEnd, WalkInv, Seen, Elements
  <2>2. /\ Cardinality((Matching \ touched) \ Seen) <= writes
        /\ Len(got) - Cardinality(Seen) + Cardinality(Coming) <= writes
    BY <2>1 DEF WalkInv, Drift
  <2>3. /\ got \in Seq(Ids) /\ writes \in Nat
    <3>1. start.commits \in Nat /\ got \in Seq(Ids) /\ writes \in 0 .. start.commits
      BY StartFacts DEF IInv, Checked, TypeOK
    <3> QED
      BY <3>1
  <2>4. Cardinality(Seen) \in Nat /\ Len(got) \in Nat
    BY <2>1, <2>3, ElementsOf
  <2>5. Cardinality(Coming) \in Nat
    <3>1. Coming \subseteq Matching
      BY DEF Coming, Later
    <3> QED
      BY <3>1, MatchingIsFinite, FewerOf
  <2>6. Len(got) - total <= writes /\ total - Len(got) <= writes
    BY <2>1 DEF TotalInv
  <2> QED
    BY <2>2, <2>3, <2>4, <2>5, <2>6 DEF Repeats
<1> QED
  BY <1>1, Invariant, WalkInvariant, TotalInvariant, PTL

\* While nobody writes, the pages put together are every matching user, once and
\* in the order asked for, and the total is their number: the primary key that
\* the repository appends to the sort makes the places of all pages agree.
THEOREM WalkIsComplete == Spec => []QuietWalkIsComplete
<1>1. IInv /\ WalkInv => QuietWalkIsComplete
  <2> SUFFICES ASSUME IInv, WalkInv, pc = "done", writes = 0
               PROVE  /\ Seen = Matching /\ Repeats = 0
                      /\ \A k, l \in DOMAIN got : k < l => ~Precedes(got[l], got[k])
                      /\ total = Len(got)
    BY DEF QuietWalkIsComplete
  <2>1. /\ Sent = got /\ AtEnd /\ Sortable(query.sort) /\ Seen = Elements(got)
        /\ touched = {} /\ total = Cardinality(Matching)
        /\ \A k \in DOMAIN got : got[k] \in Matching /\ Place(Matching, Order, got[k]) = k - 1
    BY DEF Sent, AtEnd, WalkInv, Quiet, Seen, Elements, Count
  <2>2. got \in Seq(Ids) /\ DOMAIN got = 1 .. Len(got) /\ Len(got) \in Nat
    <3>1. got \in Seq(Ids)
      BY DEF IInv, TypeOK
    <3> QED
      BY <3>1
  <2>3. \A k, l \in DOMAIN got : got[k] = got[l] => k = l
    <3> SUFFICES ASSUME NEW k \in DOMAIN got, NEW l \in DOMAIN got, got[k] = got[l] PROVE k = l
      OBVIOUS
    <3>1. k - 1 = l - 1 /\ k \in Int /\ l \in Int
      BY <2>1, <2>2
    <3> QED
      BY <3>1
  <2>4. Cardinality(Seen) = Len(got)
    BY <2>1, <2>2, <2>3, ElementsOf
  <2>5. Seen \subseteq Matching
    BY <2>1 DEF Elements
  <2>6. Matching \subseteq Seen
    <3> DEFINE T == (Matching \ touched) \ Seen
    <3>1. Cardinality(T) <= 0
      BY <2>1 DEF WalkInv, Drift
    <3>2. IsFiniteSet(T) /\ Cardinality(T) \in Nat
      <4>1. T \subseteq Matching
        OBVIOUS
      <4> QED
        BY <4>1, MatchingIsFinite, FewerOf
    <3>3. Cardinality(T) = 0
      BY <3>1, <3>2
    <3>4. T = {}
      BY <3>2, <3>3, FS_EmptySet
    <3> QED
      BY <2>1, <3>4
  <2>7. \A k, l \in DOMAIN got : k < l => ~Precedes(got[l], got[k])
    <3> SUFFICES ASSUME NEW k \in DOMAIN got, NEW l \in DOMAIN got, k < l,
                        Precedes(got[l], got[k])
                 PROVE  FALSE
      OBVIOUS
    <3>1. <<got[l], got[k]>> \in Order
      <4>1. Sooner(table, parse_sort(query.sort), got[l], got[k])
        BY DEF Sooner, Precedes
      <4>2. got[l] \in Ids /\ got[k] \in Ids
        BY <2>2
      <4> QED
        BY <4>1, <4>2 DEF Order, Ordered
    <3>2. Linear(Matching, Order)
      BY <2>1, OrderOfMatching DEF IInv, Checked
    <3>3. Place(Matching, Order, got[l]) < Place(Matching, Order, got[k])
      BY <2>1, <3>1, <3>2, MatchingIsFinite, PlacesGrow
    <3>4. l - 1 < k - 1 /\ k \in Int /\ l \in Int
      BY <2>1, <2>2, <3>3
    <3> QED
      BY <3>4
  <2> QED
    BY <2>1, <2>2, <2>4, <2>5, <2>6, <2>7 DEF Repeats
<1> QED
  BY <1>1, Invariant, WalkInvariant, PTL
=============================================================================
