----------------------------- MODULE MCListing ------------------------------
(***************************************************************************)
(* Instances of UserListing for TLC.                                       *)
(***************************************************************************)
EXTENDS UserListing

RowKind(created, name, active, words) ==
    [created_at |-> created, full_name |-> name, is_active |-> active, words |-> words]

\* Names: 1, and 9 for NULL.
MCKinds == {RowKind(1, 1, TRUE, {"x"}), RowKind(1, 9, FALSE, {"x"}), RowKind(2, 9, TRUE, {})}

MCIds == 1 .. 4

\* Three users and an id between theirs for a new one.
Tables == {t \in [MCIds -> MCKinds \cup {Null}] : \A i \in MCIds : t[i] = Null <=> i = 2}

Sorts == {
    <<>>,
    <<Blank, Term("full_name", FALSE)>>,
    <<Term("full_name", TRUE), Term("created_at", FALSE)>>,
    <<Term("password", FALSE)>>,
    <<Term("", TRUE)>>}

Query(sort, active, q, limit) == [sort |-> sort, is_active |-> active, q |-> q, limit |-> limit]

Queries ==
    {Query(s, f[1], f[2], n) :
        s \in Sorts, f \in {<<Null, Null>>, <<TRUE, Null>>, <<Null, "x">>}, n \in {1, 2}}
    \cup {Query(<<>>, Null, Null, n) : n \in {0, 3}}

Api == <<"api", "example", "com">>
Hosts == {<<Subdomains(<<"example", "com">>)>>, <<Exact(Api), AnyHost>>, DEFAULT_ALLOWED_HOSTS,
          <<>>, <<[kind |-> "infix", name |-> Api]>>}
Cors == {[origins |-> o, lists |-> l, credentials |-> c] :
            o \in {{}, {"*"}, {"site"}}, l \in {{}, {"*"}}, c \in BOOLEAN}

Settings(process, dotenv, jwks, issuer, audience, hosts, cors, super) ==
    [process |-> process, dotenv |-> dotenv, jwks |-> jwks, issuer |-> issuer,
     audience |-> audience, hosts |-> hosts, cors |-> cors,
     superuser |-> [enabled |-> super, role |-> "api.superuser"]]

Site == [origins |-> {"site"}, lists |-> {}, credentials |-> TRUE]
Good == Settings("production", "unset", "https", "provider", "service",
                 <<Subdomains(<<"example", "com">>)>>, Site, FALSE)

Token(key, iss, aud, sub, iat, exp, form, names) ==
    [form |-> "jwt", key |-> key, iss |-> iss, aud |-> aud, sub |-> sub, iat |-> iat,
     exp |-> exp, missing |-> {}, roles |-> [form |-> form, names |-> names]]
Reader == Token("provider", "provider", "service", "s", 0, 9, "list", {"users.read"})

Start(settings, host, token, now, q, t, n) ==
    [settings |-> settings, host |-> host, token |-> token, clock |-> now, query |-> q,
     table |-> t, commits |-> n]

\* Every table and query for a reader whose token lasts.
Walks == {Start(Good, Api, Reader, 3, q, t, 2) : q \in Queries, t \in Tables}

OneByOne == Query(<<>>, Null, Null, 1)
Table1 == [i \in MCIds |-> IF i < 3 THEN RowKind(1, 1, TRUE, {"x"}) ELSE Null]

\* One walk of two pages under every setting a boot may meet.
Boots1 ==
    {Start(Settings(p, d, j, i, a, h, Site, FALSE), n, Reader, 3, OneByOne, Table1, 0) :
        p \in {"unset", "test", "production", ""}, d \in {"unset", "production"},
        j \in {"", "http", "https"}, i \in {"", "provider"}, a \in {"", "service"},
        h \in Hosts, n \in {Api, <<"example", "com">>, <<"localhost">>}}
    \cup {Start([Good EXCEPT !.cors = c, !.process = p], Api, Reader, 3, OneByOne, Table1, 0) :
        c \in Cors, p \in {"development", "production"}}

\* And for every token that may come, over the time in which it expires.
Tokens ==
    {Token(k, i, a, s, t, 1, f, n) :
        k \in {"provider", "other", "unknown"}, i \in {"provider", "other"},
        a \in {"service", "other"}, s \in {"", "s"}, t \in {0, 2},
        f \in {"list", "string", "other"},
        n \in {{"users.read"}, {"users.write", "api.superuser"}}}
    \cup {[Reader EXCEPT !.form = f] : f \in {"none", "garbled"}}
    \cup {[Reader EXCEPT !.missing = {"iat"}]}

Callers ==
    {Start([Good EXCEPT !.process = "development", !.issuer = i, !.superuser.enabled = e],
           Api, t, 0, OneByOne, Table1, 1) :
        i \in {"", "provider"}, e \in BOOLEAN, t \in Tokens}

MCStarts == Walks \cup Boots1 \cup Callers
=============================================================================
