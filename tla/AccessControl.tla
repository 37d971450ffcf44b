--------------------------- MODULE AccessControl ----------------------------
(***************************************************************************)
(* Who gets in: what create_app() refuses to start with (app/core/config.py*)
(* and the CORS and host checks of middlewares.py), which Host header is   *)
(* served, and what a bearer token is worth to require_roles (security.py).*)
(*                                                                         *)
(* These are decisions, not steps; the modules of routes take them.  The   *)
(* key a token names comes from JwksCache; a provider that fails there is  *)
(* not repeated here.  PyJWT's decoding is external.                       *)
(*                                                                         *)
(* Data: an unset setting is ""; a host is the sequence of its labels; a   *)
(* token is what was written into it, and whose key signed it.             *)
(***************************************************************************)
EXTENDS Integers, Sequences

CONSTANT Leeway  \* _CLOCK_SKEW_LEEWAY_SECONDS

ASSUME AccessAssumption == Leeway \in Nat

(***************************************************************************)
(* The settings, and a boot with them.                                     *)
(***************************************************************************)
Environments == {"development", "test", "production"}

\* QUOIN_ENV of the process picks the env file, which may name another; the
\* process's own comes first.
ENV(s) == IF s.process # "unset" THEN s.process
          ELSE IF s.dotenv # "unset" THEN s.dotenv ELSE "development"

Exact(name) == [kind |-> "exact", name |-> name]
Subdomains(name) == [kind |-> "subdomains", name |-> name]
AnyHost == [kind |-> "any", name |-> <<>>]

DEFAULT_ALLOWED_HOSTS ==
    <<Exact(<<"localhost">>), Exact(<<"127.0.0.1">>), Exact(<<"test">>),
      Subdomains(<<"orb", "local">>)>>

validate_production_oauth(s) == s.issuer # "" /\ s.audience # "" /\ s.jwks = "https"
validate_production_hosts(s) == s.hosts # <<>> /\ s.hosts # DEFAULT_ALLOWED_HOSTS

\* Variant: asks the process, not the settings.
validate_production_settings_Process(s) ==
    s.process = "production" => validate_production_oauth(s) /\ validate_production_hosts(s)

validate_production_settings(s) ==
    ENV(s) = "production" => validate_production_oauth(s) /\ validate_production_hosts(s)

\* A wildcard in the origins or any of the lists, with credentials; the
\* request id's header, added to two of them, changes nothing of that.
configure_cors(s) ==
    /\ s.cors.origins # {} /\ s.cors.credentials /\ ENV(s) # "development"
    => "*" \notin s.cors.origins \cup s.cors.lists

\* The wildcards TrustedHostMiddleware is built with are leading labels.
configure_trusted_hosts(s) ==
    \A i \in DOMAIN s.hosts : s.hosts[i].kind \in {"exact", "subdomains", "any"}

Boots(s) ==
    /\ s.process \in Environments \cup {"unset"}
    /\ ENV(s) \in Environments
    /\ validate_production_settings(s)
    /\ configure_cors(s)
    /\ configure_trusted_hosts(s)

(***************************************************************************)
(* A request.                                                              *)
(***************************************************************************)
EndsWith(host, name) ==
    Len(host) > Len(name) /\ SubSeq(host, Len(host) - Len(name) + 1, Len(host)) = name

\* TrustedHostMiddleware
HostAllowed(s, host) ==
    \E i \in DOMAIN s.hosts :
        \/ s.hosts[i].kind = "any"
        \/ s.hosts[i].kind = "exact" /\ host = s.hosts[i].name
        \/ s.hosts[i].kind = "subdomains" /\ EndsWith(host, s.hosts[i].name)

\* jwt.decode: the issuer is not looked at when none is asked for.
Decodes(s, t, now) ==
    /\ t.key = "provider"
    /\ t.missing = {}
    /\ t.exp > now - Leeway
    /\ t.iat <= now + Leeway
    /\ t.aud = s.audience
    /\ s.issuer # "" => t.iss = s.issuer

\* Variant: the issuer may be unset.
validate_token_NoIssuer(s, t, now) ==
    CASE s.jwks = "" -> "not configured"
      [] t.form = "none" -> "unauthorized"
      [] s.audience = "" -> "not configured"
      [] t.form = "garbled" \/ t.key = "unknown" -> "unauthorized"
      [] OTHER -> IF Decodes(s, t, now) THEN "ok" ELSE "unauthorized"

\* The cache is resolved before the header is missed, both before the token
\* is looked at.
validate_token(s, t, now) ==
    CASE s.jwks = "" -> "not configured"
      [] t.form = "none" -> "unauthorized"
      [] s.audience = "" \/ s.issuer = "" -> "not configured"
      [] t.form = "garbled" \/ t.key = "unknown" -> "unauthorized"
      [] OTHER -> IF Decodes(s, t, now) THEN "ok" ELSE "unauthorized"

\* A list of names, or one string of them.
extract_roles(t) == IF t.roles.form \in {"list", "string"} THEN t.roles.names ELSE {}

get_current_caller(s, t, now) ==
    IF validate_token(s, t, now) = "ok" /\ t.sub = "" THEN "unauthorized"
    ELSE validate_token(s, t, now)

is_superuser(s, t) ==
    /\ s.superuser.enabled /\ s.superuser.role # ""
    /\ s.superuser.role \in extract_roles(t)

require_roles(roles, s, t, now) ==
    IF get_current_caller(s, t, now) # "ok" THEN get_current_caller(s, t, now)
    ELSE IF is_superuser(s, t) \/ roles \subseteq extract_roles(t) THEN "ok" ELSE "forbidden"
=============================================================================
