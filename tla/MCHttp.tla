------------------------------- MODULE MCHttp -------------------------------
(***************************************************************************)
(* Small instances of HttpClient for TLC.                                  *)
(***************************************************************************)
EXTENDS HttpClient

CONSTANTS h1, h2

Get(host) == [host |-> host, idempotent |-> TRUE, on_status |-> FALSE]
Post(host) == [host |-> host, idempotent |-> FALSE, on_status |-> FALSE]
OnStatus(request) == [request EXCEPT !.on_status = TRUE]

\* Each kind of call: writes to one host, reads of the other, a relative URL.
EveryKind(writes, reads) == {Post(writes), OnStatus(Post(writes)), Get(reads), Get(NoHost)}

MCRequests == EveryKind(h1, h2)
=============================================================================
