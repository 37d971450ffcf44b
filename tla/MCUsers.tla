------------------------------ MODULE MCUsers ------------------------------
(***************************************************************************)
(* Small instances of UserUnitOfWork for TLC.                              *)
(***************************************************************************)
EXTENDS UserRefinement, TLC

CONSTANTS u1, u2, p, q, r1, r2, r3, r4

\* "A" is a legacy mixed-case spelling of "a".
MCEmails == {"a", "A", "b"}
MCLower == [e \in MCEmails |-> IF e = "A" THEN "a" ELSE e]
LiveRow(e, d) == [email |-> e, profile |-> d, deleted_at |-> Null]
MCSeedRows ==
    {LiveRow("A", p), LiveRow("b", p), [LiveRow("a", p) EXCEPT !.deleted_at = u1]}

\* Four updates: two put their address where two others are about to look.
SwapEmails == {"w", "x", "y", "z"}
SwapLower == [e \in SwapEmails |-> e]
SwapRows == {LiveRow("w", p), LiveRow("z", p)}
Patch(i, e) == [op |-> "update", id |-> i, email |-> e, profile |-> Null]
SwapWorkload == r1 :> {Patch(u1, "y")} @@ r2 :> {Patch(u2, "x")}
                @@ r3 :> {Patch(u2, "y")} @@ r4 :> {Patch(u1, "x")}

Asking(ops) == [r \in Reqs |-> {a \in ValidRequest : a.op \in ops}]
AnyRequest == Asking({"create", "get", "update", "delete"})
DeleteOnly == Asking({"delete"})

Symmetry == Permutations(Reqs)
=============================================================================
