------------------------------- MODULE MCJwks -------------------------------
(***************************************************************************)
(* Small instances of JwksCache for TLC.                                   *)
(***************************************************************************)
EXTENDS JwksCache, TLC

Symmetry == Permutations(Callers) \cup Permutations(Kids)
=============================================================================
