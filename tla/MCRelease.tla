----------------------------- MODULE MCRelease -----------------------------
(***************************************************************************)
(* Small instances of ReleaseScripts for TLC.                              *)
(***************************************************************************)
EXTENDS ReleaseScripts, TLC

\* A final version is out, or a candidate.
MCFirsts == {V(0, 12, 0, 0), V(0, 13, 0, 1)}

\* A candidate of a minor version, the next candidate, the final version.
MCBumpArgs == {<<"minor", TRUE>>, <<"rc", FALSE>>, <<"release", FALSE>>}
=============================================================================
