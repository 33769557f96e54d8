--------------------------- MODULE MCListenStream ---------------------------
(* Constants and symmetry for the TLC runs of ListenStream. *)
EXTENDS ListenStream, TLC

CONSTANTS u1, u2

TwoUris == {u1, u2}
OneUri == {u1}
Symmetry == Permutations(TwoUris)
=============================================================================
