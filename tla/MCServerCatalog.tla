--------------------------- MODULE MCServerCatalog ---------------------------
(* Constants for the TLC runs of ServerCatalog. *)
EXTENDS ServerCatalog, TLC

CONSTANTS s1, s2, e1, o, v1, v2, q1, q2, q3

ReqSymmetry == Permutations(Reqs)

OneSeed == {s1}
NoSeeds == {}
AllOps == {"post", "config", "rename", "settings", "patch", "delete"}
ConfigOps == {"post", "config"}
=============================================================================
