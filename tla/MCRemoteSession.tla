--------------------------- MODULE MCRemoteSession ---------------------------
(* Constants for the TLC runs of RemoteSession. *)
EXTENDS RemoteSession

CONSTANTS r1, r2, n1

OneRequest == {r1}
TwoRequests == {r1, r2}
OneRequestOneNotification == {r1, n1}
=============================================================================
