---------------------------- MODULE MCRemoteLink ----------------------------
(* Constants for the TLC runs of RemoteLink. *)
EXTENDS RemoteLink

CONSTANTS r1, n1

NoSends == {}
OneRequest == {r1}
OneNotification == {n1}
=============================================================================
