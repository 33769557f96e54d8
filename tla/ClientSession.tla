---------------------------- MODULE ClientSession ----------------------------
(***************************************************************************)
(* The session of one InspectorClient as the state managers attached to it *)
(* see it: the status the client reports, its `connect` event, and the     *)
(* transport underneath.  An onerror reports the status "error" and leaves *)
(* the transport open, so that requests in flight may still be answered,   *)
(* and the next connect() may reuse it.                                    *)
(***************************************************************************)
EXTENDS Integers

CONSTANT MaxSessions  \* bound: sessions the client opens

ASSUME SessionAssumption == MaxSessions \in Nat

VARIABLES
  status,    \* ConnectionStatus; "connecting" is not told from "disconnected"
  wire,      \* the transport is open
  session,   \* sessions opened so far
  announced  \* the `connect` event of this session was dispatched

sessionVars == <<status, wire, session, announced>>

SessionTypeOK ==
  /\ status \in {"disconnected", "connected", "error"}
  /\ wire \in BOOLEAN
  /\ session \in 0..MaxSessions
  /\ announced \in BOOLEAN

SessionInit ==
  /\ status = "disconnected" /\ wire = FALSE /\ session = 0 /\ announced = FALSE

Connected == status = "connected"

(* connect(): the handshake succeeded, over a new transport or over the one *)
(* an onerror left behind.  That the transport may have closed before the   *)
(* last answer of the handshake is the subject of ListenStream and          *)
(* PeerRequests; here it is open.                                           *)
SessionOpens ==
  /\ ~Connected
  /\ session < MaxSessions
  /\ status' = "connected" /\ wire' = TRUE
  /\ session' = session + 1
  /\ announced' = FALSE

(* connect() dispatches `connect` last, unless a teardown overtook it. *)
SessionAnnounced ==
  /\ Connected /\ ~announced
  /\ announced' = TRUE
  /\ UNCHANGED <<status, wire, session>>

(* The transport's onclose, which holds an "error" status, or disconnect(). *)
SessionCloses ==
  /\ wire
  /\ wire' = FALSE
  /\ status' \in {"disconnected", status} \ {"connected"}
  /\ announced' = FALSE
  /\ UNCHANGED session

(* The transport's onerror. *)
SessionErrs ==
  /\ Connected
  /\ status' = "error"
  /\ announced' = FALSE
  /\ UNCHANGED <<wire, session>>
=============================================================================
