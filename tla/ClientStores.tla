----------------------------- MODULE ClientStores -----------------------------
(***************************************************************************)
(* The state kept for one InspectorClient: its lists, its tasks, its two   *)
(* logs, the requests the server makes of it, its authorization and where  *)
(* that is stored.  They meet in the client's session at most, so that     *)
(* each is checked against every session by itself: `watched` is the one   *)
(* that is attached.                                                       *)
(***************************************************************************)
EXTENDS ManagedList, RequestorTasks, MessageLog, FetchLog, PeerRequests,
        OAuthManager, OAuthStorage

VARIABLE watched

StoresInit ==
  /\ ListInit /\ TasksInit /\ LogInit /\ FetchInit /\ PeersInit
  /\ OAuthInit /\ StorageInit
  /\ watched \in {"list", "tasks", "log", "fetches", "peers", "oauth", "credentials"}
  /\ watched # "list" => ~auto /\ ~paginated
  /\ watched # "tasks" => modern
  /\ watched # "fetches" => loading /\ cap = CHOOSE max \in Caps : TRUE
  /\ watched # "oauth" => web /\ scope = {}

StoresNext ==
  /\ UNCHANGED watched
  /\ \/ /\ watched = "list" /\ ListNext
        /\ UNCHANGED <<taskVars, logVars, fetchVars, peerVars, oauthVars, credentialVars>>
     \/ /\ watched = "tasks" /\ TasksNext
        /\ UNCHANGED <<listVars, logVars, fetchVars, peerVars, oauthVars, credentialVars>>
     \/ /\ watched = "log" /\ LogNext
        /\ UNCHANGED <<listVars, taskVars, fetchVars, peerVars, oauthVars, credentialVars>>
     \/ /\ watched = "fetches" /\ FetchNext
        /\ UNCHANGED <<sessionVars, listVars, taskVars, logVars, peerVars, oauthVars, credentialVars>>
     \/ /\ watched = "peers" /\ PeersNext
        /\ UNCHANGED <<sessionVars, listVars, taskVars, logVars, fetchVars, oauthVars, credentialVars>>
     \/ /\ watched = "oauth" /\ OAuthNext
        /\ UNCHANGED <<sessionVars, listVars, taskVars, logVars, fetchVars, peerVars, credentialVars>>
     \/ /\ watched = "credentials" /\ StorageNext
        /\ UNCHANGED <<sessionVars, listVars, taskVars, logVars, fetchVars, peerVars, oauthVars>>

storesVars == <<sessionVars, listVars, taskVars, logVars, fetchVars, peerVars, oauthVars,
                credentialVars, watched>>

StoresSpec == StoresInit /\ [][StoresNext]_storesVars

-----------------------------------------------------------------------------
(* Properties. *)

(* The stores hold what they may: of a paged list, the pages in their       *)
(* order; of the tasks, a list of rows that were created or read; of the    *)
(* logs, no more than their cap.                                            *)
StoresTypeOK ==
  /\ SessionTypeOK
  /\ CASE watched = "list" -> ListTypeOK /\ PagesInOrder
       [] watched = "tasks" -> TasksTypeOK
       [] watched = "log" -> LogTypeOK
       [] watched = "fetches" -> FetchTypeOK
       [] watched = "peers" -> PeersTypeOK
       [] watched = "oauth" -> OAuthTypeOK
       [] watched = "credentials" -> StorageTypeOK

(* NothingMissed of ManagedList, whose store hears of sessions if attached. *)
ListMissesNothing == watched = "list" => NothingMissed
=============================================================================
