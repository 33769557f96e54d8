------------------------ MODULE MCCatalogEnvironments ------------------------
EXTENDS MCServerCatalog

(* Two environments in one run: env secrets under edits, failures and       *)
(* restarts, and the OAuth secret where nothing fails.  A save of the       *)
(* config alone loses the OAuth secret (ConfigSaveKeepsOauth), so the       *)
(* second has none.                                                         *)
VARIABLE environment

InEnvironment ==
  CASE environment = "faults" ->
         \A q \in Reqs : req[q].op # "patch" /\ \A f \in OauthFields : req[q].body[f] = Absent
    [] environment = "oauth" ->
         edits = 0 /\ faults = 0 /\ \A q \in Reqs : req[q].op # "config"

(* The hand edits of the faulty environment touch env keys only. *)
NoOauthInFile ==
  environment = "faults" =>
    \A id \in Ids, f \in OauthFields : file[id] # NoEntry => file[id][f] = Absent

EnvironmentInit == Init /\ environment \in {"faults", "oauth"}

EnvironmentNext ==
  /\ Next
  /\ UNCHANGED environment
  /\ InEnvironment' /\ NoOauthInFile'

EnvironmentSpec == EnvironmentInit /\ [][EnvironmentNext]_<<vars, environment>>
=============================================================================
