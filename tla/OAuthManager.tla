---------------------------- MODULE OAuthManager ----------------------------
(***************************************************************************)
(* How the client of one server gets its authorization                     *)
(* (core/mcp/oauthManager.ts): challenges of the server, recovered from    *)
(* one at a time; the authorization a user is sent to, completed at any    *)
(* time; and what is stored of both.  The SDK's auth() and the             *)
(* authorization server are the environment.                               *)
(***************************************************************************)
EXTENDS Integers, Sequences

CONSTANTS
  Scopes,
  Configured,    \* the scopes of the server's settings
  Challenges,    \* challenges, each handled once
  NoChallenge

ASSUME OAuthManagerAssumption ==
  /\ Configured \subseteq Scopes /\ Configured # {}
  /\ NoChallenge \notin Challenges

VARIABLES
  scope,         \* the scope in storage; empty is none
  token,         \* the token in storage: what it grants, and whether it says so
  codeVerifier,  \* the challenge whose authorization the stored verifier belongs to
  pendingScope,  \* pendingAuthorizationScope; empty is none
  authChallengeMutex, \* the challenges that hold or await the mutex, in order
  recovery,      \* for each challenge: its reason and where handling it has got to
  flow,          \* the authorization the user is at, or whose code is being exchanged
  clearing,      \* clearOAuthTokens() awaits the storage
  web,           \* the front end is a page, which an authorization reloads
  lapses         \* history: what is known to make the stored scope say too much

oauthVars == <<scope, token, codeVerifier, pendingScope, authChallengeMutex, recovery, flow, clearing, web, lapses>>

NoToken == [grants |-> {}, says |-> FALSE]
NoFlow == [of |-> NoChallenge, at |-> "none", verifier |-> NoChallenge]
NoRecovery == [reason |-> "none", at |-> "none", needs |-> {}, lacks |-> {},
               asks |-> {}, old |-> {}]

Reasons == {"insufficient_scope", "token_expired", "connect"}
Recovering == {"preparing", "authorizing", "redirecting", "confirming", "forcing"}
Lapses == {"overlap", "relogin", "cleared", "confirmed"}
Answered == {"satisfied", "interactive", "failed", "begun", "declined", "gone"}

OAuthTypeOK ==
  /\ scope \subseteq Scopes /\ pendingScope \subseteq Scopes
  /\ token \in [grants : SUBSET Scopes, says : BOOLEAN]
  /\ codeVerifier \in Challenges \union {NoChallenge}
  /\ authChallengeMutex \in Seq(Challenges)
  /\ recovery \in [Challenges -> [reason : Reasons \union {"none"},
                                  at : {"none", "waiting"} \union Recovering \union Answered,
                                  needs : SUBSET Scopes, lacks : SUBSET Scopes,
                                  asks : SUBSET Scopes, old : SUBSET Scopes]]
  /\ flow \in {NoFlow} \union [of : Challenges, at : {"away", "exchanging", "saving", "clearing"},
                               verifier : Challenges \union {NoChallenge}]
  /\ clearing \in BOOLEAN /\ web \in BOOLEAN
  /\ lapses \subseteq Lapses

(* Never authorized, or with a token whose grant was stored. *)
OAuthInit ==
  /\ \/ scope = {} /\ token = NoToken
     \/ /\ scope \in {granted \in SUBSET Scopes : Configured \subseteq granted}
        /\ token \in [grants : {scope}, says : BOOLEAN]
  /\ codeVerifier = NoChallenge /\ pendingScope = {} /\ authChallengeMutex = <<>>
  /\ recovery = [c \in Challenges |-> NoRecovery]
  /\ flow = NoFlow /\ clearing = FALSE
  /\ web \in BOOLEAN
  /\ lapses = {}

-----------------------------------------------------------------------------
(* What is stored, and what it is taken to mean. *)

TokenScope == IF token.says THEN token.grants ELSE {}

(* Mutation: what was stored counts beside what the token says. *)
EffectiveScopeUnion == scope \union TokenScope

(* resolveEffectiveGrantedScope *)
EffectiveScope == IF token.says THEN token.grants ELSE scope

(* enrichChallengeWithAuthorizationScopes: what was granted so far and what *)
(* the challenge requires (SEP-2350).                                       *)
AuthorizationScopes(needs) == scope \union TokenScope \union needs

(* checkAuthChallengeSatisfied, for a challenge of insufficient scope. *)
Satisfied(needs) == token # NoToken /\ AuthorizationScopes(needs) \subseteq EffectiveScope

(* resolvePersistedScopeAfterGrant *)
PersistedScope(requested) == IF token.says THEN token.grants ELSE requested

(* createOAuthProvider stores the configured scope if none is. *)
SeededScope == IF scope = {} THEN Configured ELSE scope

(* An authorization server may leave out the scope of a token that grants   *)
(* what was asked for (RFC 6749, 5.1).                                      *)
Grants(asked) ==
  [grants : {asked}, says : {FALSE}] \union [grants : (SUBSET asked) \ {{}}, says : {TRUE}]

-----------------------------------------------------------------------------
(* handleAuthChallenge. *)

Goto(c, at) == recovery' = [recovery EXCEPT ![c].at = at]

(* The handler returns or throws, and releases the mutex if it had it. *)
Leave(c, at) ==
  /\ Goto(c, at)
  /\ authChallengeMutex' = IF authChallengeMutex # <<>> /\ Head(authChallengeMutex) = c
                           THEN Tail(authChallengeMutex) ELSE authChallengeMutex

(* A challenge comes, however long after the request it answers.  One of    *)
(* insufficient scope is looked at before the mutex.                        *)
Challenged(c, reason, needs) ==
  /\ recovery[c].at = "none"
  /\ LET at == IF reason = "insufficient_scope" /\ Satisfied(needs) THEN "satisfied" ELSE "waiting"
     IN /\ recovery' = [recovery EXCEPT ![c] = [NoRecovery EXCEPT !.reason = reason, !.at = at,
                                                                  !.needs = needs]]
        /\ authChallengeMutex' = IF at = "waiting" THEN Append(authChallengeMutex, c)
                                 ELSE authChallengeMutex
  /\ UNCHANGED <<scope, token, codeVerifier, pendingScope, flow, clearing, web>>

(* Mutation: a handler does not await the one before it. *)
EnterAtOnce(c) ==
  /\ recovery[c].at = "waiting"
  /\ IF recovery[c].reason = "insufficient_scope" /\ Satisfied(recovery[c].needs)
     THEN Leave(c, "satisfied")
     ELSE Goto(c, "preparing") /\ UNCHANGED authChallengeMutex
  /\ UNCHANGED <<scope, token, codeVerifier, pendingScope, flow, clearing, web>>

(* The mutex is had, and the challenge looked at again. *)
Enter(c) ==
  /\ recovery[c].at = "waiting"
  /\ authChallengeMutex # <<>> /\ Head(authChallengeMutex) = c
  /\ IF recovery[c].reason = "insufficient_scope" /\ Satisfied(recovery[c].needs)
     THEN Leave(c, "satisfied")
     ELSE Goto(c, "preparing") /\ UNCHANGED authChallengeMutex
  /\ UNCHANGED <<scope, token, codeVerifier, pendingScope, flow, clearing, web>>

(* handleStandardAuthChallenge up to the SDK's auth(): the provider, what   *)
(* of the required is lacking (all, if nothing is), the scope to ask for,   *)
(* and the grant auth() may refresh: none (forceReauthorization), if a      *)
(* step-up asks beyond what the token says.                                 *)
Prepare(c) ==
  /\ recovery[c].at = "preparing"
  /\ scope' = SeededScope
  /\ LET granted == SeededScope \union TokenScope
         needs == recovery[c].needs
         asks == IF recovery[c].reason = "insufficient_scope" THEN granted \union needs ELSE Configured
     IN recovery' = [recovery EXCEPT
          ![c].at = "authorizing", ![c].asks = asks,
          ![c].lacks = IF needs \subseteq granted THEN needs ELSE needs \ granted,
          ![c].old = IF recovery[c].reason = "insufficient_scope" /\ ~(asks \subseteq TokenScope)
                     THEN {} ELSE token.grants]
  /\ UNCHANGED <<token, codeVerifier, pendingScope, authChallengeMutex, flow, clearing, web>>

(* authenticate(), upon a connect() that was refused: not under the mutex. *)
Authenticate(c) ==
  /\ recovery[c].at = "none"
  /\ scope' = SeededScope
  /\ recovery' = [recovery EXCEPT ![c] = [NoRecovery EXCEPT !.reason = "connect",
       !.at = "authorizing", !.asks = SeededScope, !.old = token.grants]]
  /\ UNCHANGED <<token, codeVerifier, pendingScope, authChallengeMutex, flow, clearing, web>>

(* auth() made an authorization URL, whose code verifier is stored.  If it  *)
(* tried to refresh before, and was refused, the tokens are dropped.        *)
AuthRedirects(c) ==
  /\ recovery[c].at = "authorizing"
  /\ codeVerifier' = c
  /\ token' \in {token} \union (IF recovery[c].old = {} THEN {} ELSE {NoToken})
  /\ Goto(c, "redirecting")
  /\ UNCHANGED <<scope, pendingScope, authChallengeMutex, flow, clearing, web>>

(* auth() refreshed the token it found: AUTHORIZED; authenticate() throws.  *)
AuthRefreshes(c) ==
  /\ recovery[c].at = "authorizing" /\ recovery[c].old # {}
  /\ token' \in [grants : {recovery[c].old}, says : BOOLEAN]
  /\ IF recovery[c].reason = "insufficient_scope"
     THEN Goto(c, "confirming") /\ UNCHANGED authChallengeMutex
     ELSE Leave(c, IF recovery[c].reason = "token_expired" THEN "satisfied" ELSE "failed")
  /\ UNCHANGED <<scope, codeVerifier, pendingScope, flow, clearing, web>>

(* auth() throws, or a step of the discovery before it. *)
AuthThrows(c) ==
  /\ recovery[c].at \in {"authorizing", "forcing"}
  /\ Leave(c, "failed")
  /\ UNCHANGED <<scope, token, codeVerifier, pendingScope, flow, clearing, web>>

(* A refreshed step-up is looked at once more. *)
Confirm(c) ==
  /\ recovery[c].at = "confirming"
  /\ IF Satisfied(recovery[c].lacks)
     THEN scope' = PersistedScope(recovery[c].asks) /\ Leave(c, "satisfied")
     ELSE Goto(c, "forcing") /\ UNCHANGED <<scope, authChallengeMutex>>
  /\ UNCHANGED <<token, codeVerifier, pendingScope, flow, clearing, web>>

(* tryForceReauthorizationForStepUp: a redirect is answered as a failure. *)
ForceRedirects(c) ==
  /\ recovery[c].at = "forcing"
  /\ codeVerifier' = c
  /\ Leave(c, "failed")
  /\ UNCHANGED <<scope, token, pendingScope, flow, clearing, web>>

(* The handler answers that the user must authorize. *)
Interactive(c) ==
  /\ recovery[c].at = "redirecting"
  /\ pendingScope' = IF recovery[c].reason = "insufficient_scope" THEN recovery[c].asks
                     ELSE pendingScope
  /\ Leave(c, "interactive")
  /\ UNCHANGED <<scope, token, codeVerifier, flow, clearing, web>>

-----------------------------------------------------------------------------
(* The user's authorization. *)

(* beginInteractiveAuthorization.  A page unloads, and with it all that is  *)
(* not stored.                                                              *)
Begin(c) ==
  /\ recovery[c].at = "interactive" /\ flow = NoFlow
  /\ flow' = [of |-> c, at |-> "away", verifier |-> NoChallenge]
  /\ IF web
     THEN /\ recovery' = [d \in Challenges |->
               IF d = c THEN [recovery[c] EXCEPT !.at = "begun"]
               ELSE IF recovery[d].at \in {"none"} \union Answered THEN recovery[d]
               ELSE [recovery[d] EXCEPT !.at = "gone"]]
          /\ pendingScope' = {} /\ authChallengeMutex' = <<>> /\ clearing' = FALSE
     ELSE Goto(c, "begun") /\ UNCHANGED <<pendingScope, authChallengeMutex, clearing>>
  /\ UNCHANGED <<scope, token, codeVerifier, web>>

(* The user declines the prompt, or the navigation is stopped. *)
Decline(c) ==
  /\ recovery[c].at = "interactive"
  /\ Goto(c, "declined")
  /\ UNCHANGED <<scope, token, codeVerifier, pendingScope, authChallengeMutex, flow, clearing, web>>

(* The user comes back without a code, or not at all. *)
GivenUp ==
  /\ flow.at = "away"
  /\ flow' = NoFlow
  /\ UNCHANGED <<scope, token, codeVerifier, pendingScope, authChallengeMutex, recovery, clearing, web>>

(* completeOAuthFlow, up to the token request, which takes the verifier. *)
CodeArrives ==
  /\ flow.at = "away"
  /\ scope' = SeededScope
  /\ flow' = [flow EXCEPT !.at = "exchanging", !.verifier = codeVerifier]
  /\ UNCHANGED <<token, codeVerifier, pendingScope, authChallengeMutex, recovery, clearing, web>>

ExchangeSucceeds ==
  /\ flow.at = "exchanging" /\ flow.verifier = flow.of
  /\ token' \in Grants(recovery[flow.of].asks)
  /\ flow' = [flow EXCEPT !.at = "saving"]
  /\ UNCHANGED <<scope, codeVerifier, pendingScope, authChallengeMutex, recovery, clearing, web>>

(* The code is not redeemed, for one because the verifier is not its own:   *)
(* the SDK may drop the tokens upon that.                                   *)
ExchangeFails ==
  /\ flow.at = "exchanging"
  /\ token' \in {token, NoToken}
  /\ pendingScope' = {} /\ flow' = NoFlow
  /\ UNCHANGED <<scope, codeVerifier, authChallengeMutex, recovery, clearing, web>>

(* What was granted is stored; without tokens by now, the flow fails. *)
StoreGrant ==
  /\ flow.at = "saving"
  /\ IF token = NoToken
     THEN /\ pendingScope' = {} /\ flow' = NoFlow
          /\ UNCHANGED scope
     ELSE /\ scope' = IF PersistedScope(pendingScope) # {} THEN PersistedScope(pendingScope) ELSE scope
          /\ flow' = [flow EXCEPT !.at = "clearing"]
          /\ UNCHANGED pendingScope
  /\ UNCHANGED <<token, codeVerifier, authChallengeMutex, recovery, clearing, web>>

Complete ==
  /\ flow.at = "clearing"
  /\ pendingScope' = {} /\ flow' = NoFlow
  /\ UNCHANGED <<scope, token, codeVerifier, authChallengeMutex, recovery, clearing, web>>

(* clearOAuthTokens(), before and after the storage is written. *)
ClearOAuthTokens ==
  /\ ~clearing /\ <<scope, token, codeVerifier, pendingScope>> # <<{}, NoToken, NoChallenge, {}>>
  /\ scope' = {} /\ token' = NoToken /\ codeVerifier' = NoChallenge /\ clearing' = TRUE
  /\ UNCHANGED <<pendingScope, authChallengeMutex, recovery, flow, web>>

OAuthTokensCleared ==
  /\ clearing
  /\ pendingScope' = {} /\ clearing' = FALSE
  /\ UNCHANGED <<scope, token, codeVerifier, authChallengeMutex, recovery, flow, web>>

-----------------------------------------------------------------------------
(* Four ways are known in which the stored scope comes to say more than the *)
(* token grants.  A completion is under no mutex: a recovery beside it may  *)
(* change the pending scope or put back the old token.                      *)
Overlapping == flow.at \in {"exchanging", "saving", "clearing"}
               /\ \E c \in Challenges : recovery[c].at \in Recovering \ {"preparing"}

(* A login that is answered without a scope leaves what an earlier step-up  *)
(* was granted.                                                             *)
SilentRelogin ==
  /\ flow.at = "saving" /\ ~token.says
  /\ recovery[flow.of].reason # "insufficient_scope"
  /\ pendingScope # {} \/ ~(scope \subseteq recovery[flow.of].asks)

(* The tokens are cleared while auth() runs: it stores a token for which    *)
(* there is no scope, and the configured one is taken for it.               *)
ClearedMidway ==
  /\ scope = {}
  /\ flow.at = "exchanging" \/ \E c \in Challenges : recovery[c].at = "authorizing"

(* While the user is asked for a step-up, a refreshed token is found to     *)
(* satisfy another: more is stored than the first one asks for.             *)
ConfirmedBeside ==
  /\ codeVerifier # NoChallenge
  /\ recovery[codeVerifier].reason = "insufficient_scope"
  /\ recovery[codeVerifier].at \in {"interactive", "begun"}
  /\ \E c \in Challenges : recovery[c].at = "confirming"

NoteLapses ==
  lapses' = lapses \union (IF Overlapping' THEN {"overlap"} ELSE {})
                   \union (IF SilentRelogin' THEN {"relogin"} ELSE {})
                   \union (IF ClearedMidway' THEN {"cleared"} ELSE {})
                   \union (IF ConfirmedBeside' THEN {"confirmed"} ELSE {})

OAuthNext ==
  /\ \/ \E c \in Challenges :
          \/ \E reason \in {"insufficient_scope", "token_expired"}, needs \in SUBSET Scopes :
               (reason = "insufficient_scope" <=> needs # {}) /\ Challenged(c, reason, needs)
          \/ Enter(c) \/ Prepare(c) \/ Authenticate(c)
          \/ AuthRedirects(c) \/ AuthRefreshes(c) \/ AuthThrows(c)
          \/ Confirm(c) \/ ForceRedirects(c) \/ Interactive(c)
          \/ Begin(c) \/ Decline(c)
     \/ GivenUp \/ CodeArrives \/ ExchangeSucceeds \/ ExchangeFails
     \/ StoreGrant \/ Complete \/ ClearOAuthTokens \/ OAuthTokensCleared
  /\ NoteLapses

OAuthSpec == OAuthInit /\ [][OAuthNext]_oauthVars

-----------------------------------------------------------------------------
(* Properties. *)

(* "Recovery is serialized per server so parallel challenges cannot race on *)
(* pendingAuthorizationScope": the pending scope, if there is one, is what  *)
(* the authorization whose code can be redeemed asked for.                  *)
PendingIsRedeemable ==
  codeVerifier # NoChallenge =>
    LET r == recovery[codeVerifier]
    IN r.reason = "insufficient_scope" /\ r.at \in {"interactive", "begun"} /\ pendingScope # {}
         => pendingScope = r.asks

(* A step-up that is answered "satisfied" is: the token grants what the     *)
(* server required, unless one of the known lapses came first.              *)
SatisfiedIsGranted ==
  [][\A c \in Challenges :
       recovery[c].reason' = "insufficient_scope" /\ recovery[c].at' = "satisfied"
         /\ recovery[c].at # "satisfied" /\ lapses' = {}
       => recovery[c].needs' \subseteq token'.grants]_oauthVars

(* The same without the excuse. *)
SatisfiedIsAlwaysGranted ==
  [][\A c \in Challenges :
       recovery[c].reason' = "insufficient_scope" /\ recovery[c].at' = "satisfied"
         /\ recovery[c].at # "satisfied"
       => recovery[c].needs' \subseteq token'.grants]_oauthVars

(* "When scope is omitted on success, granted equals what was requested":   *)
(* a completed step-up stores what it asked for.  A page has forgotten it.  *)
StepUpIsStored ==
  [][flow.at = "saving" /\ flow.at' = "clearing" /\ ~token.says
       /\ recovery[flow.of].reason = "insufficient_scope"
     => scope' = recovery[flow.of].asks]_oauthVars

(* The prompt a user accepts is one whose code can be redeemed. *)
PromptIsRedeemable ==
  [][\A c \in Challenges :
       recovery[c].at = "interactive" /\ recovery[c].at' = "begun" => codeVerifier = c]_oauthVars

(* Why the pending scope is that of the verifier: the mutex is held by one  *)
(* recovery, and while it is about to set the scope no other that would set *)
(* it has stored a verifier.                                                *)
RecoveryIsSerial ==
  /\ \A c \in Challenges :
       /\ recovery[c].at = "none" => codeVerifier # c
       /\ recovery[c].at \in Recovering /\ recovery[c].reason # "connect"
            => authChallengeMutex # <<>> /\ Head(authChallengeMutex) = c
       /\ recovery[c].at = "redirecting" /\ recovery[c].reason # "connect"
            => \/ codeVerifier \in {c, NoChallenge}
               \/ recovery[codeVerifier].reason = "connect"
=============================================================================
