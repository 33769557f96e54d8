----------------------------- MODULE OAuthProofs -----------------------------
(* Theorems of OAuthManager and of OAuthStorage, for any scopes, challenges, *)
(* calls and reloads.  The scope that is pending is that of the              *)
(* authorization whose code can be redeemed: RecoveryIsSerial is why.  A     *)
(* satisfied step-up is granted: GrantsInv is why.  What a call was told is  *)
(* saved stays on the disk: SnapshotsGrow is why.                            *)
EXTENDS OAuthManager, OAuthStorage, TLAPS, SequenceTheorems

Recovery == [reason : Reasons \union {"none"},
             at : {"none", "waiting"} \union Recovering \union Answered,
             needs : SUBSET Scopes, lacks : SUBSET Scopes,
             asks : SUBSET Scopes, old : SUBSET Scopes]

Flow == [of : Challenges, at : {"away", "exchanging", "saving", "clearing"},
         verifier : Challenges \union {NoChallenge}]

OAuthIInv == OAuthTypeOK /\ RecoveryIsSerial /\ PendingIsRedeemable

LEMMA OAuthStarts == OAuthInit => OAuthIInv
<1> SUFFICES ASSUME OAuthInit PROVE OAuthIInv
  OBVIOUS
<1>1. NoRecovery \in Recovery /\ NoRecovery.at = "none"
  BY DEF NoRecovery, Recovery
<1>2. OAuthTypeOK
  <2>1. recovery \in [Challenges -> Recovery]
    BY <1>1 DEF OAuthInit
  <2>2. scope \subseteq Scopes /\ token \in [grants : SUBSET Scopes, says : BOOLEAN]
    <3>1. CASE scope = {} /\ token = NoToken
      BY <3>1 DEF NoToken
    <3>2. CASE scope \subseteq Scopes /\ token \in [grants : {scope}, says : BOOLEAN]
      BY <3>2
    <3> QED BY <3>1, <3>2 DEF OAuthInit
  <2>3. flow = NoFlow
    BY DEF OAuthInit
  <2>4. /\ codeVerifier \in Challenges \union {NoChallenge} /\ pendingScope \subseteq Scopes
        /\ authChallengeMutex \in Seq(Challenges) /\ lapses \subseteq Lapses
    BY DEF OAuthInit
  <2>5. clearing \in BOOLEAN /\ web \in BOOLEAN
    BY Zenon DEF OAuthInit
  <2> QED BY <2>1, <2>2, <2>3, <2>4, <2>5 DEF OAuthTypeOK, Recovery
<1>3. RecoveryIsSerial
  BY <1>1, OAuthManagerAssumption DEF OAuthInit, RecoveryIsSerial, Recovering
<1>4. PendingIsRedeemable
  BY DEF OAuthInit, PendingIsRedeemable
<1> QED BY <1>2, <1>3, <1>4 DEF OAuthIInv

-----------------------------------------------------------------------------
(* The mutex as a sequence. *)
LEMMA MutexTail ==
  ASSUME authChallengeMutex \in Seq(Challenges), authChallengeMutex # <<>>
  PROVE  Tail(authChallengeMutex) \in Seq(Challenges) /\ Head(authChallengeMutex) \in Challenges
BY HeadTailProperties

LEMMA MutexAppend ==
  ASSUME authChallengeMutex \in Seq(Challenges), NEW c \in Challenges
  PROVE  /\ Append(authChallengeMutex, c) \in Seq(Challenges)
         /\ Append(authChallengeMutex, c) # <<>>
         /\ authChallengeMutex # <<>> => Head(Append(authChallengeMutex, c)) = Head(authChallengeMutex)
<1>1. /\ Append(authChallengeMutex, c) \in Seq(Challenges)
      /\ Len(Append(authChallengeMutex, c)) = Len(authChallengeMutex) + 1
      /\ \A i \in 1..Len(authChallengeMutex) : Append(authChallengeMutex, c)[i] = authChallengeMutex[i]
  BY AppendProperties
<1>2. Len(authChallengeMutex) \in Nat /\ Append(authChallengeMutex, c) # <<>>
  BY <1>1
<1>3. authChallengeMutex # <<>> => Len(authChallengeMutex) >= 1
  BY <1>2
<1>4. authChallengeMutex # <<>> => Append(authChallengeMutex, c)[1] = authChallengeMutex[1]
  BY <1>1, <1>2, <1>3
<1> QED BY <1>1, <1>2, <1>4

(* A handler that leaves goes to where it goes, and no other is touched. *)
LEMMA LeaveIs ==
  ASSUME OAuthTypeOK, NEW c \in Challenges, NEW at \in Answered, Leave(c, at)
  PROVE  /\ recovery' \in [Challenges -> Recovery]
         /\ recovery'[c] = [recovery[c] EXCEPT !.at = at]
         /\ \A d \in Challenges \ {c} : recovery'[d] = recovery[d]
         /\ authChallengeMutex' \in Seq(Challenges)
         /\ authChallengeMutex' # authChallengeMutex =>
              authChallengeMutex # <<>> /\ Head(authChallengeMutex) = c
<1>1. recovery \in [Challenges -> Recovery] /\ authChallengeMutex \in Seq(Challenges)
  BY DEF OAuthTypeOK, Recovery
<1>2. [recovery[c] EXCEPT !.at = at] \in Recovery
  BY <1>1 DEF Recovery
<1> QED BY <1>1, <1>2, MutexTail DEF Leave, Goto

(* The same of a handler that goes on. *)
LEMMA GotoIs ==
  ASSUME OAuthTypeOK, NEW c \in Challenges, NEW at \in {"none", "waiting"} \union Recovering \union Answered,
         Goto(c, at)
  PROVE  /\ recovery' \in [Challenges -> Recovery]
         /\ recovery'[c] = [recovery[c] EXCEPT !.at = at]
         /\ \A d \in Challenges \ {c} : recovery'[d] = recovery[d]
<1>1. recovery \in [Challenges -> Recovery]
  BY DEF OAuthTypeOK, Recovery
<1>2. [recovery[c] EXCEPT !.at = at] \in Recovery
  BY <1>1 DEF Recovery
<1> QED BY <1>1, <1>2 DEF Goto

-----------------------------------------------------------------------------
(* What the actions do to the recoveries, in the terms of the invariant:     *)
(* only a challenge of the user's ever has a verifier, and only the holder   *)
(* of the mutex stores one for a recovery.                                   *)
MovesOne(c) ==
  /\ recovery' \in [Challenges -> Recovery]
  /\ \A d \in Challenges \ {c} : recovery'[d] = recovery[d]
  /\ recovery'[c].at # "none"
  /\ recovery[c].at # "none" => recovery'[c].reason = recovery[c].reason

(* The invariant holds after a step of one handler that leaves the verifier  *)
(* alone, if it holds of that handler.                                       *)
LEMMA OneMoves ==
  ASSUME OAuthIInv, NEW c \in Challenges, MovesOne(c),
         codeVerifier' = codeVerifier,
         authChallengeMutex' # <<>> \/ authChallengeMutex = <<>> \/ Head(authChallengeMutex) = c,
         \A d \in Challenges \ {c} :
           authChallengeMutex # <<>> /\ Head(authChallengeMutex) = d
             => authChallengeMutex' # <<>> /\ Head(authChallengeMutex') = d,
         recovery'[c].at \in Recovering /\ recovery'[c].reason # "connect" =>
           /\ authChallengeMutex' # <<>> /\ Head(authChallengeMutex') = c
           /\ recovery'[c].at # "redirecting",
         \/ pendingScope' = {}
         \/ /\ pendingScope' = pendingScope
            /\ recovery'[c].at = "begun" => recovery[c].at = "interactive"
            /\ recovery'[c].at = "interactive" => recovery'[c].reason # "insufficient_scope"
            /\ recovery'[c].at \in {"interactive", "begun"} => recovery'[c].asks = recovery[c].asks
  PROVE  RecoveryIsSerial' /\ PendingIsRedeemable'
<1>1. codeVerifier = c => recovery[c].at # "none"
  BY DEF OAuthIInv, RecoveryIsSerial
<1>2. codeVerifier \in Challenges \union {NoChallenge} /\ NoChallenge \notin Challenges
  BY OAuthManagerAssumption DEF OAuthIInv, OAuthTypeOK
<1>3. RecoveryIsSerial'
  <2> SUFFICES ASSUME NEW d \in Challenges
               PROVE  /\ recovery'[d].at = "none" => codeVerifier' # d
                      /\ recovery'[d].at \in Recovering /\ recovery'[d].reason # "connect"
                           => authChallengeMutex' # <<>> /\ Head(authChallengeMutex') = d
                      /\ recovery'[d].at = "redirecting" /\ recovery'[d].reason # "connect"
                           => \/ codeVerifier' \in {d, NoChallenge}
                              \/ recovery'[codeVerifier'].reason = "connect"
    BY DEF RecoveryIsSerial
  <2>1. CASE d = c
    BY <2>1 DEF MovesOne, Recovering
  <2>2. CASE d # c
    <3>1. recovery'[d] = recovery[d]
      BY <2>2 DEF MovesOne
    <3>2. recovery[codeVerifier].reason = "connect" /\ codeVerifier \in Challenges
            => recovery'[codeVerifier].reason = "connect"
      BY <1>1 DEF MovesOne
    <3> QED BY <1>2, <2>2, <3>1, <3>2 DEF OAuthIInv, RecoveryIsSerial
  <2> QED BY <2>1, <2>2
<1>4. PendingIsRedeemable'
  BY <1>1, <1>2 DEF OAuthIInv, PendingIsRedeemable, MovesOne
<1> QED BY <1>3, <1>4

-----------------------------------------------------------------------------
(* What is stored keeps its type. *)
GrantStored ==
  /\ scope \in SUBSET Scopes /\ pendingScope \in SUBSET Scopes
  /\ token \in [grants : SUBSET Scopes, says : BOOLEAN]
  /\ codeVerifier \in Challenges \union {NoChallenge}
  /\ flow \in {NoFlow} \union Flow

LEMMA ScopesAre ==
  ASSUME OAuthTypeOK
  PROVE  /\ TokenScope \in SUBSET Scopes /\ SeededScope \in SUBSET Scopes
         /\ NoToken \in [grants : SUBSET Scopes, says : BOOLEAN]
         /\ GrantStored
         /\ \A c \in Challenges : /\ recovery[c].asks \in SUBSET Scopes
                                  /\ recovery[c].old \in SUBSET Scopes
                                  /\ recovery[c].needs \in SUBSET Scopes
<1>1. GrantStored
  BY DEF OAuthTypeOK, GrantStored, Flow
<1>2. \A c \in Challenges : recovery[c] \in Recovery
  BY DEF OAuthTypeOK, Recovery
<1>3. TokenScope \in SUBSET Scopes
  BY <1>1 DEF GrantStored, TokenScope
<1>4. SeededScope \in SUBSET Scopes
  BY <1>1, OAuthManagerAssumption DEF GrantStored, SeededScope
<1>5. NoToken \in [grants : SUBSET Scopes, says : BOOLEAN]
  BY DEF NoToken
<1> QED BY <1>1, <1>2, <1>3, <1>4, <1>5 DEF Recovery

LEMMA StoredKeeps ==
  ASSUME OAuthTypeOK, OAuthNext
  PROVE  GrantStored'
<1>1. GrantStored
  BY ScopesAre
<1>2. ASSUME NEW c \in Challenges, NEW reason, NEW needs, Challenged(c, reason, needs) PROVE GrantStored'
  BY <1>1, <1>2 DEF Challenged, GrantStored
<1>3. ASSUME NEW c \in Challenges, Enter(c) PROVE GrantStored'
  BY <1>1, <1>3 DEF Enter, GrantStored
<1>4. ASSUME NEW c \in Challenges, Prepare(c) PROVE GrantStored'
  BY <1>1, <1>4, ScopesAre DEF Prepare, GrantStored
<1>5. ASSUME NEW c \in Challenges, Authenticate(c) PROVE GrantStored'
  BY <1>1, <1>5, ScopesAre DEF Authenticate, GrantStored
<1>6. ASSUME NEW c \in Challenges, AuthRedirects(c) PROVE GrantStored'
  <2>1. token' \in {token, NoToken} /\ codeVerifier' = c /\ UNCHANGED <<scope, pendingScope, flow>>
    BY <1>6 DEF AuthRedirects
  <2> QED BY <1>1, <2>1, ScopesAre DEF GrantStored
<1>7. ASSUME NEW c \in Challenges, AuthRefreshes(c) PROVE GrantStored'
  <2>1. token' \in [grants : {recovery[c].old}, says : BOOLEAN]
        /\ UNCHANGED <<scope, codeVerifier, pendingScope, flow, clearing, web>>
    BY <1>7 DEF AuthRefreshes
  <2>2. recovery[c].old \in SUBSET Scopes
    BY ScopesAre
  <2>3. token' \in [grants : SUBSET Scopes, says : BOOLEAN]
    BY <2>1, <2>2
  <2> QED BY <1>1, <2>1, <2>3 DEF GrantStored
<1>8. ASSUME NEW c \in Challenges, AuthThrows(c) PROVE GrantStored'
  BY <1>1, <1>8 DEF AuthThrows, GrantStored
<1>9. ASSUME NEW c \in Challenges, Confirm(c) PROVE GrantStored'
  <2>1. scope' \in {scope, token.grants, recovery[c].asks}
        /\ UNCHANGED <<token, codeVerifier, pendingScope, flow, clearing, web>>
    BY <1>9 DEF Confirm, PersistedScope
  <2>2. scope' \in SUBSET Scopes
    BY <1>1, <2>1, ScopesAre DEF GrantStored
  <2> QED BY <1>1, <2>1, <2>2 DEF GrantStored
<1>10. ASSUME NEW c \in Challenges, ForceRedirects(c) PROVE GrantStored'
  BY <1>1, <1>10 DEF ForceRedirects, GrantStored
<1>11. ASSUME NEW c \in Challenges, Interactive(c) PROVE GrantStored'
  BY <1>1, <1>11, ScopesAre DEF Interactive, GrantStored
<1>12. ASSUME NEW c \in Challenges, Begin(c) PROVE GrantStored'
  BY <1>1, <1>12, OAuthManagerAssumption DEF Begin, GrantStored, NoFlow, Flow
<1>13. ASSUME NEW c \in Challenges, Decline(c) PROVE GrantStored'
  BY <1>1, <1>13 DEF Decline, GrantStored
<1>14. CASE GivenUp
  BY <1>1, <1>14 DEF GivenUp, GrantStored, NoFlow
<1>15. CASE CodeArrives
  <2>1. flow \in Flow /\ flow' = [flow EXCEPT !.at = "exchanging", !.verifier = codeVerifier]
        /\ codeVerifier \in Challenges \union {NoChallenge}
    BY <1>1, <1>15 DEF CodeArrives, GrantStored, NoFlow
  <2>2. flow' \in Flow
    BY <2>1 DEF Flow
  <2> QED BY <1>1, <1>15, <2>2, ScopesAre DEF CodeArrives, GrantStored
<1>16. CASE ExchangeSucceeds
  <2>1. flow.of \in Challenges
    BY <1>1, <1>16 DEF ExchangeSucceeds, GrantStored, NoFlow, Flow
  <2> DEFINE asked == recovery[flow.of].asks
  <2>2. asked \in SUBSET Scopes /\ token' \in Grants(asked)
        /\ UNCHANGED <<scope, codeVerifier, pendingScope>> /\ flow' = [flow EXCEPT !.at = "saving"]
    BY <1>16, <2>1, ScopesAre DEF ExchangeSucceeds
  <2> HIDE DEF asked
  <2>3. token' \in [grants : SUBSET Scopes, says : BOOLEAN]
    BY <2>2 DEF Grants
  <2>4. flow' \in Flow
    BY <1>1, <1>16, <2>2 DEF ExchangeSucceeds, GrantStored, NoFlow, Flow
  <2> QED BY <1>1, <2>2, <2>3, <2>4 DEF GrantStored
<1>17. CASE ExchangeFails
  BY <1>1, <1>17, ScopesAre DEF ExchangeFails, GrantStored, NoFlow
<1>18. CASE StoreGrant
  BY <1>1, <1>18 DEF StoreGrant, GrantStored, NoFlow, Flow, PersistedScope
<1>19. CASE Complete
  BY <1>1, <1>19 DEF Complete, GrantStored, NoFlow
<1>20. CASE ClearOAuthTokens
  BY <1>1, <1>20, ScopesAre DEF ClearOAuthTokens, GrantStored
<1>21. CASE OAuthTokensCleared
  BY <1>1, <1>21 DEF OAuthTokensCleared, GrantStored
<1> QED BY <1>2, <1>3, <1>4, <1>5, <1>6, <1>7, <1>8, <1>9, <1>10, <1>11, <1>12, <1>13,
           <1>14, <1>15, <1>16, <1>17, <1>18, <1>19, <1>20, <1>21 DEF OAuthNext

-----------------------------------------------------------------------------
(* The steps.  A recovery that comes, waits, goes on or leaves is one that   *)
(* moves; those that store a verifier or set the pending scope come after.   *)
Serial == RecoveryIsSerial /\ PendingIsRedeemable
Typed == recovery \in [Challenges -> Recovery] /\ authChallengeMutex \in Seq(Challenges)

LEMMA TypedIs ==
  ASSUME OAuthIInv
  PROVE  Typed /\ \A c \in Challenges : recovery[c] \in Recovery
BY DEF OAuthIInv, OAuthTypeOK, Typed, Recovery

LEMMA ChallengedKeeps ==
  ASSUME OAuthIInv, NEW c \in Challenges, NEW reason \in Reasons \ {"connect"},
         NEW needs \in SUBSET Scopes, Challenged(c, reason, needs)
  PROVE  Typed' /\ Serial'
<1> DEFINE at == IF reason = "insufficient_scope" /\ Satisfied(needs) THEN "satisfied" ELSE "waiting"
           r == [NoRecovery EXCEPT !.reason = reason, !.at = at, !.needs = needs]
<1>1. /\ recovery[c].at = "none" /\ recovery' = [recovery EXCEPT ![c] = r]
      /\ authChallengeMutex' = IF at = "waiting" THEN Append(authChallengeMutex, c)
                               ELSE authChallengeMutex
      /\ codeVerifier' = codeVerifier /\ pendingScope' = pendingScope
  BY DEF Challenged
<1>2. at \in {"satisfied", "waiting"}
  OBVIOUS
<1> HIDE DEF at
<1>3. r \in Recovery /\ r.at = at
  BY <1>2 DEF Recovery, NoRecovery, Answered
<1> HIDE DEF r
<1>4. recovery' \in [Challenges -> Recovery] /\ recovery'[c] = r
      /\ \A d \in Challenges \ {c} : recovery'[d] = recovery[d]
  BY <1>1, <1>3, TypedIs DEF Typed
<1>5. MovesOne(c)
  BY <1>1, <1>2, <1>3, <1>4 DEF MovesOne
<1>6. /\ authChallengeMutex' \in Seq(Challenges)
      /\ authChallengeMutex # <<>> =>
           authChallengeMutex' # <<>> /\ Head(authChallengeMutex') = Head(authChallengeMutex)
  BY <1>1, TypedIs, MutexAppend DEF Typed
<1>7. Serial'
  BY <1>1, <1>2, <1>3, <1>4, <1>5, <1>6, OneMoves DEF Recovering, Serial
<1> QED BY <1>4, <1>6, <1>7 DEF Typed

(* Of a handler that leaves the mutex, if it had it. *)
LEMMA LeaveKeeps ==
  ASSUME OAuthIInv, NEW c \in Challenges, NEW at \in Answered \ {"interactive", "begun"},
         Leave(c, at), recovery[c].at # "none",
         codeVerifier' = codeVerifier, pendingScope' = pendingScope
  PROVE  Typed' /\ Serial'
<1>1. /\ recovery' \in [Challenges -> Recovery]
      /\ recovery'[c] = [recovery[c] EXCEPT !.at = at]
      /\ \A d \in Challenges \ {c} : recovery'[d] = recovery[d]
      /\ authChallengeMutex' \in Seq(Challenges)
      /\ authChallengeMutex' # authChallengeMutex =>
           authChallengeMutex # <<>> /\ Head(authChallengeMutex) = c
  BY LeaveIs DEF OAuthIInv
<1>2. recovery'[c].at = at /\ recovery'[c].reason = recovery[c].reason
  BY <1>1, TypedIs DEF Recovery
<1>3. at # "none" /\ at \notin Recovering /\ at \notin {"interactive", "begun"}
  BY DEF Answered, Recovering
<1>4. MovesOne(c)
  BY <1>1, <1>2, <1>3 DEF MovesOne
<1>5. Serial'
  BY <1>1, <1>2, <1>3, <1>4, OneMoves DEF Serial
<1> QED BY <1>1, <1>5 DEF Typed

(* Of one that goes on, with the mutex if it is not of connect(). *)
LEMMA GotoKeeps ==
  ASSUME OAuthIInv, NEW c \in Challenges, NEW at \in {"preparing", "confirming", "forcing", "begun", "declined"},
         Goto(c, at), authChallengeMutex' = authChallengeMutex, recovery[c].at # "none",
         at \in Recovering /\ recovery[c].reason # "connect" =>
           authChallengeMutex # <<>> /\ Head(authChallengeMutex) = c,
         at = "begun" => recovery[c].at = "interactive",
         codeVerifier' = codeVerifier, pendingScope' = pendingScope
  PROVE  Typed' /\ Serial'
<1>1. /\ recovery' \in [Challenges -> Recovery]
      /\ recovery'[c] = [recovery[c] EXCEPT !.at = at]
      /\ \A d \in Challenges \ {c} : recovery'[d] = recovery[d]
  BY GotoIs DEF OAuthIInv, Recovering, Answered
<1>2. recovery'[c].at = at /\ recovery'[c].reason = recovery[c].reason
      /\ recovery'[c].asks = recovery[c].asks
  BY <1>1, TypedIs DEF Recovery
<1>3. MovesOne(c)
  BY <1>1, <1>2 DEF MovesOne
<1>4. Serial'
  BY <1>1, <1>2, <1>3, OneMoves DEF Serial
<1> QED BY <1>1, <1>4, TypedIs DEF Typed

(* Of what leaves the recoveries alone, and may forget. *)
LEMMA RestKeeps ==
  ASSUME OAuthIInv, UNCHANGED <<recovery, authChallengeMutex>>,
         codeVerifier' \in {codeVerifier, NoChallenge}, pendingScope' \in {pendingScope, {}}
  PROVE  Typed' /\ Serial'
<1>1. NoChallenge \notin Challenges
  BY OAuthManagerAssumption
<1>2. RecoveryIsSerial'
  BY <1>1 DEF OAuthIInv, RecoveryIsSerial
<1>3. PendingIsRedeemable'
  BY <1>1 DEF OAuthIInv, PendingIsRedeemable
<1> QED BY <1>2, <1>3, TypedIs DEF Typed, Serial

LEMMA EnterKeeps ==
  ASSUME OAuthIInv, NEW c \in Challenges, Enter(c)
  PROVE  Typed' /\ Serial'
<1>1. recovery[c].at = "waiting" /\ authChallengeMutex # <<>> /\ Head(authChallengeMutex) = c
      /\ codeVerifier' = codeVerifier /\ pendingScope' = pendingScope
  BY DEF Enter
<1>2. CASE Leave(c, "satisfied")
  BY <1>1, <1>2, LeaveKeeps DEF Answered
<1>3. CASE Goto(c, "preparing") /\ UNCHANGED authChallengeMutex
  BY <1>1, <1>3, GotoKeeps
<1> QED BY <1>2, <1>3 DEF Enter

(* What a handler asks for is settled before it can be pending. *)
LEMMA PrepareKeeps ==
  ASSUME OAuthIInv, NEW c \in Challenges, Prepare(c)
  PROVE  Typed' /\ Serial'
<1> DEFINE r == recovery'[c]
<1>1. /\ recovery[c].at = "preparing"
      /\ codeVerifier' = codeVerifier /\ pendingScope' = pendingScope
      /\ authChallengeMutex' = authChallengeMutex
  BY DEF Prepare
<1>2. recovery[c].reason # "connect" => authChallengeMutex # <<>> /\ Head(authChallengeMutex) = c
  BY <1>1 DEF OAuthIInv, RecoveryIsSerial, Recovering
<1>3. PICK lacks \in SUBSET Scopes, asks \in SUBSET Scopes, old \in SUBSET Scopes :
        recovery' = [recovery EXCEPT ![c].at = "authorizing", ![c].asks = asks,
                                     ![c].lacks = lacks, ![c].old = old]
  <2> DEFINE granted == SeededScope \union TokenScope
             needs == recovery[c].needs
             asks == IF recovery[c].reason = "insufficient_scope" THEN granted \union needs ELSE Configured
             lacks == IF needs \subseteq granted THEN needs ELSE needs \ granted
             old == IF recovery[c].reason = "insufficient_scope" /\ ~(asks \subseteq TokenScope)
                    THEN {} ELSE token.grants
  <2>1. recovery' = [recovery EXCEPT ![c].at = "authorizing", ![c].asks = asks,
                                     ![c].lacks = lacks, ![c].old = old]
    BY DEF Prepare
  <2>2. granted \in SUBSET Scopes /\ needs \in SUBSET Scopes /\ token.grants \in SUBSET Scopes
    BY ScopesAre DEF OAuthIInv, GrantStored
  <2>3. asks \in SUBSET Scopes /\ lacks \in SUBSET Scopes /\ old \in SUBSET Scopes
    BY <2>2, OAuthManagerAssumption
  <2> HIDE DEF asks, lacks, old
  <2> QED BY <2>1, <2>3
<1>4. recovery'[c] = [recovery[c] EXCEPT !.at = "authorizing", !.asks = asks,
                                         !.lacks = lacks, !.old = old]
      /\ \A d \in Challenges \ {c} : recovery'[d] = recovery[d]
  BY <1>3, TypedIs DEF Typed
<1>5. r \in Recovery /\ r.at = "authorizing" /\ r.reason = recovery[c].reason
  BY <1>4, TypedIs DEF Recovery, Recovering
<1>6. recovery' \in [Challenges -> Recovery]
  BY <1>3, <1>5, TypedIs DEF Typed
<1>7. MovesOne(c)
  BY <1>4, <1>5, <1>6 DEF MovesOne
<1>8. Serial'
  BY <1>1, <1>2, <1>5, <1>7, OneMoves DEF Serial
<1> QED BY <1>1, <1>6, <1>8, TypedIs DEF Typed

LEMMA AuthenticateKeeps ==
  ASSUME OAuthIInv, NEW c \in Challenges, Authenticate(c)
  PROVE  Typed' /\ Serial'
<1> DEFINE r == [NoRecovery EXCEPT !.reason = "connect", !.at = "authorizing",
                                   !.asks = SeededScope, !.old = token.grants]
<1>1. /\ recovery[c].at = "none" /\ recovery' = [recovery EXCEPT ![c] = r]
      /\ codeVerifier' = codeVerifier /\ pendingScope' = pendingScope
      /\ authChallengeMutex' = authChallengeMutex
  BY DEF Authenticate
<1>2. SeededScope \in SUBSET Scopes /\ token.grants \in SUBSET Scopes
  BY ScopesAre DEF OAuthIInv, GrantStored
<1>3. r \in Recovery /\ r.at = "authorizing" /\ r.reason = "connect"
  BY <1>2 DEF Recovery, NoRecovery, Recovering, Reasons
<1> HIDE DEF r
<1>4. recovery' \in [Challenges -> Recovery] /\ recovery'[c] = r
      /\ \A d \in Challenges \ {c} : recovery'[d] = recovery[d]
  BY <1>1, <1>3, TypedIs DEF Typed
<1>5. MovesOne(c)
  BY <1>1, <1>3, <1>4 DEF MovesOne
<1>6. Serial'
  BY <1>1, <1>3, <1>4, <1>5, OneMoves DEF Serial
<1> QED BY <1>1, <1>4, <1>6, TypedIs DEF Typed

-----------------------------------------------------------------------------
(* A verifier is stored for connect(), or by the holder of the mutex. *)
LEMMA RedirectKeeps ==
  ASSUME OAuthIInv, NEW c \in Challenges, AuthRedirects(c) \/ ForceRedirects(c)
  PROVE  Typed' /\ Serial'
<1>1. /\ codeVerifier' = c /\ pendingScope' = pendingScope
      /\ recovery[c].at \in {"authorizing", "forcing"}
  BY DEF AuthRedirects, ForceRedirects
<1>2. recovery[c].reason # "connect" => authChallengeMutex # <<>> /\ Head(authChallengeMutex) = c
  BY <1>1 DEF OAuthIInv, RecoveryIsSerial, Recovering
<1>3. PICK at \in {"redirecting", "failed"} :
        /\ recovery' \in [Challenges -> Recovery]
        /\ recovery'[c] = [recovery[c] EXCEPT !.at = at]
        /\ \A d \in Challenges \ {c} : recovery'[d] = recovery[d]
        /\ authChallengeMutex' \in Seq(Challenges)
        /\ authChallengeMutex' # authChallengeMutex =>
             at = "failed" /\ authChallengeMutex # <<>> /\ Head(authChallengeMutex) = c
  <2>1. CASE AuthRedirects(c)
    <3>1. Goto(c, "redirecting") /\ authChallengeMutex' = authChallengeMutex
      BY <2>1 DEF AuthRedirects
    <3> QED BY <3>1, GotoIs, TypedIs DEF OAuthIInv, Recovering, Typed
  <2>2. CASE ForceRedirects(c)
    <3>1. Leave(c, "failed")
      BY <2>2 DEF ForceRedirects
    <3> QED BY <3>1, LeaveIs DEF OAuthIInv, Answered
  <2> QED BY <2>1, <2>2
<1>4. recovery'[c].at = at /\ recovery'[c].reason = recovery[c].reason
  BY <1>3, TypedIs DEF Recovery
<1>5. RecoveryIsSerial'
  <2> SUFFICES ASSUME NEW d \in Challenges
               PROVE  /\ recovery'[d].at = "none" => codeVerifier' # d
                      /\ recovery'[d].at \in Recovering /\ recovery'[d].reason # "connect"
                           => authChallengeMutex' # <<>> /\ Head(authChallengeMutex') = d
                      /\ recovery'[d].at = "redirecting" /\ recovery'[d].reason # "connect"
                           => \/ codeVerifier' \in {d, NoChallenge}
                              \/ recovery'[codeVerifier'].reason = "connect"
    BY DEF RecoveryIsSerial
  <2>1. CASE d = c
    BY <2>1, <1>1, <1>2, <1>3, <1>4 DEF Recovering
  <2>2. CASE d # c
    <3>1. recovery'[d] = recovery[d]
      BY <2>2, <1>3
    <3>2. recovery[d].at \in Recovering /\ recovery[d].reason # "connect"
            => /\ authChallengeMutex # <<>> /\ Head(authChallengeMutex) = d
               /\ recovery[c].reason = "connect" /\ authChallengeMutex' = authChallengeMutex
      BY <2>2, <1>2, <1>3 DEF OAuthIInv, RecoveryIsSerial
    <3> QED BY <2>2, <3>1, <3>2, <1>1, <1>4 DEF Recovering
  <2> QED BY <2>1, <2>2
<1>6. PendingIsRedeemable'
  BY <1>1, <1>4 DEF PendingIsRedeemable
<1> QED BY <1>3, <1>5, <1>6 DEF Typed, Serial

(* The scope that comes to be pending is that of the verifier, if not of     *)
(* one that has none. *)
LEMMA InteractiveKeeps ==
  ASSUME OAuthIInv, NEW c \in Challenges, Interactive(c)
  PROVE  Typed' /\ Serial'
<1>1. /\ recovery[c].at = "redirecting" /\ codeVerifier' = codeVerifier
      /\ pendingScope' = IF recovery[c].reason = "insufficient_scope" THEN recovery[c].asks
                         ELSE pendingScope
      /\ Leave(c, "interactive")
  BY DEF Interactive
<1>2. /\ recovery' \in [Challenges -> Recovery]
      /\ recovery'[c] = [recovery[c] EXCEPT !.at = "interactive"]
      /\ \A d \in Challenges \ {c} : recovery'[d] = recovery[d]
      /\ authChallengeMutex' \in Seq(Challenges)
      /\ authChallengeMutex' # authChallengeMutex =>
           authChallengeMutex # <<>> /\ Head(authChallengeMutex) = c
  BY <1>1, LeaveIs DEF OAuthIInv, Answered
<1>3. recovery'[c].at = "interactive" /\ recovery'[c].reason = recovery[c].reason
      /\ recovery'[c].asks = recovery[c].asks
  BY <1>2, TypedIs DEF Recovery
<1>4. codeVerifier \in Challenges \union {NoChallenge} /\ NoChallenge \notin Challenges
  BY OAuthManagerAssumption DEF OAuthIInv, OAuthTypeOK
<1>5. RecoveryIsSerial'
  <2>1. \A d \in Challenges :
          recovery'[d].at \in Recovering =>
            d # c /\ recovery'[d] = recovery[d]
            /\ (recovery[d].reason # "connect" => authChallengeMutex' # <<>> /\ Head(authChallengeMutex') = d)
    BY <1>2, <1>3 DEF OAuthIInv, RecoveryIsSerial, Recovering
  <2>2. \A d \in Challenges : recovery'[d].reason = recovery[d].reason
    BY <1>2, <1>3
  <2>3. \A d \in Challenges : recovery'[d].at = "none" => codeVerifier' # d
    BY <1>1, <1>2, <1>3 DEF OAuthIInv, RecoveryIsSerial
  <2>4. \A d \in Challenges : recovery'[d].at = "redirecting" /\ recovery'[d].reason # "connect"
           => \/ codeVerifier' \in {d, NoChallenge}
              \/ recovery'[codeVerifier'].reason = "connect"
    <3> SUFFICES ASSUME NEW d \in Challenges,
                        recovery'[d].at = "redirecting", recovery[d].reason # "connect"
                 PROVE  \/ codeVerifier' \in {d, NoChallenge}
                        \/ recovery'[codeVerifier'].reason = "connect"
      BY <2>2
    <3>1. d # c /\ recovery[d].at = "redirecting"
      BY <2>1 DEF Recovering
    <3>2. \/ codeVerifier \in {d, NoChallenge}
          \/ recovery[codeVerifier].reason = "connect"
      BY <3>1 DEF OAuthIInv, RecoveryIsSerial
    <3> QED BY <1>1, <1>4, <2>2, <3>2
  <2> QED BY <2>1, <2>3, <2>4 DEF RecoveryIsSerial
<1>6. PendingIsRedeemable'
  <2>1. CASE recovery[c].reason = "insufficient_scope"
    <3>1. \/ codeVerifier \in {c, NoChallenge}
          \/ recovery[codeVerifier].reason = "connect"
      BY <1>1, <2>1 DEF OAuthIInv, RecoveryIsSerial
    <3>2. codeVerifier' = c => pendingScope' = recovery'[c].asks
      BY <1>1, <1>3, <2>1
    <3>3. codeVerifier' # c /\ codeVerifier' # NoChallenge =>
            recovery'[codeVerifier'].reason = "connect"
      BY <1>1, <1>2, <1>4, <3>1
    <3> QED BY <3>2, <3>3 DEF PendingIsRedeemable
  <2>2. CASE recovery[c].reason # "insufficient_scope"
    <3>1. codeVerifier' = codeVerifier /\ pendingScope' = pendingScope
      BY <1>1, <2>2
    <3>2. codeVerifier = c => recovery'[codeVerifier].reason # "insufficient_scope"
      BY <1>3, <2>2
    <3>3. codeVerifier \in Challenges \ {c} => recovery'[codeVerifier] = recovery[codeVerifier]
      BY <1>2
    <3>4. PendingIsRedeemable
      BY DEF OAuthIInv
    <3> QED BY <1>4, <3>1, <3>2, <3>3, <3>4 DEF PendingIsRedeemable
  <2> QED BY <2>1, <2>2
<1> QED BY <1>2, <1>5, <1>6 DEF Typed, Serial

(* A page that unloads keeps no recovery, and forgets the pending scope. *)
LEMMA BeginKeeps ==
  ASSUME OAuthIInv, NEW c \in Challenges, Begin(c)
  PROVE  Typed' /\ Serial'
<1>1. recovery[c].at = "interactive" /\ codeVerifier' = codeVerifier
  BY DEF Begin
<1>2. CASE web
  <2> DEFINE r(d) == IF d = c THEN [recovery[c] EXCEPT !.at = "begun"]
                     ELSE IF recovery[d].at \in {"none"} \union Answered THEN recovery[d]
                     ELSE [recovery[d] EXCEPT !.at = "gone"]
  <2>1. /\ recovery' = [d \in Challenges |-> r(d)]
        /\ pendingScope' = {} /\ authChallengeMutex' = <<>>
    BY <1>2 DEF Begin
  <2>2. \A d \in Challenges : /\ r(d) \in Recovery /\ r(d).at \notin Recovering
                              /\ r(d).at = "none" => recovery[d].at = "none"
    <3> SUFFICES ASSUME NEW d \in Challenges
                 PROVE  /\ r(d) \in Recovery /\ r(d).at \notin Recovering
                        /\ r(d).at = "none" => recovery[d].at = "none"
      OBVIOUS
    <3>1. recovery[d] \in Recovery /\ recovery[c] \in Recovery
      BY TypedIs
    <3>2. CASE d = c
      BY <3>1, <3>2 DEF Recovery, Answered, Recovering
    <3>3. CASE d # c /\ recovery[d].at \in {"none"} \union Answered
      BY <3>1, <3>3 DEF Answered, Recovering
    <3>4. CASE d # c /\ recovery[d].at \notin {"none"} \union Answered
      BY <3>1, <3>4 DEF Recovery, Answered, Recovering
    <3> QED BY <3>2, <3>3, <3>4
  <2> HIDE DEF r
  <2>3. Typed'
    BY <2>1, <2>2 DEF Typed
  <2>4. RecoveryIsSerial'
    BY <1>1, <2>1, <2>2 DEF OAuthIInv, RecoveryIsSerial, Recovering
  <2>5. PendingIsRedeemable'
    BY <2>1 DEF PendingIsRedeemable
  <2> QED BY <2>3, <2>4, <2>5 DEF Serial
<1>3. CASE ~web
  <2>1. Goto(c, "begun") /\ authChallengeMutex' = authChallengeMutex /\ pendingScope' = pendingScope
    BY <1>3 DEF Begin
  <2> QED BY <1>1, <2>1, GotoKeeps DEF Recovering
<1> QED BY <1>2, <1>3

(* auth() that refreshed or threw, and the look at a refreshed step-up. *)
LEMMA AuthKeeps ==
  ASSUME OAuthIInv, NEW c \in Challenges, AuthRefreshes(c) \/ AuthThrows(c) \/ Confirm(c)
  PROVE  Typed' /\ Serial'
<1>1. /\ recovery[c].at \in {"authorizing", "forcing", "confirming"}
      /\ codeVerifier' = codeVerifier /\ pendingScope' = pendingScope
  BY DEF AuthRefreshes, AuthThrows, Confirm
<1>2. recovery[c].reason # "connect" => authChallengeMutex # <<>> /\ Head(authChallengeMutex) = c
  BY <1>1 DEF OAuthIInv, RecoveryIsSerial, Recovering
<1>3. \/ Leave(c, "satisfied") \/ Leave(c, "failed")
      \/ (Goto(c, "confirming") \/ Goto(c, "forcing")) /\ authChallengeMutex' = authChallengeMutex
  <2>1. CASE AuthRefreshes(c)
    BY <2>1 DEF AuthRefreshes
  <2>2. CASE AuthThrows(c)
    BY <2>2 DEF AuthThrows
  <2>3. CASE Confirm(c)
    BY <2>3 DEF Confirm
  <2> QED BY <2>1, <2>2, <2>3
<1>4. CASE Leave(c, "satisfied") \/ Leave(c, "failed")
  BY <1>1, <1>4, LeaveKeeps DEF Answered
<1>5. CASE (Goto(c, "confirming") \/ Goto(c, "forcing")) /\ authChallengeMutex' = authChallengeMutex
  BY <1>1, <1>2, <1>5, GotoKeeps
<1> QED BY <1>3, <1>4, <1>5

-----------------------------------------------------------------------------
LEMMA ActionsKeep ==
  ASSUME OAuthIInv, OAuthNext
  PROVE  Typed' /\ Serial'
<1>1. ASSUME NEW c \in Challenges, NEW reason \in {"insufficient_scope", "token_expired"},
             NEW needs \in SUBSET Scopes, Challenged(c, reason, needs)
      PROVE  Typed' /\ Serial'
  BY <1>1, ChallengedKeeps DEF Reasons
<1>2. ASSUME NEW c \in Challenges, Enter(c) PROVE Typed' /\ Serial'
  BY <1>2, EnterKeeps
<1>3. ASSUME NEW c \in Challenges, Prepare(c) PROVE Typed' /\ Serial'
  BY <1>3, PrepareKeeps
<1>4. ASSUME NEW c \in Challenges, Authenticate(c) PROVE Typed' /\ Serial'
  BY <1>4, AuthenticateKeeps
<1>5. ASSUME NEW c \in Challenges, AuthRedirects(c) \/ ForceRedirects(c) PROVE Typed' /\ Serial'
  BY <1>5, RedirectKeeps
<1>6. ASSUME NEW c \in Challenges, AuthRefreshes(c) \/ AuthThrows(c) \/ Confirm(c) PROVE Typed' /\ Serial'
  BY <1>6, AuthKeeps
<1>7. ASSUME NEW c \in Challenges, Interactive(c) PROVE Typed' /\ Serial'
  BY <1>7, InteractiveKeeps
<1>8. ASSUME NEW c \in Challenges, Begin(c) PROVE Typed' /\ Serial'
  BY <1>8, BeginKeeps
<1>9. ASSUME NEW c \in Challenges, Decline(c) PROVE Typed' /\ Serial'
  <2>1. /\ recovery[c].at = "interactive" /\ Goto(c, "declined")
        /\ authChallengeMutex' = authChallengeMutex
        /\ codeVerifier' = codeVerifier /\ pendingScope' = pendingScope
    BY <1>9 DEF Decline
  <2> QED BY <2>1, GotoKeeps DEF Recovering
<1>10. ASSUME GivenUp \/ CodeArrives \/ ExchangeSucceeds \/ ExchangeFails
              \/ StoreGrant \/ Complete \/ ClearOAuthTokens \/ OAuthTokensCleared
       PROVE  Typed' /\ Serial'
  <2>1. UNCHANGED <<recovery, authChallengeMutex>>
    BY <1>10 DEF GivenUp, CodeArrives, ExchangeSucceeds, ExchangeFails, StoreGrant, Complete,
                 ClearOAuthTokens, OAuthTokensCleared
  <2>2. codeVerifier' \in {codeVerifier, NoChallenge} /\ pendingScope' \in {pendingScope, {}}
    BY <1>10 DEF GivenUp, CodeArrives, ExchangeSucceeds, ExchangeFails, StoreGrant, Complete,
                 ClearOAuthTokens, OAuthTokensCleared
  <2> QED BY <2>1, <2>2, RestKeeps
<1> QED BY <1>1, <1>2, <1>3, <1>4, <1>5, <1>6, <1>7, <1>8, <1>9, <1>10 DEF OAuthNext

LEMMA FlagsKeep ==
  ASSUME OAuthTypeOK, OAuthNext
  PROVE  clearing' \in BOOLEAN /\ web' \in BOOLEAN /\ lapses' \subseteq Lapses
<1>1. clearing \in BOOLEAN /\ web \in BOOLEAN
  BY DEF OAuthTypeOK
<1>2. \/ clearing' = clearing \/ clearing' = TRUE \/ clearing' = FALSE
  BY DEF OAuthNext, Challenged, Enter, Prepare, Authenticate, AuthRedirects, AuthRefreshes, AuthThrows,
         Confirm, ForceRedirects, Interactive, Begin, Decline, GivenUp, CodeArrives, ExchangeSucceeds,
         ExchangeFails, StoreGrant, Complete, ClearOAuthTokens, OAuthTokensCleared
<1>3. web' = web
  BY DEF OAuthNext, Challenged, Enter, Prepare, Authenticate, AuthRedirects, AuthRefreshes, AuthThrows,
         Confirm, ForceRedirects, Interactive, Begin, Decline, GivenUp, CodeArrives, ExchangeSucceeds,
         ExchangeFails, StoreGrant, Complete, ClearOAuthTokens, OAuthTokensCleared
<1>4. lapses' \subseteq Lapses
  <2>1. lapses \subseteq Lapses /\ NoteLapses
    BY DEF OAuthTypeOK, OAuthNext
  <2> QED BY <2>1 DEF NoteLapses, Lapses
<1>5. clearing' \in BOOLEAN
  BY <1>1, <1>2
<1>6. web' \in BOOLEAN
  BY <1>1, <1>3
<1> QED BY <1>4, <1>5, <1>6

LEMMA OAuthSteps == OAuthIInv /\ [OAuthNext]_oauthVars => OAuthIInv'
<1>1. CASE OAuthIInv /\ OAuthNext
  <2>1. Typed' /\ Serial'
    BY <1>1, ActionsKeep
  <2>2. OAuthTypeOK
    BY <1>1 DEF OAuthIInv
  <2>3. GrantStored'
    BY <1>1, <2>2, StoredKeeps
  <2>4. clearing' \in BOOLEAN /\ web' \in BOOLEAN /\ lapses' \subseteq Lapses
    BY <1>1, <2>2, FlagsKeep
  <2>5. OAuthTypeOK'
    BY <2>1, <2>3, <2>4 DEF OAuthTypeOK, Typed, GrantStored, Flow, Recovery
  <2> QED BY <2>1, <2>5 DEF OAuthIInv, Serial
<1>2. CASE OAuthIInv /\ UNCHANGED oauthVars
  <2>1. UNCHANGED <<scope, token, codeVerifier, pendingScope, authChallengeMutex, recovery, flow,
                    clearing, web, lapses>>
    BY <1>2 DEF oauthVars
  <2>2. OAuthTypeOK'
    BY <1>2, <2>1 DEF OAuthIInv, OAuthTypeOK
  <2>3. RecoveryIsSerial' /\ PendingIsRedeemable'
    BY <1>2, <2>1 DEF OAuthIInv, RecoveryIsSerial, PendingIsRedeemable
  <2> QED BY <2>2, <2>3 DEF OAuthIInv
<1> QED BY <1>1, <1>2

(* Parallel challenges do not race on pendingAuthorizationScope: what a      *)
(* completed step-up will be taken to grant is what the authorization asked  *)
(* for whose code can be redeemed.                                           *)
THEOREM PendingMatchesVerifier == OAuthSpec => []PendingIsRedeemable
<1>1. OAuthIInv => PendingIsRedeemable
  BY DEF OAuthIInv
<1> QED BY <1>1, OAuthStarts, OAuthSteps, PTL DEF OAuthSpec

-----------------------------------------------------------------------------
(* Where it is stored. *)

Write == [by : Savers, snapshot : SUBSET Savers]

StorageIInv == StorageTypeOK /\ SnapshotsGrow /\ SavedIsDurable

LEMMA StorageStarts == StorageInit => StorageIInv
BY OAuthStorageAssumption
   DEF StorageInit, StorageIInv, StorageTypeOK, SnapshotsGrow, SavedIsDurable

(* A write at the end of the queue holds all that is before it. *)
LEMMA SaveKeeps ==
  ASSUME StorageIInv, NEW s \in Savers, Save(s)
  PROVE  StorageIInv'
<1> DEFINE w == [by |-> s, snapshot |-> memory']
<1>1. w \in Write /\ persistQueue \in Seq(Write) /\ persistQueue' = Append(persistQueue, w)
  BY DEF StorageIInv, StorageTypeOK, Save, Write
<1>2. /\ persistQueue' \in Seq(Write) /\ Len(persistQueue') = Len(persistQueue) + 1
      /\ \A i \in 1..Len(persistQueue) : persistQueue'[i] = persistQueue[i]
      /\ persistQueue'[Len(persistQueue) + 1] = w
  BY <1>1, AppendProperties
<1>3. StorageTypeOK'
  BY <1>2 DEF StorageIInv, StorageTypeOK, Save, Write
<1>4. /\ memory \subseteq memory' /\ s \in memory'
      /\ disk' = disk /\ disk \subseteq memory /\ loadPromise' = "resolved"
  BY DEF Save, StorageIInv, SnapshotsGrow
<1>5. DOMAIN persistQueue = 1..Len(persistQueue) /\ Len(persistQueue) \in Nat
      /\ DOMAIN persistQueue' = 1..(Len(persistQueue) + 1)
  BY <1>1, <1>2
<1>6. \A i \in DOMAIN persistQueue' :
        /\ persistQueue'[i].by \in persistQueue'[i].snapshot
        /\ disk' \subseteq persistQueue'[i].snapshot
        /\ persistQueue'[i].snapshot \subseteq memory'
  <2> SUFFICES ASSUME NEW i \in DOMAIN persistQueue'
               PROVE  /\ persistQueue'[i].by \in persistQueue'[i].snapshot
                      /\ disk' \subseteq persistQueue'[i].snapshot
                      /\ persistQueue'[i].snapshot \subseteq memory'
    OBVIOUS
  <2>1. CASE i \in DOMAIN persistQueue
    BY <2>1, <1>2, <1>4, <1>5 DEF StorageIInv, SnapshotsGrow
  <2>2. CASE i = Len(persistQueue) + 1
    BY <2>2, <1>2, <1>4
  <2> QED BY <2>1, <2>2, <1>5
<1>7. \A i, j \in DOMAIN persistQueue' :
        i < j => persistQueue'[i].snapshot \subseteq persistQueue'[j].snapshot
  <2> SUFFICES ASSUME NEW i \in DOMAIN persistQueue', NEW j \in DOMAIN persistQueue', i < j
               PROVE  persistQueue'[i].snapshot \subseteq persistQueue'[j].snapshot
    OBVIOUS
  <2>1. i \in DOMAIN persistQueue /\ persistQueue'[i] = persistQueue[i]
    BY <1>2, <1>5
  <2>2. CASE j \in DOMAIN persistQueue
    BY <2>1, <2>2, <1>2, <1>5 DEF StorageIInv, SnapshotsGrow
  <2>3. CASE j = Len(persistQueue) + 1
    <3>1. persistQueue[i].snapshot \subseteq memory
      BY <2>1 DEF StorageIInv, SnapshotsGrow
    <3> QED BY <3>1, <2>1, <2>3, <1>2, <1>4
  <2> QED BY <2>2, <2>3, <1>5
<1>8. SnapshotsGrow'
  BY <1>4, <1>6, <1>7 DEF SnapshotsGrow
<1>9. SavedIsDurable'
  BY DEF Save, StorageIInv, StorageTypeOK, SavedIsDurable
<1> QED BY <1>3, <1>8, <1>9 DEF StorageIInv

(* What is left of the queue when its first write is over. *)
LEMMA QueueTail ==
  ASSUME StorageIInv, persistQueue # <<>>
  PROVE  /\ 1 \in DOMAIN persistQueue /\ Head(persistQueue) = persistQueue[1]
         /\ Head(persistQueue) \in Write
         /\ Tail(persistQueue) \in Seq(Write)
         /\ \A i \in DOMAIN Tail(persistQueue) :
              /\ i \in Int /\ i >= 1
              /\ i + 1 \in DOMAIN persistQueue
              /\ Tail(persistQueue)[i] = persistQueue[i + 1]
<1>1. persistQueue \in Seq(Write)
  BY DEF StorageIInv, StorageTypeOK, Write
<1> HIDE DEF Write
<1>2. Len(persistQueue) \in Nat /\ Len(persistQueue) # 0
      /\ DOMAIN persistQueue = 1..Len(persistQueue)
  BY <1>1
<1>3. /\ Head(persistQueue) = persistQueue[1] /\ Head(persistQueue) \in Write
      /\ Tail(persistQueue) \in Seq(Write) /\ Len(Tail(persistQueue)) = Len(persistQueue) - 1
      /\ \A i \in 1..Len(Tail(persistQueue)) : Tail(persistQueue)[i] = persistQueue[i + 1]
  BY <1>1, HeadTailProperties
<1>4. DOMAIN Tail(persistQueue) = 1..(Len(persistQueue) - 1)
  BY <1>3
<1> QED BY <1>2, <1>3, <1>4

(* The first write goes, whether the disk takes it or not. *)
LEMMA WriteKeeps ==
  ASSUME StorageIInv, WriteSucceeds \/ WriteFails
  PROVE  StorageIInv'
<1> DEFINE first == Head(persistQueue)
<1>1. persistQueue # <<>> /\ persistQueue' = Tail(persistQueue)
      /\ UNCHANGED <<memory, loadPromise, reloads>> /\ disk' \in {disk, first.snapshot}
  BY DEF WriteSucceeds, WriteFails
<1>2. /\ 1 \in DOMAIN persistQueue /\ first = persistQueue[1] /\ first \in Write
      /\ persistQueue' \in Seq(Write)
      /\ \A i \in DOMAIN persistQueue' :
           /\ i \in Int /\ i >= 1
           /\ i + 1 \in DOMAIN persistQueue
           /\ persistQueue'[i] = persistQueue[i + 1]
  BY <1>1, QueueTail
<1> HIDE DEF first
<1>3. disk \subseteq first.snapshot /\ first.snapshot \subseteq memory /\ first.by \in first.snapshot
  BY <1>2 DEF StorageIInv, SnapshotsGrow
<1>4. disk \subseteq disk' /\ disk' \subseteq first.snapshot
  BY <1>1, <1>3
<1>5. StorageTypeOK'
  <2>1. saver' \in [Savers -> {"idle", "loading", "writing", "resolved", "rejected", "lost"}]
    BY DEF WriteSucceeds, WriteFails, StorageIInv, StorageTypeOK
  <2> QED BY <2>1, <1>1, <1>2 DEF StorageIInv, StorageTypeOK, Write
<1>6. SnapshotsGrow'
  <2>1. \A i \in DOMAIN persistQueue' : first.snapshot \subseteq persistQueue'[i].snapshot
    BY <1>2 DEF StorageIInv, SnapshotsGrow
  <2>2. \A i, j \in DOMAIN persistQueue' :
          i < j => persistQueue'[i].snapshot \subseteq persistQueue'[j].snapshot
    <3> SUFFICES ASSUME NEW i \in DOMAIN persistQueue', NEW j \in DOMAIN persistQueue', i < j
                 PROVE  persistQueue'[i].snapshot \subseteq persistQueue'[j].snapshot
      OBVIOUS
    <3>1. i + 1 < j + 1
      BY <1>2
    <3> QED BY <3>1, <1>2 DEF StorageIInv, SnapshotsGrow
  <2>3. loadPromise = "resolved"
    BY <1>1 DEF StorageIInv, SnapshotsGrow
  <2>4. \A i \in DOMAIN persistQueue' :
          /\ persistQueue'[i].by \in persistQueue'[i].snapshot
          /\ disk' \subseteq persistQueue'[i].snapshot
          /\ persistQueue'[i].snapshot \subseteq memory'
    BY <1>1, <1>2, <1>4, <2>1 DEF StorageIInv, SnapshotsGrow
  <2>5. disk' \subseteq memory' /\ loadPromise' = "resolved"
    BY <1>1, <1>3, <1>4, <2>3
  <2> QED BY <2>2, <2>4, <2>5 DEF SnapshotsGrow
<1>7. SavedIsDurable'
  <2>1. CASE WriteSucceeds
    <3> SUFFICES ASSUME NEW s \in Savers, saver'[s] = "resolved" PROVE s \in disk'
      BY DEF SavedIsDurable
    <3>1. disk' = first.snapshot /\ saver' = [saver EXCEPT ![first.by] = "resolved"]
      BY <2>1 DEF WriteSucceeds, first
    <3>2. CASE s = first.by
      BY <3>1, <3>2, <1>3
    <3>3. CASE s # first.by
      BY <3>1, <3>3, <1>4 DEF StorageIInv, StorageTypeOK, SavedIsDurable
    <3> QED BY <3>2, <3>3
  <2>2. CASE WriteFails
    BY <2>2 DEF WriteFails, StorageIInv, StorageTypeOK, SavedIsDurable
  <2> QED BY <2>1, <2>2
<1> QED BY <1>5, <1>6, <1>7 DEF StorageIInv

(* A new page holds nothing, and the disk no less than before. *)
LEMMA ReloadKeeps ==
  ASSUME StorageIInv, PageReloads
  PROVE  StorageIInv'
<1>1. disk \subseteq disk' /\ disk' \subseteq Savers
  <2>1. CASE persistQueue = <<>>
    BY <2>1 DEF PageReloads, StorageIInv, StorageTypeOK
  <2>2. CASE persistQueue # <<>>
    <3>1. disk \subseteq Head(persistQueue).snapshot /\ Head(persistQueue).snapshot \subseteq Savers
      BY <2>2, QueueTail DEF StorageIInv, SnapshotsGrow, Write
    <3> QED BY <3>1, <2>2 DEF PageReloads, StorageIInv, StorageTypeOK
  <2> QED BY <2>1, <2>2
<1>2. /\ memory' = {} /\ persistQueue' = <<>> /\ loadPromise' = "none"
      /\ saver' = [s \in Savers |-> IF saver[s] \in {"loading", "writing"} THEN "lost" ELSE saver[s]]
  BY DEF PageReloads
<1>3. reloads' \in 0..MaxReloads
  BY OAuthStorageAssumption DEF PageReloads, StorageIInv, StorageTypeOK
<1>4. StorageTypeOK'
  BY <1>1, <1>2, <1>3 DEF StorageIInv, StorageTypeOK
<1>5. SnapshotsGrow'
  BY <1>2 DEF SnapshotsGrow
<1>6. SavedIsDurable'
  BY <1>1, <1>2 DEF StorageIInv, SavedIsDurable
<1> QED BY <1>4, <1>5, <1>6 DEF StorageIInv

LEMMA StorageSteps == StorageIInv /\ [StorageNext]_credentialVars => StorageIInv'
<1> SUFFICES ASSUME StorageIInv, [StorageNext]_credentialVars PROVE StorageIInv'
  OBVIOUS
<1>1. ASSUME NEW s \in Savers, EnsureLoaded(s) PROVE StorageIInv'
  BY <1>1 DEF EnsureLoaded, StorageIInv, StorageTypeOK, SnapshotsGrow, SavedIsDurable
<1>2. ASSUME NEW s \in Savers, Save(s) PROVE StorageIInv'
  BY <1>2, SaveKeeps
<1>3. CASE LoadSucceeds
  BY <1>3 DEF LoadSucceeds, StorageIInv, StorageTypeOK, SnapshotsGrow, SavedIsDurable
<1>4. CASE LoadFails
  BY <1>4 DEF LoadFails, StorageIInv, StorageTypeOK, SnapshotsGrow, SavedIsDurable
<1>5. CASE WriteSucceeds \/ WriteFails
  BY <1>5, WriteKeeps
<1>6. CASE PageReloads
  BY <1>6, ReloadKeeps
<1>7. CASE UNCHANGED credentialVars
  BY <1>7 DEF credentialVars, StorageIInv, StorageTypeOK, SnapshotsGrow, SavedIsDurable
<1> QED BY <1>1, <1>2, <1>3, <1>4, <1>5, <1>6, <1>7 DEF StorageNext

(* What a call was told is saved stays saved, through the calls of others,   *)
(* writes that fail and pages that reload.                                   *)
THEOREM SavedStaysSaved == StorageSpec => []SavedIsDurable
<1>1. StorageIInv => SavedIsDurable
  BY DEF StorageIInv
<1> QED BY <1>1, StorageStarts, StorageSteps, PTL DEF StorageSpec
-----------------------------------------------------------------------------
(* A step-up that is answered "satisfied" is granted, unless one of the four *)
(* lapses came first.  Coherent and Covered are about what a handler found   *)
(* and asks for, Refreshed about the token it may put back, ScopeKept about  *)
(* what is in storage, Redeeming about the code that is exchanged.           *)
StepUp(c) == recovery[c].reason = "insufficient_scope"
Refreshes(c) == \/ recovery[c].at = "confirming"
                \/ recovery[c].at = "authorizing" /\ recovery[c].old # {}
Claims(c) == \/ recovery[c].at = "authorizing"
             \/ recovery[c].at \in {"redirecting", "interactive", "begun"} /\ codeVerifier = c

Coherent(c) ==
  /\ recovery[c].at = "confirming" => StepUp(c) /\ recovery[c].old # {}
  /\ recovery[c].at \in {"waiting", "preparing"} => recovery[c].reason # "connect"
  /\ StepUp(c) => recovery[c].needs # {}
  /\ recovery[c].at \in {"authorizing", "redirecting", "confirming", "interactive", "begun"} =>
       recovery[c].asks # {} /\ (StepUp(c) => recovery[c].needs \subseteq recovery[c].asks)
  /\ StepUp(c) /\ Refreshes(c) => recovery[c].asks \subseteq recovery[c].old

Covered(c) == Claims(c) => scope # {} /\ (StepUp(c) => scope \subseteq recovery[c].asks)

Refreshed(c) ==
  Refreshes(c) =>
    /\ token # NoToken => token.grants = recovery[c].old
    /\ \A d \in Challenges : Refreshes(d) => recovery[d].old = recovery[c].old
    /\ recovery[c].at = "authorizing" => scope \subseteq recovery[c].old

ScopeKept ==
  token # NoToken =>
    /\ token.grants # {} /\ scope # {}
    /\ scope \subseteq token.grants \/ (flow.at = "saving" /\ token.says)

Redeeming ==
  /\ flow # NoFlow => recovery[flow.of].at = "begun"
  /\ flow.at = "exchanging" /\ flow.verifier = flow.of => codeVerifier = flow.of
  /\ flow.at = "saving" /\ token # NoToken =>
       /\ codeVerifier = flow.of
       /\ token.grants \subseteq recovery[flow.of].asks
       /\ ~token.says => token.grants = recovery[flow.of].asks

Lapsing == Overlapping \/ SilentRelogin \/ ClearedMidway \/ ConfirmedBeside

Granted ==
  /\ \A c \in Challenges : Coherent(c) /\ Covered(c) /\ Refreshed(c)
  /\ ScopeKept /\ Redeeming

GrantsInv == lapses = {} => ~Lapsing /\ Granted

(* Nothing lapses that is not noted. *)
LEMMA LapsesAreNoted ==
  ASSUME NoteLapses, lapses' = {}
  PROVE  lapses = {} /\ ~Lapsing'
BY DEF NoteLapses, Lapsing

LEMMA GrantsStart == OAuthInit => GrantsInv
<1> SUFFICES ASSUME OAuthInit PROVE ~Lapsing /\ Granted
  BY DEF GrantsInv
<1>1. \A c \in Challenges : recovery[c] = NoRecovery
  BY DEF OAuthInit
<1>2. flow = NoFlow /\ codeVerifier = NoChallenge /\ flow.at = "none"
  BY DEF OAuthInit, NoFlow
<1>3. \A c \in Challenges : ~Claims(c) /\ ~Refreshes(c) /\ Coherent(c)
  BY <1>1 DEF NoRecovery, Claims, Refreshes, Coherent, StepUp
<1>4. ~Lapsing
  BY <1>1, <1>2 DEF Lapsing, Overlapping, SilentRelogin, ClearedMidway, ConfirmedBeside, NoRecovery
<1>5. ScopeKept
  <2>1. CASE scope = {} /\ token = NoToken
    BY <2>1 DEF ScopeKept
  <2>2. CASE /\ scope \in {granted \in SUBSET Scopes : Configured \subseteq granted}
             /\ token \in [grants : {scope}, says : BOOLEAN]
    <3>1. token.grants = scope /\ scope # {}
      BY <2>2, OAuthManagerAssumption
    <3> QED BY <3>1 DEF ScopeKept
  <2> QED BY <2>1, <2>2 DEF OAuthInit
<1>6. Redeeming
  BY <1>2 DEF Redeeming
<1> QED BY <1>3, <1>4, <1>5, <1>6 DEF Granted, Covered, Refreshed

-----------------------------------------------------------------------------
(* A step that stores no scope, and no token but to drop it, keeps what is   *)
(* granted if no handler comes to claim or to refresh by it.                 *)
LEMMA NothingStored ==
  ASSUME Granted, scope' = scope, token' \in {token, NoToken},
         flow'.at # flow.at => flow.at # "saving" \/ token' = NoToken, Redeeming',
         \A d \in Challenges :
           /\ Coherent(d)'
           /\ Claims(d)' => /\ Claims(d) /\ recovery'[d].reason = recovery[d].reason
                            /\ recovery'[d].asks = recovery[d].asks
           /\ Refreshes(d)' => /\ Refreshes(d) /\ recovery'[d].old = recovery[d].old
                               /\ recovery'[d].at = "authorizing" => recovery[d].at = "authorizing"
  PROVE  Granted'
<1>1. \A d \in Challenges : Covered(d)'
  BY DEF Granted, Covered, StepUp
<1>2. \A d \in Challenges : Refreshed(d)'
  BY DEF Granted, Refreshed
<1>3. ScopeKept'
  BY DEF Granted, ScopeKept
<1> QED BY <1>1, <1>2, <1>3 DEF Granted

(* The code that is exchanged stays what it is beside a step of a handler    *)
(* that leaves the verifier alone.                                           *)
LEMMA RedeemingStays ==
  ASSUME OAuthIInv, Redeeming, flow' = flow, codeVerifier' = codeVerifier, token' \in {token, NoToken},
         \A d \in Challenges : recovery[d].at = "begun" =>
           recovery'[d].at = "begun" /\ recovery'[d].asks = recovery[d].asks
  PROVE  Redeeming'
<1>1. flow # NoFlow => flow.of \in Challenges
  BY DEF OAuthIInv, OAuthTypeOK
<1>2. NoFlow.at = "none"
  BY DEF NoFlow
<1> QED BY <1>1, <1>2 DEF Redeeming

(* One handler goes on: what it found and asks for stays.                    *)
Advances(c, at) ==
  /\ recovery'[c] = [recovery[c] EXCEPT !.at = at]
  /\ \A d \in Challenges \ {c} : recovery'[d] = recovery[d]

LEMMA AdvancesIs ==
  ASSUME OAuthIInv, NEW c \in Challenges, NEW at, Advances(c, at)
  PROVE  /\ recovery'[c].at = at /\ recovery'[c].reason = recovery[c].reason
         /\ recovery'[c].needs = recovery[c].needs /\ recovery'[c].lacks = recovery[c].lacks
         /\ recovery'[c].asks = recovery[c].asks /\ recovery'[c].old = recovery[c].old
BY TypedIs DEF Advances, Recovery

LEMMA LeaveOrGoto ==
  ASSUME OAuthIInv, NEW c \in Challenges, NEW at, Leave(c, at) \/ Goto(c, at)
  PROVE  Advances(c, at)
BY TypedIs DEF Leave, Goto, Advances, Typed

LEMMA OthersCohere ==
  ASSUME NEW d \in Challenges, Coherent(d), recovery'[d] = recovery[d]
  PROVE  Coherent(d)'
BY DEF Coherent, StepUp, Refreshes

(* Whoever neither asks nor refreshes anew is as coherent as before. *)
LEMMA AdvanceCoheres ==
  ASSUME OAuthIInv, NEW c \in Challenges, Coherent(c), NEW at, Advances(c, at),
         at \notin {"waiting", "authorizing", "confirming"},
         at = "preparing" => recovery[c].at = "waiting",
         at \in {"redirecting", "interactive", "begun"} =>
           recovery[c].at \in {"authorizing", "redirecting", "interactive"}
  PROVE  Coherent(c)'
BY AdvancesIs DEF Coherent, StepUp, Refreshes

(* A handler that goes on so, and stores nothing. *)
LEMMA AdvanceKeeps ==
  ASSUME OAuthIInv, Granted, NEW c \in Challenges, NEW at, Advances(c, at),
         at \notin {"waiting", "authorizing", "confirming"},
         at = "preparing" => recovery[c].at = "waiting",
         at \in {"redirecting", "interactive", "begun"} =>
           recovery[c].at \in {"authorizing", "redirecting", "interactive"},
         at \in {"interactive", "begun"} /\ codeVerifier' = c => Claims(c),
         at = "redirecting" => recovery[c].at = "authorizing",
         scope' = scope, token' \in {token, NoToken}, Redeeming',
         flow'.at # flow.at => flow.at # "saving",
         codeVerifier' \in {codeVerifier, c}
  PROVE  Granted'
<1>1. \A d \in Challenges \ {c} : recovery'[d] = recovery[d]
  BY DEF Advances
<1>2. \A d \in Challenges : Coherent(d)'
  BY <1>1, AdvanceCoheres, OthersCohere DEF Granted
<1>3. \A d \in Challenges :
        Claims(d)' => /\ Claims(d) /\ recovery'[d].reason = recovery[d].reason
                      /\ recovery'[d].asks = recovery[d].asks
  BY <1>1, AdvancesIs DEF Claims
<1>4. \A d \in Challenges :
        Refreshes(d)' => /\ Refreshes(d) /\ recovery'[d].old = recovery[d].old
                         /\ recovery'[d].at = "authorizing" => recovery[d].at = "authorizing"
  BY <1>1, AdvancesIs DEF Refreshes
<1> QED BY <1>2, <1>3, <1>4, NothingStored
-----------------------------------------------------------------------------
(* The steps that store nothing, of a handler. *)
LEMMA ChallengedGrants ==
  ASSUME OAuthIInv, Granted, NEW c \in Challenges, NEW reason \in {"insufficient_scope", "token_expired"},
         NEW needs \in SUBSET Scopes, reason = "insufficient_scope" <=> needs # {},
         Challenged(c, reason, needs)
  PROVE  Granted'
<1> DEFINE at == IF reason = "insufficient_scope" /\ Satisfied(needs) THEN "satisfied" ELSE "waiting"
           r == [NoRecovery EXCEPT !.reason = reason, !.at = at, !.needs = needs]
<1>1. /\ recovery[c].at = "none" /\ recovery' = [recovery EXCEPT ![c] = r]
      /\ UNCHANGED <<scope, token, codeVerifier, flow>>
  BY DEF Challenged
<1>2. at \in {"satisfied", "waiting"}
  OBVIOUS
<1> HIDE DEF at
<1>3. r.at = at /\ r.reason = reason /\ r.needs = needs
  BY DEF NoRecovery
<1> HIDE DEF r
<1>4. recovery'[c] = r /\ \A d \in Challenges \ {c} : recovery'[d] = recovery[d]
  BY <1>1, TypedIs DEF Typed
<1>5. \A d \in Challenges : Coherent(d)'
  <2>1. Coherent(c)'
    BY <1>2, <1>3, <1>4 DEF Coherent, StepUp, Refreshes
  <2> QED BY <1>4, <2>1, OthersCohere DEF Granted
<1>6. \A d \in Challenges : ~(Claims(c)' \/ Refreshes(c)')
  BY <1>2, <1>3, <1>4 DEF Claims, Refreshes
<1>7. Redeeming'
  BY <1>1, <1>4, RedeemingStays DEF Granted
<1>8. \A d \in Challenges \ {c} : (Claims(d)' => Claims(d)) /\ (Refreshes(d)' => Refreshes(d))
  BY <1>1, <1>4 DEF Claims, Refreshes
<1> QED BY <1>1, <1>4, <1>5, <1>6, <1>7, <1>8, NothingStored

(* Of those that go on, the authorization the user is at is none. *)
LEMMA HandlerKeepsCode ==
  ASSUME OAuthIInv, Granted, NEW c \in Challenges, NEW at, Advances(c, at),
         recovery[c].at # "begun", flow' = flow, codeVerifier' = codeVerifier,
         token' \in {token, NoToken}
  PROVE  Redeeming'
BY RedeemingStays DEF Advances, Granted

LEMMA EnterGrants ==
  ASSUME OAuthIInv, Granted, NEW c \in Challenges, Enter(c)
  PROVE  Granted'
<1>1. recovery[c].at = "waiting" /\ UNCHANGED <<scope, token, codeVerifier, flow>>
  BY DEF Enter
<1>2. PICK at \in {"satisfied", "preparing"} : Advances(c, at)
  BY LeaveOrGoto DEF Enter
<1>3. Redeeming'
  BY <1>1, <1>2, HandlerKeepsCode
<1> QED BY <1>1, <1>2, <1>3, AdvanceKeeps

LEMMA ThrowsOrDeclinesGrants ==
  ASSUME OAuthIInv, Granted, NEW c \in Challenges, AuthThrows(c) \/ Decline(c)
  PROVE  Granted'
<1>1. recovery[c].at # "begun" /\ UNCHANGED <<scope, token, codeVerifier, flow>>
  BY DEF AuthThrows, Decline
<1>2. PICK at \in {"failed", "declined"} : Advances(c, at)
  BY LeaveOrGoto DEF AuthThrows, Decline
<1>3. Redeeming'
  BY <1>1, <1>2, HandlerKeepsCode
<1> QED BY <1>1, <1>2, <1>3, AdvanceKeeps

LEMMA InteractiveGrants ==
  ASSUME OAuthIInv, Granted, NEW c \in Challenges, Interactive(c)
  PROVE  Granted'
<1>1. recovery[c].at = "redirecting" /\ UNCHANGED <<scope, token, codeVerifier, flow>>
  BY DEF Interactive
<1>2. Advances(c, "interactive")
  BY LeaveOrGoto DEF Interactive
<1>3. Redeeming'
  BY <1>1, <1>2, HandlerKeepsCode
<1>4. codeVerifier' = c => Claims(c)
  BY <1>1 DEF Claims
<1> QED BY <1>1, <1>2, <1>3, <1>4, AdvanceKeeps

(* A verifier is stored beside no exchange, or something lapses. *)
LEMMA RedirectGrants ==
  ASSUME OAuthIInv, Granted, ~Lapsing, ~Lapsing', NEW c \in Challenges,
         AuthRedirects(c) \/ ForceRedirects(c)
  PROVE  Granted'
<1>1. /\ recovery[c].at \in {"authorizing", "forcing"} /\ codeVerifier' = c
      /\ token' \in {token, NoToken} /\ scope' = scope /\ flow' = flow
  BY DEF AuthRedirects, ForceRedirects
<1>2. PICK at \in {"redirecting", "failed"} :
        Advances(c, at) /\ (at = "redirecting" => recovery[c].at = "authorizing")
  BY LeaveOrGoto DEF AuthRedirects, ForceRedirects
<1>3. flow.at \notin {"exchanging", "saving"}
  BY <1>1 DEF Lapsing, Overlapping, Recovering
<1>4. flow # NoFlow => flow.of \in Challenges /\ flow.of # c
  BY <1>1 DEF Granted, Redeeming, OAuthIInv, OAuthTypeOK
<1>5. Redeeming'
  BY <1>1, <1>2, <1>3, <1>4 DEF Granted, Redeeming, Advances
<1> QED BY <1>1, <1>2, <1>5, AdvanceKeeps

LEMMA BeginGrants ==
  ASSUME OAuthIInv, Granted, NEW c \in Challenges, Begin(c)
  PROVE  Granted'
<1>1. /\ recovery[c].at = "interactive" /\ flow = NoFlow
      /\ flow' = [of |-> c, at |-> "away", verifier |-> NoChallenge]
      /\ UNCHANGED <<scope, token, codeVerifier>>
  BY DEF Begin
<1>2. flow'.at = "away" /\ flow'.of = c /\ flow.at = "none"
  BY <1>1 DEF NoFlow
<1>3. codeVerifier' = c => Claims(c)
  BY <1>1 DEF Claims
<1>4. CASE ~web
  <2>1. Advances(c, "begun")
    BY <1>4, LeaveOrGoto DEF Begin
  <2>2. Redeeming'
    BY <1>2, <2>1, AdvancesIs DEF Redeeming
  <2> QED BY <1>1, <1>2, <1>3, <2>1, <2>2, AdvanceKeeps
<1>5. CASE web
  <2>1. \A d \in Challenges :
          recovery'[d] = IF d = c THEN [recovery[c] EXCEPT !.at = "begun"]
                         ELSE IF recovery[d].at \in {"none"} \union Answered THEN recovery[d]
                         ELSE [recovery[d] EXCEPT !.at = "gone"]
    BY <1>5 DEF Begin
  <2>2. \A d \in Challenges :
          /\ recovery'[d].reason = recovery[d].reason /\ recovery'[d].needs = recovery[d].needs
          /\ recovery'[d].asks = recovery[d].asks /\ recovery'[d].old = recovery[d].old
          /\ recovery'[d].at = IF d = c THEN "begun"
                               ELSE IF recovery[d].at \in {"none"} \union Answered THEN recovery[d].at
                               ELSE "gone"
    <3> SUFFICES ASSUME NEW d \in Challenges
                 PROVE  /\ recovery'[d].reason = recovery[d].reason /\ recovery'[d].needs = recovery[d].needs
                        /\ recovery'[d].asks = recovery[d].asks /\ recovery'[d].old = recovery[d].old
                        /\ recovery'[d].at = IF d = c THEN "begun"
                                             ELSE IF recovery[d].at \in {"none"} \union Answered
                                                  THEN recovery[d].at
                                             ELSE "gone"
      OBVIOUS
    <3>1. recovery[d] \in Recovery
      BY TypedIs
    <3>2. CASE d = c
      <4>1. recovery'[c] = [recovery[c] EXCEPT !.at = "begun"]
        BY <2>1
      <4> QED BY <3>1, <3>2, <4>1 DEF Recovery
    <3>3. CASE d # c /\ recovery[d].at \in {"none"} \union Answered
      BY <2>1, <3>3
    <3>4. CASE d # c /\ recovery[d].at \notin {"none"} \union Answered
      <4>1. recovery'[d] = [recovery[d] EXCEPT !.at = "gone"]
        BY <2>1, <3>4
      <4>2. /\ recovery'[d].reason = recovery[d].reason /\ recovery'[d].needs = recovery[d].needs
            /\ recovery'[d].asks = recovery[d].asks /\ recovery'[d].old = recovery[d].old
            /\ recovery'[d].at = "gone"
        BY <3>1, <4>1 DEF Recovery
      <4> QED BY <3>4, <4>2
    <3> QED BY <3>2, <3>3, <3>4
  <2>3. \A d \in Challenges : Coherent(d)'
    BY <1>1, <2>2 DEF Granted, Coherent, StepUp, Refreshes, Answered
  <2>4. \A d \in Challenges : Claims(d)' => Claims(d)
    BY <1>1, <1>3, <2>2 DEF Claims, Answered
  <2>5. \A d \in Challenges : ~Refreshes(d)'
    BY <2>2 DEF Refreshes, Answered
  <2>6. Redeeming'
    BY <1>2, <2>2 DEF Redeeming
  <2> QED BY <1>1, <1>2, <2>2, <2>3, <2>4, <2>5, <2>6, NothingStored
<1> QED BY <1>4, <1>5

(* The same of the user's authorization, and of what is left to be cleared. *)
LEMMA EndsGrants ==
  ASSUME OAuthIInv, Granted, GivenUp \/ ExchangeFails \/ Complete \/ OAuthTokensCleared
  PROVE  Granted'
<1>1. /\ UNCHANGED <<recovery, scope, codeVerifier>> /\ token' \in {token, NoToken}
      /\ (flow' = NoFlow /\ flow.at # "saving") \/ flow' = flow
  BY DEF GivenUp, ExchangeFails, Complete, OAuthTokensCleared
<1>2. Redeeming'
  <2>1. CASE flow' = flow
    BY <1>1, <2>1, RedeemingStays DEF Granted
  <2>2. CASE flow' = NoFlow
    BY <2>2 DEF Redeeming, NoFlow
  <2> QED BY <1>1, <2>1, <2>2
<1>3. \A d \in Challenges : /\ Coherent(d)' /\ (Claims(d)' => Claims(d))
                            /\ (Refreshes(d)' => Refreshes(d))
  BY <1>1, OthersCohere DEF Granted, Claims, Refreshes
<1> QED BY <1>1, <1>2, <1>3, NothingStored

LEMMA ClearGrants ==
  ASSUME OAuthIInv, Granted, ~Lapsing', ClearOAuthTokens
  PROVE  Granted'
<1>1. /\ scope' = {} /\ token' = NoToken /\ codeVerifier' = NoChallenge
      /\ UNCHANGED <<recovery, flow>>
  BY DEF ClearOAuthTokens
<1>2. flow.at # "exchanging" /\ \A c \in Challenges : recovery[c].at # "authorizing"
  BY <1>1 DEF Lapsing, ClearedMidway
<1>3. \A d \in Challenges : Coherent(d)' /\ ~Claims(d)' /\ (Refreshes(d)' => Refreshes(d))
  BY <1>1, <1>2, OthersCohere, OAuthManagerAssumption DEF Granted, Claims, Refreshes
<1>4. Redeeming'
  BY <1>1, <1>2 DEF Granted, Redeeming
<1>5. ScopeKept'
  BY <1>1 DEF ScopeKept
<1>6. \A d \in Challenges : Refreshed(d)'
  BY <1>1, <1>2, <1>3 DEF Granted, Refreshed
<1> QED BY <1>3, <1>4, <1>5, <1>6 DEF Granted, Covered
-----------------------------------------------------------------------------
(* The scope that is stored where there is none changes nothing for those    *)
(* that rely on one.                                                         *)
LEMMA SeededIs ==
  ASSUME OAuthIInv, Granted
  PROVE  /\ SeededScope # {}
         /\ token # NoToken => SeededScope = scope
         /\ \A d \in Challenges : Claims(d) => SeededScope = scope
BY OAuthManagerAssumption DEF Granted, ScopeKept, Covered, SeededScope

(* A handler comes to run auth(), with the token there is to refresh. *)
LEMMA AuthorizingGrants ==
  ASSUME OAuthIInv, Granted, ~Lapsing', NEW c \in Challenges,
         scope' = SeededScope, UNCHANGED <<token, codeVerifier, flow>>,
         recovery[c].at # "begun", recovery'[c].at = "authorizing",
         recovery'[c].old \in {{}, token.grants}, Coherent(c)',
         StepUp(c)' => SeededScope \subseteq recovery'[c].asks,
         \A d \in Challenges \ {c} : recovery'[d] = recovery[d]
  PROVE  Granted'
<1>1. flow.at # "saving"
  BY DEF Lapsing, Overlapping, Recovering
<1>2. NoToken.grants = {}
  BY DEF NoToken
<1>3. \A d \in Challenges : Coherent(d)'
  BY OthersCohere DEF Granted
<1>4. \A d \in Challenges : Covered(d)'
  <2>1. Covered(c)'
    BY SeededIs DEF Covered, StepUp
  <2>2. ASSUME NEW d \in Challenges \ {c} PROVE Covered(d)'
    BY SeededIs DEF Granted, Covered, Claims, StepUp
  <2> QED BY <2>1, <2>2
<1>5. ScopeKept'
  BY SeededIs DEF Granted, ScopeKept
<1>6. \A d \in Challenges \ {c} :
        /\ Refreshes(d)' <=> Refreshes(d)
        /\ Refreshes(d) /\ token # NoToken => recovery'[d].old = token.grants
  BY DEF Granted, Refreshed, Refreshes
<1>7. Refreshes(c)' => token # NoToken /\ recovery'[c].old = token.grants
  BY <1>2 DEF Refreshes
<1>8. Refreshed(c)'
  <2>1. token # NoToken => scope' \subseteq token.grants
    BY <1>1, SeededIs DEF Granted, ScopeKept
  <2> QED BY <1>6, <1>7, <2>1 DEF Refreshed
<1>9. ASSUME NEW d \in Challenges \ {c} PROVE Refreshed(d)'
  <2> SUFFICES ASSUME Refreshes(d)
               PROVE  /\ token' # NoToken => token'.grants = recovery'[d].old
                      /\ \A e \in Challenges : Refreshes(e)' => recovery'[e].old = recovery'[d].old
                      /\ recovery'[d].at = "authorizing" => scope' \subseteq recovery'[d].old
    BY <1>6 DEF Refreshed
  <2>1. \A e \in Challenges : Refreshes(e)' => recovery'[e].old = recovery'[d].old
    BY <1>6, <1>7 DEF Granted, Refreshed
  <2>2. recovery[d].at = "authorizing" => SeededScope = scope
    BY SeededIs DEF Claims
  <2> QED BY <1>6, <2>1, <2>2 DEF Granted, Refreshed
<1>10. Redeeming'
  BY RedeemingStays DEF Granted
<1> QED BY <1>3, <1>4, <1>5, <1>8, <1>9, <1>10 DEF Granted

LEMMA PrepareGrants ==
  ASSUME OAuthIInv, Granted, ~Lapsing', NEW c \in Challenges, Prepare(c)
  PROVE  Granted'
<1> DEFINE granted == SeededScope \union TokenScope
           needs == recovery[c].needs
           asks == IF recovery[c].reason = "insufficient_scope" THEN granted \union needs ELSE Configured
           lacks == IF needs \subseteq granted THEN needs ELSE needs \ granted
           old == IF recovery[c].reason = "insufficient_scope" /\ ~(asks \subseteq TokenScope)
                  THEN {} ELSE token.grants
<1>1. /\ recovery[c].at = "preparing" /\ scope' = SeededScope
      /\ UNCHANGED <<token, codeVerifier, flow>>
      /\ recovery' = [recovery EXCEPT ![c].at = "authorizing", ![c].asks = asks,
                                      ![c].lacks = lacks, ![c].old = old]
  BY DEF Prepare
<1>2. SeededScope \subseteq granted /\ asks # {}
  BY SeededIs, OAuthManagerAssumption
<1>3. StepUp(c) => SeededScope \subseteq asks /\ needs \subseteq asks
  BY <1>2 DEF StepUp
<1>4. StepUp(c) /\ old # {} => asks \subseteq old
  BY <1>2 DEF StepUp, TokenScope
<1>5. old \in {{}, token.grants}
  OBVIOUS
<1> HIDE DEF asks, lacks, old
<1>6. recovery'[c] = [recovery[c] EXCEPT !.at = "authorizing", !.asks = asks,
                                         !.lacks = lacks, !.old = old]
      /\ \A d \in Challenges \ {c} : recovery'[d] = recovery[d]
  BY <1>1, TypedIs DEF Typed
<1>7. /\ recovery'[c].at = "authorizing" /\ recovery'[c].reason = recovery[c].reason
      /\ recovery'[c].needs = needs /\ recovery'[c].asks = asks /\ recovery'[c].old = old
  BY <1>6, TypedIs DEF Recovery
<1>8. Coherent(c)'
  BY <1>2, <1>3, <1>4, <1>7 DEF Granted, Coherent, StepUp, Refreshes
<1>9. StepUp(c)' => SeededScope \subseteq recovery'[c].asks
  BY <1>3, <1>7 DEF StepUp
<1> QED BY <1>1, <1>5, <1>6, <1>7, <1>8, <1>9, AuthorizingGrants

LEMMA AuthenticateGrants ==
  ASSUME OAuthIInv, Granted, ~Lapsing', NEW c \in Challenges, Authenticate(c)
  PROVE  Granted'
<1> DEFINE r == [NoRecovery EXCEPT !.reason = "connect", !.at = "authorizing",
                                   !.asks = SeededScope, !.old = token.grants]
<1>1. /\ recovery[c].at = "none" /\ recovery' = [recovery EXCEPT ![c] = r]
      /\ scope' = SeededScope /\ UNCHANGED <<token, codeVerifier, flow>>
  BY DEF Authenticate
<1>2. r.at = "authorizing" /\ r.reason = "connect" /\ r.asks = SeededScope /\ r.old = token.grants
  BY DEF NoRecovery
<1> HIDE DEF r
<1>3. recovery'[c] = r /\ \A d \in Challenges \ {c} : recovery'[d] = recovery[d]
  BY <1>1, TypedIs DEF Typed
<1>4. Coherent(c)'
  BY <1>2, <1>3, SeededIs DEF Coherent, StepUp, Refreshes
<1> QED BY <1>1, <1>2, <1>3, <1>4, AuthorizingGrants DEF StepUp

(* What is put back is the token whose grant is in storage. *)
LEMMA RefreshGrants ==
  ASSUME OAuthIInv, Granted, ~Lapsing, NEW c \in Challenges, AuthRefreshes(c)
  PROVE  Granted'
<1>1. /\ recovery[c].at = "authorizing" /\ recovery[c].old # {}
      /\ token' \in [grants : {recovery[c].old}, says : BOOLEAN]
      /\ UNCHANGED <<scope, codeVerifier, flow>>
  BY DEF AuthRefreshes
<1>2. Claims(c) /\ Refreshes(c)
  BY <1>1 DEF Claims, Refreshes
<1>3. PICK at \in {"confirming", "satisfied", "failed"} :
        Advances(c, at) /\ (at = "confirming" => StepUp(c))
  BY LeaveOrGoto DEF AuthRefreshes, StepUp
<1>4. \A d \in Challenges \ {c} : recovery'[d] = recovery[d]
  BY <1>3 DEF Advances
<1>5. \A d \in Challenges : Coherent(d)'
  <2>1. CASE at # "confirming"
    BY <1>3, <1>4, <2>1, AdvanceCoheres, OthersCohere DEF Granted
  <2>2. CASE at = "confirming"
    <3>1. Coherent(c)'
      BY <1>1, <1>2, <1>3, <2>2, AdvancesIs DEF Granted, Coherent, StepUp, Refreshes
    <3> QED BY <1>4, <3>1, OthersCohere DEF Granted
  <2> QED BY <2>1, <2>2
<1>6. \A d \in Challenges : Covered(d)'
  <2>1. ~Claims(c)'
    BY <1>3, AdvancesIs DEF Claims
  <2> QED BY <1>1, <1>4, <2>1 DEF Granted, Covered, Claims, StepUp
<1>7. \A d \in Challenges :
        Refreshes(d)' => Refreshes(d) /\ recovery'[d].old = recovery[d].old
                         /\ (recovery'[d].at = "authorizing" => recovery[d].at = "authorizing")
  BY <1>2, <1>3, <1>4, AdvancesIs DEF Refreshes
<1>8. token'.grants = recovery[c].old
  BY <1>1
<1>9. \A d \in Challenges : Refreshed(d)'
  BY <1>1, <1>2, <1>7, <1>8 DEF Granted, Refreshed
<1>10. ScopeKept'
  BY <1>1, <1>2, <1>8 DEF Granted, ScopeKept, Covered, Refreshed
<1>11. Redeeming'
  <2>1. flow.at \notin {"exchanging", "saving"}
    BY <1>1 DEF Lapsing, Overlapping, Recovering
  <2>2. flow # NoFlow => flow.of \in Challenges
    BY DEF OAuthIInv, OAuthTypeOK
  <2> QED BY <1>1, <1>4, <2>1, <2>2 DEF Granted, Redeeming
<1> QED BY <1>5, <1>6, <1>9, <1>10, <1>11 DEF Granted
-----------------------------------------------------------------------------
(* What is found to be satisfied is granted. *)
LEMMA SatisfiedIs ==
  ASSUME ScopeKept, NEW needs \in SUBSET Scopes, Satisfied(needs)
  PROVE  token # NoToken /\ needs \subseteq token.grants
BY DEF ScopeKept, Satisfied, AuthorizationScopes, EffectiveScope, TokenScope

(* A refreshed step-up finds the token it was refreshed to, and it asks for  *)
(* no more than that: what it stores is granted, to those beside it too.     *)
LEMMA ConfirmedIs ==
  ASSUME OAuthIInv, Granted, NEW c \in Challenges, recovery[c].at = "confirming",
         Satisfied(recovery[c].lacks)
  PROVE  /\ token # NoToken /\ Refreshes(c) /\ token.grants = recovery[c].old
         /\ PersistedScope(recovery[c].asks) # {}
         /\ PersistedScope(recovery[c].asks) \subseteq token.grants
         /\ recovery[c].needs \subseteq token.grants
<1>1. Refreshes(c) /\ StepUp(c)
  BY DEF Granted, Coherent, Refreshes
<1>2. token # NoToken
  BY DEF Satisfied
<1>3. token.grants = recovery[c].old /\ token.grants # {}
  BY <1>1, <1>2 DEF Granted, Refreshed, ScopeKept
<1>4. /\ recovery[c].asks # {} /\ recovery[c].needs \subseteq recovery[c].asks
      /\ recovery[c].asks \subseteq recovery[c].old
  BY <1>1 DEF Granted, Coherent
<1> QED BY <1>1, <1>2, <1>3, <1>4 DEF PersistedScope

LEMMA ConfirmGrants ==
  ASSUME OAuthIInv, Granted, ~Lapsing, NEW c \in Challenges, Confirm(c)
  PROVE  Granted'
<1>1. recovery[c].at = "confirming" /\ UNCHANGED <<token, codeVerifier, flow>>
  BY DEF Confirm
<1>2. CASE Satisfied(recovery[c].lacks)
  <2>1. scope' = PersistedScope(recovery[c].asks) /\ Advances(c, "satisfied")
    BY <1>2, LeaveOrGoto DEF Confirm
  <2>2. /\ token # NoToken /\ Refreshes(c) /\ token.grants = recovery[c].old
        /\ scope' # {} /\ scope' \subseteq token.grants
    BY <1>1, <1>2, <2>1, ConfirmedIs
  <2>3. \A d \in Challenges \ {c} : recovery'[d] = recovery[d]
    BY <2>1 DEF Advances
  <2>4. Coherent(c)' /\ ~Claims(c)' /\ ~Refreshes(c)'
    BY <2>1, AdvanceCoheres, AdvancesIs DEF Granted, Claims, Refreshes
  <2>5. ASSUME NEW d \in Challenges \ {c} PROVE Covered(d)'
    <3> SUFFICES ASSUME Claims(d), StepUp(d) PROVE FALSE
      BY <1>1, <2>2, <2>3 DEF Covered, Claims, StepUp
    <3>1. authChallengeMutex # <<>> /\ Head(authChallengeMutex) = c
      BY <1>1 DEF OAuthIInv, RecoveryIsSerial, Recovering, Granted, Coherent, StepUp
    <3>2. recovery[d].at \notin {"authorizing", "redirecting"}
      BY <3>1 DEF OAuthIInv, RecoveryIsSerial, Recovering, StepUp
    <3>3. codeVerifier = d /\ recovery[d].at \in {"interactive", "begun"}
      BY <3>2 DEF Claims
    <3>4. d # NoChallenge
      BY OAuthManagerAssumption
    <3> QED BY <1>1, <3>3, <3>4 DEF Lapsing, ConfirmedBeside, StepUp
  <2>6. ASSUME NEW d \in Challenges \ {c} PROVE Refreshed(d)'
    BY <1>1, <2>2, <2>3, <2>4 DEF Granted, Refreshed, Refreshes
  <2>7. \A d \in Challenges : Coherent(d)' /\ Covered(d)' /\ Refreshed(d)'
    BY <2>3, <2>4, <2>5, <2>6, OthersCohere DEF Granted, Covered, Refreshed
  <2>8. Redeeming'
    BY <1>1, <2>1, HandlerKeepsCode
  <2>9. ScopeKept'
    BY <1>1, <2>2 DEF Granted, ScopeKept
  <2> QED BY <2>7, <2>8, <2>9 DEF Granted
<1>3. CASE ~Satisfied(recovery[c].lacks)
  <2>1. scope' = scope /\ Advances(c, "forcing")
    BY <1>3, LeaveOrGoto DEF Confirm
  <2>2. Redeeming'
    BY <1>1, <2>1, HandlerKeepsCode
  <2> QED BY <1>1, <2>1, <2>2, AdvanceKeeps
<1> QED BY <1>2, <1>3

-----------------------------------------------------------------------------
(* The exchange, beside which no handler runs auth(). *)
LEMMA NoneBeside ==
  ASSUME flow.at \in {"exchanging", "saving", "clearing"}, ~Lapsing, NEW d \in Challenges
  PROVE  recovery[d].at \notin {"authorizing", "redirecting"} /\ ~Refreshes(d)
BY DEF Lapsing, Overlapping, Recovering, Refreshes

LEMMA CodeGrants ==
  ASSUME OAuthIInv, Granted, CodeArrives
  PROVE  Granted'
<1>1. /\ flow.at = "away" /\ scope' = SeededScope
      /\ flow' = [flow EXCEPT !.at = "exchanging", !.verifier = codeVerifier]
      /\ UNCHANGED <<token, codeVerifier, recovery>>
  BY DEF CodeArrives
<1>2. flow # NoFlow /\ flow \in Flow
  BY <1>1 DEF NoFlow, OAuthIInv, OAuthTypeOK, Flow
<1>3. flow'.at = "exchanging" /\ flow'.verifier = codeVerifier /\ flow'.of = flow.of
  BY <1>1, <1>2 DEF Flow
<1>4. Redeeming'
  BY <1>1, <1>2, <1>3 DEF Granted, Redeeming
<1>5. \A d \in Challenges : Coherent(d)' /\ Covered(d)' /\ Refreshed(d)'
  <2>1. \A d \in Challenges : (Claims(d)' <=> Claims(d)) /\ (Refreshes(d)' <=> Refreshes(d))
    BY <1>1 DEF Claims, Refreshes
  <2>2. \A d \in Challenges : Coherent(d)' /\ Covered(d)'
    BY <1>1, <2>1, SeededIs, OthersCohere DEF Granted, Covered, StepUp
  <2>3. \A d \in Challenges : recovery[d].at = "authorizing" => SeededScope = scope
    BY SeededIs DEF Claims
  <2> QED BY <1>1, <2>1, <2>2, <2>3 DEF Granted, Refreshed
<1>6. ScopeKept'
  BY <1>1, <1>3, SeededIs DEF Granted, ScopeKept
<1> QED BY <1>4, <1>5, <1>6 DEF Granted

LEMMA ExchangeGrants ==
  ASSUME OAuthIInv, Granted, ~Lapsing', ExchangeSucceeds
  PROVE  Granted'
<1> DEFINE c == flow.of
           asked == recovery[c].asks
<1>1. /\ flow.at = "exchanging" /\ flow.verifier = c
      /\ token' \in Grants(asked)
      /\ flow' = [flow EXCEPT !.at = "saving"]
      /\ UNCHANGED <<scope, codeVerifier, recovery, pendingScope>>
  BY DEF ExchangeSucceeds
<1>2. flow # NoFlow /\ flow \in Flow
  BY <1>1 DEF NoFlow, OAuthIInv, OAuthTypeOK, Flow
<1>3. flow'.at = "saving" /\ flow'.of = c /\ c \in Challenges
  BY <1>1, <1>2 DEF Flow
<1>4. recovery[c].at = "begun" /\ codeVerifier = c /\ asked # {}
  BY <1>1, <1>2, <1>3 DEF Granted, Redeeming, Coherent
<1>5. scope # {} /\ (StepUp(c) => scope \subseteq asked)
  BY <1>3, <1>4 DEF Granted, Covered, Claims
<1> HIDE DEF asked
<1>6. /\ token'.grants # {} /\ token'.grants \subseteq asked
      /\ ~token'.says => token'.grants = asked
  <2>1. CASE token' \in [grants : {asked}, says : {FALSE}]
    BY <1>4, <2>1
  <2>2. CASE token' \in [grants : (SUBSET asked) \ {{}}, says : {TRUE}]
    <3>1. token'.grants \in (SUBSET asked) \ {{}} /\ token'.says = TRUE
      BY <2>2, Zenon
    <3>2. token'.grants # {} /\ token'.grants \subseteq asked
      BY <3>1
    <3> QED BY <3>1, <3>2, Zenon
  <2> QED BY <1>1, <2>1, <2>2 DEF Grants
<1>7. ~token'.says => scope \subseteq asked
  <2>1. ~StepUp(c) /\ ~token'.says => scope \subseteq recovery[c].asks
    BY <1>1, <1>3 DEF Lapsing, SilentRelogin, StepUp
  <2> QED BY <1>5, <2>1 DEF asked
<1>8. ScopeKept'
  BY <1>1, <1>3, <1>5, <1>6, <1>7 DEF ScopeKept
<1>9. Redeeming'
  BY <1>1, <1>3, <1>4, <1>6 DEF Redeeming, asked
<1>10. \A d \in Challenges : ~Refreshes(d)'
  BY <1>1, <1>3 DEF Lapsing, Overlapping, Recovering, Refreshes
<1>11. \A d \in Challenges : Coherent(d)' /\ Covered(d)'
  BY <1>1, OthersCohere DEF Granted, Covered, Claims, StepUp
<1> QED BY <1>8, <1>9, <1>10, <1>11 DEF Granted, Refreshed

(* What is stored of a grant is within it: an answer without a scope grants  *)
(* what was asked for, and that is what is pending.                          *)
LEMMA StoreGrants ==
  ASSUME OAuthIInv, Granted, ~Lapsing, StoreGrant
  PROVE  Granted'
<1>1. flow.at = "saving" /\ UNCHANGED <<token, codeVerifier, recovery>>
  BY DEF StoreGrant
<1>2. flow # NoFlow /\ flow \in Flow
  BY <1>1 DEF NoFlow, OAuthIInv, OAuthTypeOK, Flow
<1>3. PICK c \in Challenges : c = flow.of /\ recovery[c].at = "begun"
  BY <1>2 DEF Flow, Granted, Redeeming
<1>4. CASE token = NoToken
  <2>1. flow' = NoFlow /\ scope' = scope
    BY <1>4 DEF StoreGrant
  <2>2. Redeeming'
    BY <2>1 DEF Redeeming, NoFlow
  <2>3. \A d \in Challenges : /\ Coherent(d)' /\ (Claims(d)' => Claims(d))
                              /\ (Refreshes(d)' => Refreshes(d))
    BY <1>1, OthersCohere DEF Granted, Claims, Refreshes
  <2> QED BY <1>1, <1>4, <2>1, <2>2, <2>3, NothingStored
<1>5. CASE token # NoToken
  <2>1. /\ scope' = IF PersistedScope(pendingScope) # {} THEN PersistedScope(pendingScope) ELSE scope
        /\ flow' = [flow EXCEPT !.at = "clearing"]
    BY <1>5 DEF StoreGrant
  <2>2. flow'.at = "clearing" /\ flow'.of = c
    BY <1>2, <1>3, <2>1 DEF Flow
  <2>3. /\ codeVerifier = c /\ token.grants \subseteq recovery[c].asks
        /\ ~token.says => token.grants = recovery[c].asks
    BY <1>1, <1>3, <1>5 DEF Granted, Redeeming
  <2>4. token.grants # {} /\ scope # {} /\ (~token.says => scope \subseteq token.grants)
    BY <1>5 DEF Granted, ScopeKept
  <2>5. scope' # {} /\ scope' \subseteq token.grants
    <3>1. CASE token.says
      BY <2>1, <2>4, <3>1 DEF PersistedScope
    <3>2. CASE ~token.says /\ StepUp(c)
      <4>1. pendingScope # {} => pendingScope = recovery[c].asks
        BY <1>3, <2>3, <3>2, OAuthManagerAssumption DEF OAuthIInv, PendingIsRedeemable, StepUp
      <4> QED BY <2>1, <2>3, <2>4, <3>2, <4>1 DEF PersistedScope
    <3>3. CASE ~token.says /\ ~StepUp(c)
      <4>1. pendingScope = {}
        BY <1>1, <1>3, <3>3 DEF Lapsing, SilentRelogin, StepUp
      <4> QED BY <2>1, <2>4, <3>3, <4>1 DEF PersistedScope
    <3> QED BY <3>1, <3>2, <3>3
  <2>6. ScopeKept'
    BY <1>1, <2>4, <2>5 DEF ScopeKept
  <2>7. Redeeming'
    BY <1>1, <1>3, <2>2 DEF Redeeming
  <2>8. \A d \in Challenges : ~Refreshes(d)' /\ (Claims(d)' => d = c)
    BY <1>1, <2>3, NoneBeside DEF Refreshes, Claims
  <2>9. Covered(c)'
    BY <1>1, <2>3, <2>5 DEF Covered, StepUp
  <2>10. \A d \in Challenges : Coherent(d)'
    BY <1>1, OthersCohere DEF Granted
  <2> QED BY <2>6, <2>7, <2>8, <2>9, <2>10 DEF Granted, Covered, Refreshed
<1> QED BY <1>4, <1>5
-----------------------------------------------------------------------------
(* One step, of all that change what is granted or who relies on it. *)
LEMMA GrantsStep ==
  ASSUME OAuthIInv, Granted, ~Lapsing, ~Lapsing', OAuthNext
  PROVE  Granted'
<1>1. ASSUME NEW c \in Challenges, NEW reason \in {"insufficient_scope", "token_expired"},
             NEW needs \in SUBSET Scopes, reason = "insufficient_scope" <=> needs # {},
             Challenged(c, reason, needs)
      PROVE  Granted'
  BY <1>1, ChallengedGrants
<1>2. ASSUME NEW c \in Challenges, Enter(c) PROVE Granted'
  BY <1>2, EnterGrants
<1>3. ASSUME NEW c \in Challenges, Prepare(c) PROVE Granted'
  BY <1>3, PrepareGrants
<1>4. ASSUME NEW c \in Challenges, Authenticate(c) PROVE Granted'
  BY <1>4, AuthenticateGrants
<1>5. ASSUME NEW c \in Challenges, AuthRedirects(c) \/ ForceRedirects(c) PROVE Granted'
  BY <1>5, RedirectGrants
<1>6. ASSUME NEW c \in Challenges, AuthRefreshes(c) PROVE Granted'
  BY <1>6, RefreshGrants
<1>7. ASSUME NEW c \in Challenges, AuthThrows(c) \/ Decline(c) PROVE Granted'
  BY <1>7, ThrowsOrDeclinesGrants
<1>8. ASSUME NEW c \in Challenges, Confirm(c) PROVE Granted'
  BY <1>8, ConfirmGrants
<1>9. ASSUME NEW c \in Challenges, Interactive(c) PROVE Granted'
  BY <1>9, InteractiveGrants
<1>10. ASSUME NEW c \in Challenges, Begin(c) PROVE Granted'
  BY <1>10, BeginGrants
<1>11. CASE GivenUp \/ ExchangeFails \/ Complete \/ OAuthTokensCleared
  BY <1>11, EndsGrants
<1>12. CASE CodeArrives
  BY <1>12, CodeGrants
<1>13. CASE ExchangeSucceeds
  BY <1>13, ExchangeGrants
<1>14. CASE StoreGrant
  BY <1>14, StoreGrants
<1>15. CASE ClearOAuthTokens
  BY <1>15, ClearGrants
<1> QED BY <1>1, <1>2, <1>3, <1>4, <1>5, <1>6, <1>7, <1>8, <1>9, <1>10, <1>11, <1>12, <1>13,
           <1>14, <1>15 DEF OAuthNext

LEMMA GrantsSteps == OAuthIInv /\ GrantsInv /\ [OAuthNext]_oauthVars => GrantsInv'
<1>1. CASE OAuthIInv /\ GrantsInv /\ OAuthNext
  <2> SUFFICES ASSUME lapses' = {} PROVE ~Lapsing' /\ Granted'
    BY DEF GrantsInv
  <2>1. lapses = {} /\ ~Lapsing'
    BY <1>1, LapsesAreNoted DEF OAuthNext
  <2> QED BY <1>1, <2>1, GrantsStep DEF GrantsInv
<1>2. CASE GrantsInv /\ UNCHANGED oauthVars
  <2>1. UNCHANGED <<scope, token, codeVerifier, pendingScope, recovery, flow, lapses>>
    BY <1>2 DEF oauthVars
  <2>2. Lapsing' <=> Lapsing
    BY <2>1 DEF Lapsing, Overlapping, SilentRelogin, ClearedMidway, ConfirmedBeside
  <2>3. \A c \in Challenges : /\ Coherent(c) => Coherent(c)'
                              /\ Covered(c) => Covered(c)'
                              /\ Refreshed(c) => Refreshed(c)'
    BY <2>1 DEF Coherent, Covered, Refreshed, Claims, Refreshes, StepUp
  <2>4. (ScopeKept => ScopeKept') /\ (Redeeming => Redeeming')
    BY <2>1 DEF ScopeKept, Redeeming
  <2> QED BY <1>2, <2>1, <2>2, <2>3, <2>4 DEF GrantsInv, Granted
<1> QED BY <1>1, <1>2

(* Only a handler that has looked answers that a step-up is satisfied. *)
LEMMA AnswersByLooking ==
  ASSUME OAuthIInv, Granted, OAuthNext, NEW c \in Challenges,
         recovery'[c].reason = "insufficient_scope", recovery'[c].at = "satisfied",
         recovery[c].at # "satisfied"
  PROVE  recovery'[c].needs \subseteq token'.grants
<1> DEFINE Goal == recovery'[c].needs \subseteq token'.grants
<1>1. ASSUME NEW d \in Challenges, NEW at, Advances(d, at), at # "satisfied" PROVE Goal
  BY <1>1, AdvancesIs DEF Advances
<1>2. ASSUME recovery' = recovery PROVE Goal
  BY <1>2
<1> HIDE DEF Goal
<1>3. ASSUME NEW d \in Challenges, NEW reason \in {"insufficient_scope", "token_expired"},
             NEW needs \in SUBSET Scopes, Challenged(d, reason, needs)
      PROVE  Goal
  <2> DEFINE at == IF reason = "insufficient_scope" /\ Satisfied(needs) THEN "satisfied" ELSE "waiting"
             r == [NoRecovery EXCEPT !.reason = reason, !.at = at, !.needs = needs]
  <2>1. recovery' = [recovery EXCEPT ![d] = r] /\ token' = token
    BY <1>3 DEF Challenged
  <2>2. r.reason = reason /\ r.at = at /\ r.needs = needs
    BY DEF NoRecovery
  <2> HIDE DEF at, r
  <2>3. d = c /\ recovery'[c] = r
    BY <2>1, TypedIs DEF Typed
  <2>4. Satisfied(needs)
    BY <2>2, <2>3 DEF at
  <2> QED BY <2>1, <2>2, <2>3, <2>4, SatisfiedIs DEF Granted, Goal
<1>4. ASSUME NEW d \in Challenges, Enter(d) PROVE Goal
  <2>1. CASE Leave(d, "satisfied") /\ recovery[d].reason = "insufficient_scope"
             /\ Satisfied(recovery[d].needs)
    <3>1. Advances(d, "satisfied") /\ token' = token
      BY <1>4, <2>1, LeaveOrGoto DEF Enter
    <3>2. d = c
      BY <3>1 DEF Advances
    <3>3. recovery'[c].needs = recovery[c].needs
      BY <3>1, <3>2, AdvancesIs
    <3>4. recovery[c].needs \in SUBSET Scopes
      BY TypedIs DEF Recovery
    <3> QED BY <2>1, <3>1, <3>2, <3>3, <3>4, SatisfiedIs DEF Granted, Goal
  <2>2. CASE Goto(d, "preparing")
    BY <1>1, <2>2, LeaveOrGoto
  <2> QED BY <1>4, <2>1, <2>2 DEF Enter
<1>5. ASSUME NEW d \in Challenges, Prepare(d) PROVE Goal
  <2>1. PICK asks, lacks, old :
          recovery' = [recovery EXCEPT ![d].at = "authorizing", ![d].asks = asks,
                                       ![d].lacks = lacks, ![d].old = old]
    BY <1>5 DEF Prepare
  <2>2. recovery'[d] = [recovery[d] EXCEPT !.at = "authorizing", !.asks = asks,
                                           !.lacks = lacks, !.old = old]
        /\ \A e \in Challenges \ {d} : recovery'[e] = recovery[e]
    BY <2>1, TypedIs DEF Typed
  <2>3. recovery'[d].at = "authorizing"
    BY <2>2, TypedIs DEF Recovery
  <2> QED BY <2>2, <2>3
<1>6. ASSUME NEW d \in Challenges, Authenticate(d) PROVE Goal
  <2> DEFINE r == [NoRecovery EXCEPT !.reason = "connect", !.at = "authorizing",
                                     !.asks = SeededScope, !.old = token.grants]
  <2>1. recovery' = [recovery EXCEPT ![d] = r]
    BY <1>6 DEF Authenticate
  <2>2. r.reason = "connect"
    BY DEF NoRecovery
  <2> HIDE DEF r
  <2>3. recovery'[d] = r /\ \A e \in Challenges \ {d} : recovery'[e] = recovery[e]
    BY <2>1, TypedIs DEF Typed
  <2> QED BY <2>2, <2>3
<1>7. ASSUME NEW d \in Challenges, AuthRedirects(d) \/ AuthThrows(d) \/ ForceRedirects(d)
                                     \/ Interactive(d) \/ Decline(d)
      PROVE  Goal
  <2>1. PICK at \in {"redirecting", "failed", "interactive", "declined"} : Leave(d, at) \/ Goto(d, at)
    BY <1>7 DEF AuthRedirects, AuthThrows, ForceRedirects, Interactive, Decline
  <2> QED BY <1>1, <2>1, LeaveOrGoto
<1>8. ASSUME NEW d \in Challenges, AuthRefreshes(d) PROVE Goal
  <2>1. CASE recovery[d].reason = "insufficient_scope"
    <3>1. Goto(d, "confirming")
      BY <1>8, <2>1 DEF AuthRefreshes
    <3> QED BY <1>1, <3>1, LeaveOrGoto
  <2>2. CASE recovery[d].reason # "insufficient_scope"
    <3>1. PICK at \in {"satisfied", "failed"} : Advances(d, at)
      BY <1>8, <2>2, LeaveOrGoto DEF AuthRefreshes
    <3>2. d # c
      BY <2>2, <3>1, AdvancesIs
    <3> QED BY <3>1, <3>2 DEF Advances
  <2> QED BY <2>1, <2>2
<1>9. ASSUME NEW d \in Challenges, Confirm(d) PROVE Goal
  <2>1. CASE Leave(d, "satisfied") /\ Satisfied(recovery[d].lacks)
    <3>1. Advances(d, "satisfied") /\ token' = token /\ recovery[d].at = "confirming"
      BY <1>9, <2>1, LeaveOrGoto DEF Confirm
    <3>2. d = c
      BY <3>1 DEF Advances
    <3>3. recovery'[c].needs = recovery[c].needs
      BY <3>1, <3>2, AdvancesIs
    <3> QED BY <2>1, <3>1, <3>2, <3>3, ConfirmedIs DEF Goal
  <2>2. CASE Goto(d, "forcing")
    BY <1>1, <2>2, LeaveOrGoto
  <2> QED BY <1>9, <2>1, <2>2 DEF Confirm
<1>10. ASSUME NEW d \in Challenges, Begin(d) PROVE Goal
  <2>1. CASE ~web
    <3>1. Goto(d, "begun")
      BY <1>10, <2>1 DEF Begin
    <3> QED BY <1>1, <3>1, LeaveOrGoto
  <2>2. CASE web
    <3>1. recovery'[c] = IF c = d THEN [recovery[d] EXCEPT !.at = "begun"]
                         ELSE IF recovery[c].at \in {"none"} \union Answered THEN recovery[c]
                         ELSE [recovery[c] EXCEPT !.at = "gone"]
      BY <1>10, <2>2 DEF Begin
    <3>2. recovery[c] \in Recovery /\ recovery[d] \in Recovery
      BY TypedIs
    <3>3. recovery'[c] # recovery[c]
      OBVIOUS
    <3>4. \/ recovery'[c] = [recovery[d] EXCEPT !.at = "begun"]
          \/ recovery'[c] = [recovery[c] EXCEPT !.at = "gone"]
      BY <3>1, <3>3
    <3>5. recovery'[c].at \in {"begun", "gone"}
      BY <3>2, <3>4 DEF Recovery
    <3> QED BY <3>5
  <2> QED BY <2>1, <2>2
<1>11. ASSUME GivenUp \/ CodeArrives \/ ExchangeSucceeds \/ ExchangeFails
              \/ StoreGrant \/ Complete \/ ClearOAuthTokens \/ OAuthTokensCleared
       PROVE  Goal
  BY <1>2, <1>11 DEF GivenUp, CodeArrives, ExchangeSucceeds, ExchangeFails, StoreGrant, Complete,
                     ClearOAuthTokens, OAuthTokensCleared
<1>12. ASSUME NEW d \in Challenges,
              \/ Enter(d) \/ Prepare(d) \/ Authenticate(d) \/ AuthRedirects(d) \/ AuthRefreshes(d)
              \/ AuthThrows(d) \/ Confirm(d) \/ ForceRedirects(d) \/ Interactive(d)
              \/ Begin(d) \/ Decline(d)
       PROVE  Goal
  BY <1>4, <1>5, <1>6, <1>7, <1>8, <1>9, <1>10, <1>12
<1>13. \/ \E d \in Challenges, reason \in {"insufficient_scope", "token_expired"}, needs \in SUBSET Scopes :
             Challenged(d, reason, needs)
       \/ \E d \in Challenges :
             \/ Enter(d) \/ Prepare(d) \/ Authenticate(d) \/ AuthRedirects(d) \/ AuthRefreshes(d)
             \/ AuthThrows(d) \/ Confirm(d) \/ ForceRedirects(d) \/ Interactive(d)
             \/ Begin(d) \/ Decline(d)
       \/ GivenUp \/ CodeArrives \/ ExchangeSucceeds \/ ExchangeFails
       \/ StoreGrant \/ Complete \/ ClearOAuthTokens \/ OAuthTokensCleared
  BY Zenon DEF OAuthNext
<1>14. Goal
  BY <1>3, <1>11, <1>12, <1>13
<1> QED BY <1>14 DEF Goal

(* A step-up is answered "satisfied" when the token grants what the server   *)
(* required, unless a completion overlapped a recovery, a login was answered *)
(* without a scope, the tokens were cleared under auth(), or a step-up was   *)
(* confirmed while the user was asked for another.                           *)
THEOREM SatisfiedMeansGranted == OAuthSpec => SatisfiedIsGranted
<1> DEFINE Answers ==
      \A c \in Challenges :
        recovery[c].reason' = "insufficient_scope" /\ recovery[c].at' = "satisfied"
          /\ recovery[c].at # "satisfied" /\ lapses' = {}
        => recovery[c].needs' \subseteq token'.grants
<1>1. OAuthIInv /\ GrantsInv /\ [OAuthNext]_oauthVars => [Answers]_oauthVars
  <2> SUFFICES ASSUME OAuthIInv, GrantsInv, OAuthNext PROVE Answers
    OBVIOUS
  <2> SUFFICES ASSUME NEW c \in Challenges, lapses' = {},
                      recovery'[c].reason = "insufficient_scope", recovery'[c].at = "satisfied",
                      recovery[c].at # "satisfied"
               PROVE  recovery'[c].needs \subseteq token'.grants
    OBVIOUS
  <2>1. lapses = {}
    BY LapsesAreNoted DEF OAuthNext
  <2> QED BY <2>1, AnswersByLooking DEF GrantsInv
<1> QED BY <1>1, OAuthStarts, OAuthSteps, GrantsStart, GrantsSteps, PTL DEF OAuthSpec, SatisfiedIsGranted
=============================================================================
