------------------------ MODULE ZohoConnection_proofs ------------------------
(* Proofs about ZohoConnection: what holds for every number of clients,    *)
(* consents, callbacks and callers, however often tokens expire.           *)
EXTENDS ZohoConnection, FiniteSetTheorems, TLAPS

Credential == [grant : Grants \cup {NoGrant}, fresh : BOOLEAN, revoked : BOOLEAN]

(* The rows, and that the three kinds of steps of a caller are told apart. *)
RowTypes ==
  /\ attempt \in [Attempts -> [status : {"NONE", "PENDING_AUTH", "AWAITING_ORGANIZATION", "CONSUMED", "EXPIRED"},
                               grant : Grants \cup {NoGrant}]]
  /\ status \in [Clients -> {"NONE", "AVAILABLE", "DISCONNECTED"}]
  /\ credential \in [Clients -> Credential]
  /\ chosen \in [Clients -> Grants \cup {NoGrant}]
  /\ DOMAIN caller = Callers /\ DOMAIN request = Requests
  /\ DOMAIN browser = Browsers
  /\ expiries \in Nat /\ refreshes \in Nat
GrantsHeld ==
  /\ live \subseteq granted /\ granted \subseteq Grants
  /\ \A r \in Browsers : browser[r].step = "granted" => browser[r].grant \in Grants
TypeInv == RowTypes /\ GrantsHeld

(* What a refresh and an expiry write is a credential.                     *)
LEMMA CredentialUpdates ==
  ASSUME NEW r \in Credential, NEW g \in Grants \cup {NoGrant}, NEW f \in BOOLEAN
  PROVE  [r EXCEPT !.fresh = f] \in Credential /\ [r EXCEPT !.grant = g] \in Credential
BY DEF Credential

(* The rows keep their types.                                              *)
LEMMA TypesKept == Spec => []TypeInv
<1>. USE ConnectionAssumption DEF Credential, stored, oauth, history
<1>1. Init => TypeInv
  BY DEF Init, TypeInv, RowTypes, GrantsHeld, Idle
<1>2. TypeInv /\ [Next]_vars => TypeInv'
  <2>. SUFFICES ASSUME TypeInv, [Next]_vars PROVE TypeInv'
    OBVIOUS
  <2>. USE DEF TypeInv, RowTypes, GrantsHeld
  <2>1. ASSUME NEW a \in Attempts, StartZohoOauth(a) PROVE TypeInv'
    BY <2>1 DEF StartZohoOauth
  <2>2. ASSUME NEW a \in Attempts, AttemptExpires(a) PROVE TypeInv'
    BY <2>2 DEF AttemptExpires
  <2>3. ASSUME NEW r \in Browsers, NEW a \in Attempts, ReadAttempt(r, a) PROVE TypeInv'
    BY <2>3 DEF ReadAttempt
  <2>4. ASSUME NEW r \in Browsers, NEW g \in Grants, ExchangeCode(r, g) PROVE TypeInv'
    BY <2>4 DEF ExchangeCode
  <2>5. ASSUME NEW r \in Browsers, ExchangeFails(r) PROVE TypeInv'
    BY <2>5 DEF ExchangeFails, Idle
  <2>6. ASSUME NEW r \in Browsers, SaveAttempt(r) PROVE TypeInv'
    BY <2>6 DEF SaveAttempt, Idle
  <2>7. ASSUME NEW a \in Attempts, NEW c \in Clients, SelectZohoOrganization(a, c) PROVE TypeInv'
    BY <2>7 DEF SelectZohoOrganization
  <2>8. ASSUME NEW u \in Callers, NEW c \in Clients, LoadClient(u, c) PROVE TypeInv'
    BY <2>8 DEF LoadClient
  <2>9. ASSUME NEW u \in Callers, DrawToken(u) PROVE TypeInv'
    BY <2>9 DEF DrawToken
  <2>10. ASSUME NEW u \in Callers, RefreshToken(u) PROVE TypeInv'
    <3>. DEFINE c == caller[u].client
                written == [credential EXCEPT ![c].grant = caller[u].grant]
    <3>1. caller[u].grant \in Grants
      BY <2>10 DEF RefreshToken
    <3>2. written \in [Clients -> Credential]
      <4>. HIDE DEF Credential
      <4>. QED BY <3>1, CredentialUpdates
    <3>3. [written EXCEPT ![c].fresh = TRUE] \in [Clients -> Credential]
      <4>. HIDE DEF Credential, written
      <4>. QED BY <3>2, CredentialUpdates
    <3>4. credential' = [written EXCEPT ![c].fresh = TRUE]
      BY <2>10 DEF RefreshToken
    <3>. QED BY <2>10, <3>3, <3>4 DEF RefreshToken
  <2>11. ASSUME NEW u \in Callers, RefreshFails(u) PROVE TypeInv'
    BY <2>11 DEF RefreshFails
  <2>12. ASSUME NEW c \in Clients, TokenExpires(c) PROVE TypeInv'
    <3>1. [credential EXCEPT ![c].fresh = FALSE] \in [Clients -> Credential]
      <4>. HIDE DEF Credential
      <4>. QED BY CredentialUpdates
    <3>. QED BY <2>12, <3>1 DEF TokenExpires
  <2>13. ASSUME NEW q \in Requests, NEW c \in Clients, RevokeGrant(q, c) PROVE TypeInv'
    BY <2>13 DEF RevokeGrant
  <2>14. ASSUME NEW q \in Requests,
                DisconnectConnector(q) \/ RevokeCredentials(q) \/ WriteDisconnection(q) \/ DisconnectFails(q)
         PROVE  TypeInv'
    BY <2>14 DEF DisconnectConnector, RevokeCredentials, WriteDisconnection, DisconnectFails
  <2>15. ASSUME NEW q \in Requests, CommitDisconnection(q) PROVE TypeInv'
    BY <2>15 DEF CommitDisconnection
  <2>16. CASE UNCHANGED vars
    BY <2>16 DEF vars
  <2>. QED
    BY <2>1, <2>2, <2>3, <2>4, <2>5, <2>6, <2>7, <2>8, <2>9, <2>10, <2>11, <2>12, <2>13,
       <2>14, <2>15, <2>16 DEF Next
<1>. QED BY <1>1, <1>2, PTL DEF Spec

(* The type invariant of the rows.                                         *)
THEOREM TypesHold == Spec => []TypeOK
<1>1. TypeInv => TypeOK
  BY DEF TypeInv, RowTypes, GrantsHeld, TypeOK, Credential
<1>. QED BY <1>1, TypesKept, PTL

(* An attempt that has connected an installation is never written again    *)
(* (save_attempt and select_zoho_organization look at its status).         *)
THEOREM ConsumedIsFinal == Spec => ConsumedForGood
<1>1. TypeInv /\ [Next]_vars
        => [\A a \in Attempts : attempt[a].status = "CONSUMED" => attempt'[a] = attempt[a]]_vars
  <2>. SUFFICES ASSUME TypeInv, Next, NEW b \in Attempts, attempt[b].status = "CONSUMED"
                PROVE  attempt'[b] = attempt[b]
    BY DEF vars
  <2>. USE DEF TypeInv, RowTypes, oauth
  <2>1. ASSUME NEW a \in Attempts, StartZohoOauth(a) \/ AttemptExpires(a) PROVE attempt'[b] = attempt[b]
    BY <2>1 DEF StartZohoOauth, AttemptExpires
  <2>2. ASSUME NEW r \in Browsers, SaveAttempt(r) PROVE attempt'[b] = attempt[b]
    BY <2>2 DEF SaveAttempt, Pending
  <2>3. ASSUME NEW a \in Attempts, NEW c \in Clients, SelectZohoOrganization(a, c)
        PROVE  attempt'[b] = attempt[b]
    BY <2>3 DEF SelectZohoOrganization
  <2>. QED
    BY <2>1, <2>2, <2>3 DEF Next, ReadAttempt, ExchangeCode, ExchangeFails, LoadClient, DrawToken,
       RefreshToken, RefreshFails, TokenExpires, RevokeGrant, DisconnectConnector,
       RevokeCredentials, WriteDisconnection, CommitDisconnection, DisconnectFails
<1>. QED BY <1>1, TypesKept, PTL DEF Spec, ConsumedForGood

-----------------------------------------------------------------------------
(* The caller that refreshes a credential has it to itself: no other one   *)
(* refreshes it, no disconnection has revoked it, and what the caller read  *)
(* of it still stands.                                                      *)
RefreshHolds(u) ==
  LET c == caller[u].client IN
  caller[u].step = "refreshing" =>
    /\ c \in Clients
    /\ caller[u].grant = credential[c].grant
    /\ ~ credential[c].fresh /\ ~ credential[c].revoked
    /\ \A q \in Requests : c \notin request[q].revoked
    /\ \A v \in Callers : caller[v].step = "refreshing" /\ caller[v].client = c => v = u

(* What a request has revoked it has yet to mark, or has marked; and where  *)
(* it found nothing to revoke, nothing is usable but what was connected     *)
(* since, between its two writes.                                           *)
Marking(q, c) == request[q].at = c /\ request[q].past
RequestHolds(q) ==
  /\ request[q].revoked \subseteq Clients /\ request[q].written \subseteq Clients
  /\ request[q].at \in Clients \cup {NoClient}
  /\ request[q].past \in BOOLEAN
  /\ request[q].at = NoClient => ~ request[q].past
  /\ \A c \in request[q].revoked : Marking(q, c) \/ c \in request[q].written
  /\ \A c \in Clients \ request[q].revoked :
       Marking(q, c) \/ c \in request[q].written => credential[c].revoked \/ c \in crossed

LockInv ==
  /\ \A u \in Callers : caller[u].step = "loaded" => caller[u].client \in Clients
  /\ \A q \in Requests : RequestHolds(q)
  /\ \A u \in Callers : RefreshHolds(u)
  /\ CredentialsAgree

(* A refresh has its credential to itself in every reachable state.        *)
LEMMA LocksKept == Spec => []LockInv
<1>. USE ConnectionAssumption DEF ConnectionAssumption, stored, oauth, history
<1>1. Init => LockInv
  <2>. SUFFICES ASSUME Init PROVE LockInv
    OBVIOUS
  <2>1. \A u \in Callers : RefreshHolds(u) /\ caller[u].step # "loaded"
    BY DEF Init, Idle, RefreshHolds
  <2>2. \A q \in Requests : RequestHolds(q)
    BY DEF Init, Resting, RequestHolds, Marking
  <2>3. CredentialsAgree
    BY DEF Init, CredentialsAgree
  <2>. QED BY <2>1, <2>2, <2>3 DEF LockInv
<1>2. TypeInv /\ LockInv /\ [Next]_vars => LockInv'
  <2>. SUFFICES ASSUME TypeInv, LockInv, [Next]_vars PROVE LockInv'
    OBVIOUS
  <2>. USE DEF TypeInv, RowTypes, Credential, LockInv, RefreshHolds, RequestHolds, Marking,
         CredentialsAgree, Idle, Resting
  <2>1. ASSUME NEW a \in Attempts, StartZohoOauth(a) \/ AttemptExpires(a) PROVE LockInv'
    BY <2>1 DEF StartZohoOauth, AttemptExpires
  <2>2. ASSUME NEW r \in Browsers, NEW a \in Attempts, ReadAttempt(r, a) PROVE LockInv'
    BY <2>2 DEF ReadAttempt
  <2>3. ASSUME NEW r \in Browsers, NEW g \in Grants, ExchangeCode(r, g) PROVE LockInv'
    BY <2>3 DEF ExchangeCode
  <2>4. ASSUME NEW r \in Browsers, ExchangeFails(r) \/ SaveAttempt(r) PROVE LockInv'
    BY <2>4 DEF ExchangeFails, SaveAttempt
  <2>5. ASSUME NEW a \in Attempts, NEW c \in Clients, SelectZohoOrganization(a, c) PROVE LockInv'
    BY <2>5 DEF SelectZohoOrganization, Locked, Refreshing, Held, PastEmpty
  <2>6. ASSUME NEW u \in Callers, NEW c \in Clients, LoadClient(u, c) PROVE LockInv'
    BY <2>6 DEF LoadClient
  <2>7. ASSUME NEW u \in Callers, DrawToken(u) PROVE LockInv'
    BY <2>7 DEF DrawToken, Needed, Locked, Refreshing
  <2>8. ASSUME NEW u \in Callers, RefreshToken(u) PROVE LockInv'
    BY <2>8 DEF RefreshToken
  <2>9. ASSUME NEW u \in Callers, RefreshFails(u) PROVE LockInv'
    BY <2>9 DEF RefreshFails
  <2>10. ASSUME NEW c \in Clients, TokenExpires(c) PROVE LockInv'
    BY <2>10 DEF TokenExpires, Locked, Refreshing
  <2>11. ASSUME NEW q \in Requests, NEW c \in Clients, RevokeGrant(q, c) PROVE LockInv'
    BY <2>11 DEF RevokeGrant
  <2>12. ASSUME NEW q \in Requests, DisconnectConnector(q) PROVE LockInv'
    BY <2>12 DEF DisconnectConnector, Disconnecting
  <2>13. ASSUME NEW q \in Requests, RevokeCredentials(q) PROVE LockInv'
    <3>. USE <2>13 DEF RevokeCredentials, Locked, Refreshing
    <3>1. \A u \in Callers : caller'[u].step = "loaded" => caller'[u].client \in Clients
      OBVIOUS
    <3>2. \A u \in Callers : RefreshHolds(u)'
      OBVIOUS
    <3>3. RequestHolds(q)'
      OBVIOUS
    <3>4. ASSUME NEW p \in Requests, p # q PROVE RequestHolds(p)'
      BY <3>4
    <3>5. CredentialsAgree'
      OBVIOUS
    <3>6. \A p \in Requests : RequestHolds(p)'
      BY <3>3, <3>4, Zenon
    <3>. QED BY <3>1, <3>2, <3>5, <3>6, Zenon DEF LockInv
  <2>14. ASSUME NEW q \in Requests, WriteDisconnection(q) PROVE LockInv'
    <3>. USE <2>14 DEF WriteDisconnection, Held
    <3>1. \A u \in Callers : caller'[u].step = "loaded" => caller'[u].client \in Clients
      OBVIOUS
    <3>2. \A u \in Callers : RefreshHolds(u)'
      OBVIOUS
    <3>3. RequestHolds(q)'
      OBVIOUS
    <3>4. ASSUME NEW p \in Requests, p # q PROVE RequestHolds(p)'
      BY <3>4
    <3>5. CredentialsAgree'
      OBVIOUS
    <3>6. \A p \in Requests : RequestHolds(p)'
      BY <3>3, <3>4, Zenon
    <3>. QED BY <3>1, <3>2, <3>5, <3>6, Zenon DEF LockInv
  <2>15. ASSUME NEW q \in Requests, CommitDisconnection(q) PROVE LockInv'
    <3>. USE <2>15 DEF CommitDisconnection
    <3>1. \A u \in Callers : caller'[u].step = "loaded" => caller'[u].client \in Clients
      OBVIOUS
    <3>2. \A u \in Callers : RefreshHolds(u)'
      OBVIOUS
    <3>3. RequestHolds(q)'
      OBVIOUS
    <3>4. ASSUME NEW p \in Requests, p # q PROVE RequestHolds(p)'
      <4>1. request'[p] = request[p] /\ crossed' = crossed
        BY <3>4
      <4>2. \A c \in Clients : credential[c].revoked => credential'[c].revoked
        OBVIOUS
      <4>. QED BY <4>1, <4>2
    <3>5. CredentialsAgree'
      OBVIOUS
    <3>6. \A p \in Requests : RequestHolds(p)'
      BY <3>3, <3>4, Zenon
    <3>. QED BY <3>1, <3>2, <3>5, <3>6, Zenon DEF LockInv
  <2>17. ASSUME NEW q \in Requests, DisconnectFails(q) PROVE LockInv'
    BY <2>17 DEF DisconnectFails
  <2>16. CASE UNCHANGED vars
    BY <2>16 DEF vars
  <2>. QED
    BY <2>1, <2>2, <2>3, <2>4, <2>5, <2>6, <2>7, <2>8, <2>9, <2>10, <2>11, <2>12, <2>13, <2>14, <2>15, <2>16, <2>17 DEF Next
<1>. QED BY <1>1, <1>2, TypesKept, PTL DEF Spec

(* An AVAILABLE installation has a usable credential, one that is not has   *)
(* none but what was connected between the two writes of an overlapping     *)
(* disconnection, and the credential is the one last chosen, whatever       *)
(* refreshes, reconnections and disconnections overlap (access_token,       *)
(* disconnect).                                                             *)
THEOREM CredentialsAlwaysAgree == Spec => []CredentialsAgree
<1>1. LockInv => CredentialsAgree
  BY DEF LockInv
<1>. QED BY <1>1, LocksKept, PTL
-----------------------------------------------------------------------------
(* Usable credentials whose token has expired: each is paid for by an       *)
(* expiry that no refresh has answered yet.                                 *)
Awaiting == {c \in Clients : ~ credential[c].fresh /\ ~ credential[c].revoked}
CountInv == refreshes + Cardinality(Awaiting) <= expiries

(* What awaits a refresh is a finite set of clients.                        *)
LEMMA AwaitingFinite == IsFiniteSet(Awaiting) /\ Cardinality(Awaiting) \in Nat
BY ConnectionAssumption, FS_Subset, FS_CardinalityType DEF Awaiting

(* Callers get at most one new token per token that expired, however many   *)
(* of them find it expired (access_token: the decision is made after the    *)
(* lock).                                                                   *)
THEOREM OneRefreshPerExpiry == Spec => []RefreshedOnce
<1>. USE ConnectionAssumption DEF stored, oauth, history
<1>1. Init => CountInv
  <2>. SUFFICES ASSUME Init PROVE CountInv
    OBVIOUS
  <2>1. Awaiting = {}
    BY DEF Init, Awaiting
  <2>. QED BY <2>1, FS_EmptySet DEF Init, CountInv
<1>2. TypeInv /\ LockInv /\ CountInv /\ [Next]_vars => CountInv'
  <2>. SUFFICES ASSUME TypeInv, LockInv, CountInv, [Next]_vars PROVE CountInv'
    OBVIOUS
  <2>. USE DEF TypeInv, RowTypes
  <2>1. ASSUME Awaiting' \subseteq Awaiting, expiries' = expiries, refreshes' = refreshes
        PROVE  CountInv'
    <3>1. Cardinality(Awaiting') <= Cardinality(Awaiting) /\ Cardinality(Awaiting') \in Nat
      BY <2>1, AwaitingFinite, FS_Subset, FS_CardinalityType
    <3>. QED BY <2>1, <3>1, AwaitingFinite DEF CountInv
  <2>2. ASSUME NEW a \in Attempts, NEW c \in Clients, SelectZohoOrganization(a, c) PROVE CountInv'
    <3>1. Awaiting' \subseteq Awaiting
      BY <2>2 DEF SelectZohoOrganization, Awaiting
    <3>. QED BY <2>1, <2>2, <3>1 DEF SelectZohoOrganization
  <2>3. ASSUME NEW u \in Callers, RefreshToken(u) PROVE CountInv'
    <3>. DEFINE c == caller[u].client
    <3>1. c \in Clients /\ ~ credential[c].fresh /\ ~ credential[c].revoked
      BY <2>3 DEF LockInv, RefreshHolds, RefreshToken
    <3>2. c \in Awaiting
      BY <3>1 DEF Awaiting
    <3>3. credential'[c].fresh
      BY <2>3, <3>1 DEF RefreshToken, Credential
    <3>4. \A d \in Clients \ {c} : credential'[d] = credential[d]
      BY <2>3, <3>1 DEF RefreshToken
    <3>5. Awaiting' = Awaiting \ {c}
      BY <3>2, <3>3, <3>4 DEF Awaiting
    <3>6. Cardinality(Awaiting \ {c}) = Cardinality(Awaiting) - 1
      <4>. HIDE DEF c
      <4>. QED BY <3>2, AwaitingFinite, FS_RemoveElement
    <3>. QED BY <2>3, <3>5, <3>6, AwaitingFinite DEF RefreshToken, CountInv
  <2>4. ASSUME NEW c \in Clients, TokenExpires(c) PROVE CountInv'
    <3>1. c \notin Awaiting
      BY <2>4 DEF TokenExpires, Awaiting
    <3>2. Awaiting' \subseteq Awaiting \cup {c}
      BY <2>4 DEF TokenExpires, Awaiting
    <3>3. IsFiniteSet(Awaiting \cup {c}) /\ Cardinality(Awaiting \cup {c}) = Cardinality(Awaiting) + 1
      BY <3>1, AwaitingFinite, FS_AddElement
    <3>4. Cardinality(Awaiting') <= Cardinality(Awaiting) + 1 /\ Cardinality(Awaiting') \in Nat
      BY <3>2, <3>3, FS_Subset, FS_CardinalityType
    <3>. QED BY <2>4, <3>4, AwaitingFinite DEF TokenExpires, CountInv
  <2>5. ASSUME NEW q \in Requests, CommitDisconnection(q) PROVE CountInv'
    <3>1. Awaiting' \subseteq Awaiting
      BY <2>5 DEF CommitDisconnection, Awaiting, Credential
    <3>. QED BY <2>1, <2>5, <3>1 DEF CommitDisconnection
  <2>6. CASE credential' = credential /\ expiries' = expiries /\ refreshes' = refreshes
    <3>1. Awaiting' \subseteq Awaiting
      BY <2>6 DEF Awaiting
    <3>. QED BY <2>1, <2>6, <3>1
  <2>. QED
    BY <2>2, <2>3, <2>4, <2>5, <2>6 DEF Next, vars, StartZohoOauth, AttemptExpires, ReadAttempt,
       ExchangeCode, ExchangeFails, SaveAttempt, LoadClient, DrawToken, RefreshFails, RevokeGrant,
       DisconnectConnector, RevokeCredentials, WriteDisconnection, DisconnectFails
<1>3. CountInv /\ TypeInv => RefreshedOnce
  BY AwaitingFinite DEF CountInv, RefreshedOnce, TypeInv, RowTypes
<1>. QED BY <1>1, <1>2, <1>3, TypesKept, LocksKept, PTL DEF Spec
=============================================================================
