---------------------------- MODULE ZohoConnection ----------------------------
(***************************************************************************)
(* How a firm connects Zoho Books: OAuth attempts, the credential of each  *)
(* client's installation, the access tokens that workers and requests draw *)
(* from it, and disconnection, which revokes at the provider before it     *)
(* writes.  A row that a transaction has written or locked is locked until *)
(* the transaction ends.                                                   *)
(***************************************************************************)
EXTENDS FiniteSets, Naturals

CONSTANTS
  Clients,    \* each has one installation
  Attempts,   \* rows of oauth_connection_attempts
  Browsers,   \* callbacks under way at one time
  Callers,    \* workers and requests that call the provider
  Requests,   \* requests that disconnect
  Grants,     \* what the provider may grant: a refresh token each
  MaxExpiries,\* bound of the model: access tokens that expire
  NoClient, NoGrant

ASSUME ConnectionAssumption ==
  /\ IsFiniteSet(Clients)
  /\ MaxExpiries \in Nat
  /\ NoClient \notin Clients /\ NoGrant \notin Grants

VARIABLES
  attempt,    \* status, and the grant it holds while a client is chosen
  browser,    \* what each callback has read and been granted
  live,       \* grants that the provider still honours
  granted,    \* history: every grant the provider has made
  status,     \* connector_installations.status
  credential, \* connector_credentials: the grant, and its access token's age
  caller,     \* what each caller does
  request,    \* what each request that disconnects has done
  chosen,     \* history: the grant last chosen for each client
  crossed,    \* history: clients whose last choice fell between the two
              \*   writes of a disconnection that found nothing to revoke
  expiries, refreshes \* history

stored == <<status, credential>>
oauth == <<attempt, browser>>
history == <<chosen, crossed, expiries, refreshes>>
vars == <<oauth, live, granted, stored, caller, request, history>>

Idle == [step |-> "idle"]
Resting == [todo |-> {}, at |-> NoClient, past |-> FALSE, revoked |-> {}, written |-> {}]

Init ==
  /\ attempt = [a \in Attempts |-> [status |-> "NONE", grant |-> NoGrant]]
  /\ browser = [r \in Browsers |-> Idle]
  /\ live = {} /\ granted = {}
  /\ status = [c \in Clients |-> "NONE"]
  /\ credential = [c \in Clients |->
                     [grant |-> NoGrant, fresh |-> FALSE, revoked |-> TRUE]]
  /\ caller = [u \in Callers |-> Idle]
  /\ request = [q \in Requests |-> Resting]
  /\ chosen = [c \in Clients |-> NoGrant] /\ crossed = {}
  /\ expiries = 0 /\ refreshes = 0
-----------------------------------------------------------------------------
StartZohoOauth(a) ==
  /\ attempt[a].status = "NONE"
  /\ attempt' = [attempt EXCEPT ![a].status = "PENDING_AUTH"]
  /\ UNCHANGED <<browser, live, granted, stored, caller, request, history>>

(* Ten minutes, or thirty to choose; an expired row keeps its tokens.      *)
AttemptExpires(a) ==
  /\ attempt[a].status \in {"PENDING_AUTH", "AWAITING_ORGANIZATION"}
  /\ attempt' = [attempt EXCEPT ![a].status = "EXPIRED"]
  /\ UNCHANGED <<browser, live, granted, stored, caller, request, history>>

(* Two callbacks may both find the attempt pending.                        *)
ReadAttempt(r, a) ==
  /\ browser[r] = Idle
  /\ attempt[a].status = "PENDING_AUTH"
  /\ browser' = [browser EXCEPT ![r] = [step |-> "read", attempt |-> a]]
  /\ UNCHANGED <<attempt, live, granted, stored, caller, request, history>>

ExchangeCode(r, g) ==
  /\ browser[r].step = "read"
  /\ g \notin granted
  /\ browser' = [browser EXCEPT ![r] = [step |-> "granted", attempt |-> @.attempt, grant |-> g]]
  /\ live' = live \cup {g} /\ granted' = granted \cup {g}
  /\ UNCHANGED <<attempt, stored, caller, request, history>>

ExchangeFails(r) ==
  /\ browser[r] # Idle
  /\ browser' = [browser EXCEPT ![r] = Idle]
  /\ UNCHANGED <<attempt, live, granted, stored, caller, request, history>>

(* The grant of a callback that comes second is dropped, and stays live at *)
(* the provider.  AnyStatus is the slip that saves it.                     *)
AnyStatus(a) == TRUE
Pending(a) == attempt[a].status = "PENDING_AUTH"
SaveAttempt(r) ==
  /\ browser[r].step = "granted"
  /\ attempt' = IF Pending(browser[r].attempt)
                THEN [attempt EXCEPT ![browser[r].attempt] =
                        [status |-> "AWAITING_ORGANIZATION", grant |-> browser[r].grant]]
                ELSE attempt
  /\ browser' = [browser EXCEPT ![r] = Idle]
  /\ UNCHANGED <<live, granted, stored, caller, request, history>>
-----------------------------------------------------------------------------
(* The row of a credential is locked by a caller that refreshes it and by  *)
(* a request that has revoked it, the row of an installation by a request  *)
(* that has written its status.  Unlocked is a SELECT without FOR UPDATE.  *)
Unlocked(c) == FALSE
Refreshing(c) == \E u \in Callers : caller[u].step = "refreshing" /\ caller[u].client = c
Locked(c) == Refreshing(c) \/ \E q \in Requests : c \in request[q].revoked
Held(c) == \E q \in Requests : c \in request[q].written

(* A request is past the revocation of c, which found it revoked already.  *)
PastEmpty(q, c) == request[q].at = c /\ request[q].past /\ c \notin request[q].revoked

(* Connects or reconnects.  The grant that a reconnection replaces is not  *)
(* revoked.                                                                *)
SelectZohoOrganization(a, c) ==
  /\ attempt[a].status = "AWAITING_ORGANIZATION"
  /\ ~ Locked(c) /\ ~ Held(c)
  /\ status' = [status EXCEPT ![c] = "AVAILABLE"]
  /\ credential' = [credential EXCEPT ![c] =
       [grant |-> attempt[a].grant, fresh |-> TRUE, revoked |-> FALSE]]
  /\ attempt' = [attempt EXCEPT ![a] = [status |-> "CONSUMED", grant |-> NoGrant]]
  /\ chosen' = [chosen EXCEPT ![c] = attempt[a].grant]
  /\ crossed' = IF \E q \in Requests : PastEmpty(q, c) THEN crossed \cup {c} ELSE crossed \ {c}
  /\ UNCHANGED <<browser, live, granted, caller, request, expiries, refreshes>>

(* client() reads the installation before it asks for a token.             *)
LoadClient(u, c) ==
  /\ caller[u] = Idle
  /\ ~ credential[c].revoked
  /\ caller' = [caller EXCEPT ![u] = [step |-> "loaded", client |-> c, fresh |-> credential[c].fresh]]
  /\ UNCHANGED <<oauth, live, granted, stored, request, history>>

(* The advisory lock and the row's lock, and only then the decision.       *)
NeededWhenLoaded(u, c) == ~ caller[u].fresh
Needed(u, c) == ~ credential[c].fresh
DrawToken(u) ==
  /\ caller[u].step = "loaded"
  /\ ~ Locked(caller[u].client)
  /\ LET c == caller[u].client
     IN caller' = [caller EXCEPT ![u] =
          IF credential[c].revoked \/ ~ Needed(u, c) THEN Idle
          ELSE [step |-> "refreshing", client |-> c, grant |-> credential[c].grant]]
  /\ UNCHANGED <<oauth, live, granted, stored, request, history>>

(* The envelope that is written holds the refresh token that was read.     *)
RefreshToken(u) ==
  /\ caller[u].step = "refreshing"
  /\ caller[u].grant \in live
  /\ credential' = [credential EXCEPT ![caller[u].client].grant = caller[u].grant,
                                      ![caller[u].client].fresh = TRUE]
  /\ refreshes' = refreshes + 1
  /\ caller' = [caller EXCEPT ![u] = Idle]
  /\ UNCHANGED <<oauth, live, granted, status, request, chosen, crossed, expiries>>

(* Refused, unreachable, or the caller dies: the transaction rolls back.   *)
RefreshFails(u) ==
  /\ caller[u].step = "refreshing"
  /\ caller' = [caller EXCEPT ![u] = Idle]
  /\ UNCHANGED <<oauth, live, granted, stored, request, history>>

TokenExpires(c) ==
  /\ expiries < MaxExpiries
  /\ credential[c].fresh
  /\ credential' = [credential EXCEPT ![c].fresh = FALSE]
  /\ expiries' = expiries + 1
  /\ UNCHANGED <<oauth, live, granted, status, caller, request, chosen, crossed, refreshes>>
-----------------------------------------------------------------------------
Disconnecting(q) == request[q] # Resting

DisconnectConnector(q) ==
  /\ ~ Disconnecting(q)
  /\ \E c \in Clients : status[c] = "AVAILABLE"
  /\ request' = [request EXCEPT ![q].todo = {c \in Clients : status[c] = "AVAILABLE"}]
  /\ UNCHANGED <<oauth, live, granted, stored, caller, history>>

(* Loads the credential of the next installation and asks the provider to  *)
(* revoke its grant, whether or not that succeeds.                         *)
RevokeGrant(q, c) ==
  /\ c \in request[q].todo /\ request[q].at = NoClient
  /\ ~ credential[c].revoked
  /\ live' \in {live, live \ {credential[c].grant}}
  /\ request' = [request EXCEPT ![q].todo = @ \ {c}, ![q].at = c]
  /\ UNCHANGED <<oauth, granted, stored, caller, history>>

(* Waits for the row and revokes what it holds by then, unless another     *)
(* request has: then it matches no row, and locks none.                    *)
RevokeCredentials(q) ==
  /\ request[q].at # NoClient /\ ~ request[q].past
  /\ ~ Locked(request[q].at)
  /\ request' = [request EXCEPT ![q].past = TRUE,
       ![q].revoked = IF credential[request[q].at].revoked THEN @ ELSE @ \cup {request[q].at}]
  /\ UNCHANGED <<oauth, live, granted, stored, caller, history>>

(* The status is written whatever the revocation found.                    *)
WriteDisconnection(q) ==
  /\ request[q].past /\ ~ Held(request[q].at)
  /\ request' = [request EXCEPT ![q].at = NoClient, ![q].past = FALSE,
                                ![q].written = @ \cup {request[q].at}]
  /\ UNCHANGED <<oauth, live, granted, stored, caller, history>>

CommitDisconnection(q) ==
  /\ Disconnecting(q) /\ request[q].todo = {} /\ request[q].at = NoClient
  /\ status' = [c \in Clients |-> IF c \in request[q].written THEN "DISCONNECTED" ELSE status[c]]
  /\ credential' = [c \in Clients |->
       IF c \in request[q].revoked THEN [credential[c] EXCEPT !.revoked = TRUE] ELSE credential[c]]
  /\ request' = [request EXCEPT ![q] = Resting]
  /\ UNCHANGED <<oauth, live, granted, caller, history>>

(* One installation of several fails, or two requests wait for each other: *)
(* every local write of the request rolls back.                            *)
DisconnectFails(q) ==
  /\ Disconnecting(q)
  /\ request' = [request EXCEPT ![q] = Resting]
  /\ UNCHANGED <<oauth, live, granted, stored, caller, history>>
-----------------------------------------------------------------------------
Next ==
  \/ \E a \in Attempts : StartZohoOauth(a) \/ AttemptExpires(a)
  \/ \E r \in Browsers, a \in Attempts : ReadAttempt(r, a)
  \/ \E r \in Browsers, g \in Grants : ExchangeCode(r, g)
  \/ \E r \in Browsers : ExchangeFails(r) \/ SaveAttempt(r)
  \/ \E a \in Attempts, c \in Clients : SelectZohoOrganization(a, c)
  \/ \E u \in Callers, c \in Clients : LoadClient(u, c)
  \/ \E u \in Callers : DrawToken(u) \/ RefreshToken(u) \/ RefreshFails(u)
  \/ \E c \in Clients : TokenExpires(c)
  \/ \E q \in Requests, c \in Clients : RevokeGrant(q, c)
  \/ \E q \in Requests : \/ DisconnectConnector(q) \/ RevokeCredentials(q) \/ WriteDisconnection(q)
                         \/ CommitDisconnection(q) \/ DisconnectFails(q)

Spec == Init /\ [][Next]_vars
-----------------------------------------------------------------------------
TypeOK ==
  /\ \A a \in Attempts :
       /\ attempt[a].status \in {"NONE", "PENDING_AUTH", "AWAITING_ORGANIZATION", "CONSUMED", "EXPIRED"}
       /\ attempt[a].grant \in Grants \cup {NoGrant}
  /\ live \subseteq granted /\ granted \subseteq Grants
  /\ status \in [Clients -> {"NONE", "AVAILABLE", "DISCONNECTED"}]
  /\ credential \in [Clients -> [grant : Grants \cup {NoGrant}, fresh : BOOLEAN, revoked : BOOLEAN]]
  /\ chosen \in [Clients -> Grants \cup {NoGrant}]

(* One consent connects one installation: no replayed or late callback     *)
(* makes a consumed attempt usable again.                                  *)
ConsumedForGood ==
  [][\A a \in Attempts : attempt[a].status = "CONSUMED" => attempt'[a] = attempt[a]]_vars

(* An installation that is AVAILABLE has a usable credential, and one that *)
(* is not has none, unless it was connected between the two writes of a    *)
(* disconnection that found the credential revoked by another one; and the *)
(* credential is the one last chosen: a refresh that overlaps a            *)
(* reconnection does not bring back the one before.                        *)
CredentialsAgree ==
  \A c \in Clients :
    /\ status[c] = "AVAILABLE" => ~ credential[c].revoked
    /\ ~ credential[c].revoked => status[c] = "AVAILABLE" \/ c \in crossed
    /\ credential[c].grant = chosen[c]

(* Callers that find one token expired get one new token from the          *)
(* provider; requests that failed or were rolled back are not counted.     *)
RefreshedOnce == refreshes <= expiries
=============================================================================
