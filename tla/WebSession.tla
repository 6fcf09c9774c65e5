------------------------------ MODULE WebSession ------------------------------
(***************************************************************************)
(* One tab of the web application and the session it keeps in local        *)
(* storage: what it shows as signed in, the single renewal that all calls  *)
(* answered 401 wait for, and signing out at the server in the background. *)
(* Sign-outs and resets elsewhere make its tokens void.  Several tabs, and *)
(* the thirty days a refresh token lasts, are left out.                    *)
(***************************************************************************)
EXTENDS Naturals

CONSTANTS
  Calls, None,
  MaxVoids,   \* BOUND: sign-outs and resets, here and elsewhere
  MaxSteps    \* BOUND: what the user, the clock and the network do

VARIABLES
  server,    \* tokenVersion of the credential, sessionVersion of the user
  stored,    \* localStorage: bcc_access_token, bcc_refresh_token, bcc_identity
  shown,     \* AuthProvider: there is an identity
  page,      \* "closed", "opening" or "ready"
  flow,      \* init, login and refreshIdentity of AuthProvider
  renewal,   \* api.ts: refreshInFlight
  call,      \* apiFetch
  farewell,  \* revokeServerSideSession
  steps,
  overtaken  \* the storage was cleared while a flow was under way

client == <<stored, shown, page>>
vars == <<server, client, flow, renewal, call, farewell, steps, overtaken>>

-----------------------------------------------------------------------------
Flows == {"init", "login", "reread"}
Idle == [at |-> "idle", token |-> None, refresh |-> None]
Quiet == [at |-> "idle", token |-> None, retried |-> FALSE]
Nothing == [access |-> None, refresh |-> None, identity |-> FALSE]

TypeOK ==
  /\ server \in [refresh : Nat, session : Nat]
  /\ shown \in BOOLEAN /\ page \in {"closed", "opening", "ready"} /\ overtaken \in BOOLEAN
  /\ \A k \in Flows : flow[k].at \in {"idle", "renew", "ask", "me"}
  /\ \A c \in Calls : call[c].at \in {"idle", "sent", "waiting"}

NewAccess == [session |-> server.session, fresh |-> TRUE]
Fresh(token) == token # None /\ token.fresh

(* getCallerIdentity and refresh.                                          *)
Accepts(token) == Fresh(token) /\ token.session = server.session
Renews(refresh) == refresh = server.refresh

Step == steps < MaxSteps /\ steps' = steps + 1

(* The storage is cleared and nobody shown, by a flow or by none.          *)
SignOut(by) ==
  /\ stored' = Nothing /\ shown' = FALSE /\ page' = "ready"
  /\ overtaken' = \E k \in Flows \ {by} : flow[k] # Idle

-----------------------------------------------------------------------------
(* init: a fresh token and a cached identity need no call.                 *)
Open ==
  /\ page = "closed" /\ Step
  /\ \/ /\ Fresh(stored.access) /\ stored.identity
        /\ shown' = TRUE /\ page' = "ready"
        /\ UNCHANGED <<stored, flow, overtaken>>
     \/ /\ ~(Fresh(stored.access) /\ stored.identity) /\ stored.refresh # None
        /\ flow' = [flow EXCEPT !["init"] = [Idle EXCEPT !.at = "renew", !.refresh = stored.refresh]]
        /\ page' = "opening"
        /\ UNCHANGED <<stored, shown, overtaken>>
     \/ /\ ~(Fresh(stored.access) /\ stored.identity) /\ stored.refresh = None
        /\ SignOut("init") /\ UNCHANGED flow
  /\ UNCHANGED <<server, renewal, call, farewell>>

InitFails ==
  /\ SignOut("init") /\ flow' = [flow EXCEPT !["init"] = Idle]
  /\ UNCHANGED <<server, renewal, call, farewell>>

InitRenewed ==
  /\ flow["init"].at = "renew"
  /\ \/ /\ Renews(flow["init"].refresh)
        /\ stored' = [stored EXCEPT !.access = NewAccess]
        /\ flow' = [flow EXCEPT !["init"] = [Idle EXCEPT !.at = "me", !.token = NewAccess]]
        /\ UNCHANGED <<server, shown, page, renewal, call, farewell, steps, overtaken>>
     \/ ~Renews(flow["init"].refresh) /\ InitFails /\ UNCHANGED steps
     \/ Step /\ InitFails

(* The answer of /api/me is the identity shown and stored; a login asks    *)
(* with the token it was given, whatever happened meanwhile.               *)
Me(k) ==
  /\ flow[k].at = "me"
  /\ \/ /\ Accepts(flow[k].token)
        /\ stored' = [stored EXCEPT !.identity = TRUE]
        /\ shown' = TRUE
        /\ page' = IF k = "reread" THEN page ELSE "ready"
        /\ flow' = [flow EXCEPT ![k] = Idle]
        /\ UNCHANGED <<server, renewal, call, farewell, steps, overtaken>>
     \/ k = "init" /\ ~Accepts(flow[k].token) /\ InitFails /\ UNCHANGED steps
     \/ k = "init" /\ Step /\ InitFails
     \/ /\ k # "init" /\ flow' = [flow EXCEPT ![k] = Idle]
        /\ (~Accepts(flow[k].token) /\ UNCHANGED steps) \/ Step
        /\ UNCHANGED <<server, client, renewal, call, farewell, overtaken>>

Login ==
  /\ page = "ready" /\ ~shown /\ flow["login"] = Idle /\ Step
  /\ flow' = [flow EXCEPT !["login"] = [Idle EXCEPT !.at = "ask"]]
  /\ UNCHANGED <<server, client, renewal, call, farewell, overtaken>>

LoggedIn ==
  /\ flow["login"].at = "ask"
  /\ stored' = [stored EXCEPT !.access = NewAccess, !.refresh = server.refresh]
  /\ flow' = [flow EXCEPT !["login"] = [Idle EXCEPT !.at = "me", !.token = NewAccess]]
  /\ UNCHANGED <<server, shown, page, renewal, call, farewell, steps, overtaken>>

(* refreshIdentity, after a profile was saved.                             *)
Reread ==
  /\ page = "ready" /\ shown /\ stored.access # None /\ flow["reread"] = Idle /\ Step
  /\ flow' = [flow EXCEPT !["reread"] = [Idle EXCEPT !.at = "me", !.token = stored.access]]
  /\ UNCHANGED <<server, client, renewal, call, farewell, overtaken>>

-----------------------------------------------------------------------------
(* apiFetch: a call answered 401 is sent again once, after a renewal; any  *)
(* other answer, or none, is the end of it.                                *)
Send(c) ==
  /\ page # "closed" /\ call[c] = Quiet /\ Step
  /\ call' = [call EXCEPT ![c] = [Quiet EXCEPT !.at = "sent", !.token = stored.access]]
  /\ UNCHANGED <<server, client, flow, renewal, farewell, overtaken>>

Answered(c) ==
  /\ call[c].at = "sent"
  /\ call' = [call EXCEPT ![c] = Quiet]
  /\ UNCHANGED <<server, client, flow, renewal, farewell, steps, overtaken>>

Refused(c) ==
  /\ call[c].at = "sent" /\ ~Accepts(call[c].token) /\ ~call[c].retried /\ stored.refresh # None
  /\ call' = [call EXCEPT ![c].at = "waiting"]
  /\ renewal' = IF renewal = Idle
                THEN [Idle EXCEPT !.at = "renew", !.refresh = stored.refresh] ELSE renewal
  /\ UNCHANGED <<server, client, flow, farewell, steps, overtaken>>

(* The token is stored before the callers that wait read the storage.      *)
Renewed ==
  /\ renewal # Idle /\ Renews(renewal.refresh)
  /\ stored' = [stored EXCEPT !.access = NewAccess]
  /\ call' = [c \in Calls |->
       IF call[c].at = "waiting"
       THEN [at |-> "sent", token |-> NewAccess, retried |-> TRUE] ELSE call[c]]
  /\ renewal' = Idle
  /\ UNCHANGED <<server, shown, page, flow, farewell, steps, overtaken>>

(* Mutant: the storage is cleared and nobody is told (bcc:auth-expired).   *)
ExpireUnheard ==
  stored' = Nothing /\ UNCHANGED <<shown, page, overtaken>>

(* bcc:auth-expired: AuthProvider signs out; there is nothing to revoke.   *)
Expire == SignOut(None)

RenewalFails ==
  /\ renewal # Idle
  /\ (~Renews(renewal.refresh) /\ UNCHANGED steps) \/ Step
  /\ Expire
  /\ call' = [c \in Calls |-> IF call[c].at = "waiting" THEN Quiet ELSE call[c]]
  /\ renewal' = Idle
  /\ UNCHANGED <<server, flow, farewell>>

-----------------------------------------------------------------------------
(* logout: the page forgets at once; the server is told in the background, *)
(* with a new access token if the old one is stale.                        *)
Logout ==
  /\ page = "ready" /\ shown /\ farewell = Idle /\ Step
  /\ SignOut(None)
  /\ farewell' = [at |-> IF Fresh(stored.access) THEN "revoke" ELSE "mint",
                  token |-> stored.access, refresh |-> stored.refresh]
  /\ UNCHANGED <<server, flow, renewal, call>>

Mint ==
  /\ farewell.at = "mint"
  /\ farewell' = IF farewell.refresh # None /\ Renews(farewell.refresh)
                 THEN [farewell EXCEPT !.at = "revoke", !.token = NewAccess] ELSE Idle
  /\ UNCHANGED <<server, client, flow, renewal, call, steps, overtaken>>

(* The tokens of the account are void; the session may survive.            *)
Voids ==
  /\ server.refresh < MaxVoids
  /\ \E s \in {server.session, server.session + 1} :
       server' = [refresh |-> server.refresh + 1, session |-> s]

Revoke ==
  /\ farewell.at = "revoke"
  /\ (Accepts(farewell.token) /\ Voids) \/ UNCHANGED server
  /\ farewell' = Idle
  /\ UNCHANGED <<client, flow, renewal, call, steps, overtaken>>

Elsewhere ==
  /\ Step /\ Voids
  /\ UNCHANGED <<client, flow, renewal, call, farewell, overtaken>>

(* An hour passes.                                                         *)
Ages ==
  /\ Fresh(stored.access) /\ Step
  /\ stored' = [stored EXCEPT !.access.fresh = FALSE]
  /\ UNCHANGED <<server, shown, page, flow, renewal, call, farewell, overtaken>>

(* The tab is closed or reloaded: only the storage is left.                *)
Close ==
  /\ page # "closed" /\ Step
  /\ page' = "closed" /\ shown' = FALSE
  /\ flow' = [k \in Flows |-> Idle] /\ renewal' = Idle /\ farewell' = Idle
  /\ call' = [c \in Calls |-> Quiet]
  /\ UNCHANGED <<server, stored, overtaken>>

AtRest ==
  /\ renewal = Idle /\ farewell = Idle
  /\ \A k \in Flows : flow[k] = Idle
  /\ \A c \in Calls : call[c] = Quiet

Init ==
  /\ server = [refresh |-> 0, session |-> 0]
  /\ stored \in {Nothing} \union
       {[access |-> [session |-> 0, fresh |-> f], refresh |-> 0, identity |-> TRUE] :
          f \in BOOLEAN}
  /\ shown = FALSE /\ page = "closed"
  /\ flow = [k \in Flows |-> Idle] /\ renewal = Idle /\ farewell = Idle
  /\ call = [c \in Calls |-> Quiet]
  /\ steps = 0 /\ overtaken = FALSE

Next ==
  \/ Open \/ InitRenewed \/ Login \/ LoggedIn \/ Reread \/ Logout
  \/ \E k \in Flows : Me(k)
  \/ \E c \in Calls : Send(c) \/ Answered(c) \/ Refused(c)
  \/ Renewed \/ RenewalFails \/ Mint \/ Revoke \/ Elsewhere \/ Ages \/ Close
  \/ AtRest /\ UNCHANGED vars

Spec == Init /\ [][Next]_vars

-----------------------------------------------------------------------------
(* Who is shown as signed in can renew the session, and the profile that   *)
(* is shown is the one stored (refreshAccessToken, AuthProvider).  A read  *)
(* of the profile that a sign-out overtakes brings the identity back, and  *)
(* is left out.                                                            *)
ShownCanRenew ==
  page = "ready" /\ shown /\ ~overtaken => stored.refresh # None /\ stored.identity

(* A call that waits for a renewal waits for one that is in flight         *)
(* (apiFetch, refreshInFlight).                                            *)
WaitsForRenewal == \A c \in Calls : call[c].at = "waiting" => renewal # Idle

SessionIsSound == ShownCanRenew /\ WaitsForRenewal
=============================================================================
