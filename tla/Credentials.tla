----------------------------- MODULE Credentials -----------------------------
(***************************************************************************)
(* The credential of one account, auth/{id}.json: its password, the        *)
(* version its refresh tokens carry, and the count of failed logins that   *)
(* locks it.  Every operation rewrites the whole document under a lease    *)
(* that may run out before the write.  A reset link is a blob that says    *)
(* for which version it was made, and is used up by a conditional write.   *)
(***************************************************************************)
EXTENDS Naturals

CONSTANTS
  Links, Requests, None,
  Worlds,       \* BOUND: sets of kinds of request and of fault that may happen together
  MaxFailures,  \* rateLimit.ts MAX_FAILURES
  MaxOps,       \* BOUND: requests
  MaxFaults     \* BOUND: faults

VARIABLES
  credential,  \* auth/{id}.json; a password is named by the link that set it
  session,     \* users/{id}.json: sessionVersion
  link,        \* auth/tokens/{hash}.json
  lease,       \* who holds the lease of the credential
  req, ops, faults,
  told         \* the links whose reset was answered with success

documents == <<credential, session, link>>
vars == <<documents, lease, req, ops, faults, told>>

-----------------------------------------------------------------------------
Idle == [op |-> "none", at |-> "idle", link |-> None, right |-> FALSE, saw |-> <<>>]

TypeOK ==
  /\ credential \in [password : Links \union {None}, version : Nat,
                     failures : 0 .. MaxFailures, locked : BOOLEAN]
  /\ link \in [Links -> [state : {"none", "sent", "used"}, version : Nat]]
  /\ lease \in Requests \union {None} /\ told \subseteq Links

Fault(kind) ==
  /\ kind \in faults.kinds /\ faults.count < MaxFaults
  /\ faults' = [faults EXCEPT !.count = @ + 1]

At(r, at) == req[r].at = at
Goto(r, at) == req' = [req EXCEPT ![r].at = at]
Ends(r) == req' = [req EXCEPT ![r] = Idle]

Begins(r, op, request) ==
  /\ op \in faults.kinds /\ ops < MaxOps
  /\ req[r] = Idle /\ r = CHOOSE q \in Requests : req[q] = Idle
  /\ ops' = ops + 1 /\ req' = [req EXCEPT ![r] = [request EXCEPT !.op = op]]
  /\ UNCHANGED <<documents, lease, faults, told>>

-----------------------------------------------------------------------------
(* forgotPassword, generateShortLivedToken: the link is for the version    *)
(* the credential has when it is read.  An hour later it is worth nothing, *)
(* which is as if nobody followed it.                                      *)
AskForgot(r, l) ==
  /\ link[l].state = "none" /\ \A q \in Requests : req[q].link # l
  /\ Begins(r, "forgot", [Idle EXCEPT !.at = "mail", !.link = l, !.saw = credential.version])

MailLink(r) ==
  /\ At(r, "mail") /\ Ends(r)
  /\ link' = [link EXCEPT ![req[r].link] = [state |-> "sent", version |-> req[r].saw]]
  /\ UNCHANGED <<credential, session, lease, ops, faults, told>>

-----------------------------------------------------------------------------
(* resetPassword, logout and what login notes of an attempt.               *)

(* consumeShortLivedToken: the blob is read with its ETag, and a link used *)
(* already is refused.                                                     *)
AskReset(r, l) ==
  /\ link[l].state = "sent"
  /\ Begins(r, "reset", [Idle EXCEPT !.at = "consume", !.link = l])

Consume(r) ==
  /\ At(r, "consume")
  /\ LET l == req[r].link
     IN IF link[l].state = "sent"
        THEN link' = [link EXCEPT ![l].state = "used"] /\ Goto(r, "lease")
        ELSE UNCHANGED link /\ Ends(r)
  /\ UNCHANGED <<credential, session, lease, ops, faults, told>>

AskLogout(r) == Begins(r, "logout", [Idle EXCEPT !.at = "lease"])

(* checkAccountLockout, and the password compared with the credential      *)
(* read.                                                                   *)
AskLogin(r) ==
  \E right \in BOOLEAN :
    ~credential.locked /\ Begins(r, "login", [Idle EXCEPT !.at = "lease", !.right = right])

(* withPrivateLease: nobody waits for a lease.                             *)
TakeLease(r) ==
  /\ At(r, "lease")
  /\ IF lease = None THEN lease' = r /\ Goto(r, "read") ELSE UNCHANGED lease /\ Ends(r)
  /\ UNCHANGED <<documents, ops, faults, told>>

(* A link made for an earlier version is not for this credential.          *)
IsForVersion(l) == link[l].version = credential.version

ReadCredential(r) ==
  /\ At(r, "read")
  /\ IF req[r].op = "reset" => IsForVersion(req[r].link)
     THEN /\ req' = [req EXCEPT ![r].at = "write", ![r].saw = credential]
          /\ UNCHANGED lease
     ELSE /\ Ends(r)
          /\ lease' = IF lease = r THEN None ELSE lease
  /\ UNCHANGED <<documents, ops, faults, told>>

(* recordLoginFailure: the fifth failure in ten minutes locks the account. *)
Failed(c) ==
  LET n == IF c.failures < MaxFailures THEN c.failures + 1 ELSE MaxFailures
  IN [c EXCEPT !.failures = n, !.locked = @ \/ n = MaxFailures]

Rewritten(r) ==
  LET c == req[r].saw
  IN CASE req[r].op = "reset" -> [c EXCEPT !.password = req[r].link, !.version = @ + 1]
       [] req[r].op = "logout" -> [c EXCEPT !.version = @ + 1]
       [] req[r].op = "login" /\ req[r].right -> [c EXCEPT !.failures = 0, !.locked = FALSE]
       [] OTHER -> Failed(c)

(* The write carries the lease id: without the lease it is refused.        *)
MayWrite(r) == lease = r

WriteCredential(r) ==
  /\ At(r, "write")
  /\ IF MayWrite(r)
     THEN /\ credential' = Rewritten(r)
          /\ lease' = None
          /\ IF req[r].op = "login" THEN Ends(r) ELSE Goto(r, "bump")
     ELSE UNCHANGED <<credential, lease>> /\ Ends(r)
  /\ UNCHANGED <<session, link, ops, faults, told>>

(* bumpSessionVersionBestEffort: the answer is the same if it fails.       *)
Bump(r) ==
  /\ At(r, "bump") /\ Ends(r)
  /\ session' \in {session, session + 1}
  /\ told' = IF req[r].op = "reset" THEN told \union {req[r].link} ELSE told
  /\ UNCHANGED <<credential, link, lease, ops, faults>>

-----------------------------------------------------------------------------
LeaseLapses ==
  /\ lease # None /\ Fault("lapse")
  /\ lease' = None
  /\ UNCHANGED <<documents, req, ops, told>>

(* The host stops: the request is gone, and its lease ends by itself.      *)
Crash(r) ==
  /\ req[r] # Idle /\ Fault("crash") /\ Ends(r)
  /\ lease' = IF lease = r THEN None ELSE lease
  /\ UNCHANGED <<documents, ops, told>>

(* The lock of fifteen minutes outlasts the failures that count.           *)
LockExpires ==
  /\ credential.locked /\ Fault("time")
  /\ credential' = [credential EXCEPT !.locked = FALSE, !.failures = 0]
  /\ \A r \in Requests : req[r] = Idle
  /\ UNCHANGED <<session, link, lease, req, ops, told>>

AtRest == \A r \in Requests : req[r] = Idle

Init ==
  /\ credential = [password |-> None, version |-> 0, failures |-> 0, locked |-> FALSE]
  /\ session = 0
  /\ link = [l \in Links |-> [state |-> "none", version |-> 0]]
  /\ lease = None /\ req = [r \in Requests |-> Idle]
  /\ ops = 0 /\ faults \in [kinds : Worlds, count : {0}] /\ told = {}

Next ==
  \/ \E r \in Requests :
       \/ \E l \in Links : AskForgot(r, l) \/ AskReset(r, l)
       \/ AskLogout(r) \/ AskLogin(r)
       \/ MailLink(r) \/ Consume(r) \/ TakeLease(r) \/ ReadCredential(r)
       \/ WriteCredential(r) \/ Bump(r) \/ Crash(r)
  \/ LeaseLapses \/ LockExpires
  \/ AtRest /\ UNCHANGED vars

Spec == Init /\ [][Next]_vars

-----------------------------------------------------------------------------
(* A reset that was answered with success is undone only by a link asked   *)
(* for after it: not by an older link, and not by a login or a logout that *)
(* rewrites the credential it read before (resetPassword).                 *)
ResetIsFinal ==
  \A l \in told :
    \/ credential.password = l
    \/ /\ credential.password # None
       /\ link[credential.password].version > link[l].version
=============================================================================
