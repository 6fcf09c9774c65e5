------------------------------ MODULE Accounts ------------------------------
(***************************************************************************)
(* Accounts and the pilots they are linked to.  An account is four blobs:  *)
(* credentials, the user record, its entry in user-index.json and, once    *)
(* deleted, a tombstone.  A pilot is a private blob, an entry in           *)
(* pilots.json and claims on addresses in pilot-email-index.json.  Each    *)
(* request is a series of reads and writes of single blobs; a write under  *)
(* the lease of its blob is one step with the read it depends on.          *)
(***************************************************************************)
EXTENDS Naturals, FiniteSets

CONSTANTS
  Users, Emails, Pilots,
  Members,     \* sets of accounts that may exist at first
  AddressOf,   \* the addresses they registered with
  FirstAdmin,  \* a member, and an administrator at first
  OwnPilot,    \* the pilot id adminCreatePilotForUser derives from a user id
  Requests, None,
  Worlds,      \* BOUND: sets of kinds of request and of fault that may happen together
  MaxOps,      \* BOUND: requests
  MaxFaults    \* BOUND: faults

(* None is the absence of an account, a pilot, a request or a document.    *)
(* Who is there at first has an address of its own, and an administrator   *)
(* is among them; the pilot ids derived from user ids differ, and no user  *)
(* id is a pilot id ("torn" and "lost" hold both).                         *)
ASSUME AccountsAssumption ==
  /\ None \notin Users \union Pilots \union Requests
  /\ Users \cap Pilots = {}
  /\ None \notin [verified : BOOLEAN, version : Nat]
  /\ None \notin [email : Emails, admin : BOOLEAN, pilot : Pilots \union {None}]
  /\ None \notin [user : Users \union {None}]
  /\ None \notin [user : Users, version : Nat, used : BOOLEAN]
  /\ AddressOf \in [Users -> Emails] /\ OwnPilot \in [Users -> Pilots]
  /\ \A u, v \in Users : OwnPilot[u] = OwnPilot[v] => u = v
  /\ \A present \in Members :
       /\ present \subseteq Users /\ FirstAdmin \in present
       /\ \A u, v \in present : AddressOf[u] = AddressOf[v] => u = v
  /\ MaxOps \in Nat /\ MaxFaults \in Nat

VARIABLES
  cred,     \* auth/{user}.json
  user,     \* users/{user}.json
  tomb,     \* users/deleted/{user}.json
  index,    \* user-index.json
  claims,   \* pilot-email-index.json
  pilot,    \* pilots/{pilot}.json
  listed,   \* the pilots in pilots.json
  links,    \* the documents of verification links
  latest,   \* auth/verification-state/{user}.json: the link it holds
  mailed,   \* the link the last change of address mailed, until another request ends it
  req,      \* the request each process works on
  lock,     \* who holds users/.admin-mutation.lock
  ops,      \* requests so far
  faults,   \* the kinds of request and fault that may happen, and how many faults have
  torn,     \* users and pilots a request left half-changed
  lost,     \* users and pilots whose blob a request wrote over as it had read it before
  relinked  \* users whose pilot an administrator set by hand

accounts == <<cred, user, tomb, index>>
pilots == <<claims, pilot, listed>>
mails == <<links, latest, mailed>>
history == <<torn, lost, relinked>>
vars == <<accounts, pilots, mails, req, lock, ops, faults, history>>

-----------------------------------------------------------------------------
Credentials == [verified : BOOLEAN, version : Nat]
Records == [email : Emails, admin : BOOLEAN, pilot : Pilots \union {None}]
PilotDocs == [user : Users \union {None}]
Links == [user : Users, version : Nat, used : BOOLEAN]
LinkIds == 1 .. MaxOps
NoLink == 0

(* What a request is doing.                                                *)
Ops == {"none", "register", "resend", "verify", "roles", "delete", "email", "adminPilot",
        "myPilot", "newPilot", "editPilot"}
Places == {"idle", "lock", "begin", "cred", "find", "user", "index", "collect", "existing",
           "accept", "mint", "document", "verify", "write", "tomb", "unindex", "uncred",
           "unlink", "unclaim", "unuser", "unverify", "claim", "sweep", "ensure", "relist",
           "reclaim", "pilot", "list", "link", "undo"}
Process ==
  [op : Ops, at : Places, user : Users \union {None}, email : Emails \union {None},
   pilot : Pilots \union {None}, doc : Records \union PilotDocs \union {None},
   version : Nat, rival : Users \union {None}]

Idle == [op |-> "none", at |-> "idle", user |-> None, email |-> None, pilot |-> None,
         doc |-> None, version |-> 0, rival |-> None]

TypeOK ==
  /\ cred \in [Users -> Credentials \union {None}]
  /\ user \in [Users -> Records \union {None}]
  /\ tomb \in [Users -> Records \union {None}]
  /\ index \in [Emails -> Users \union {None}] /\ claims \in [Emails -> Pilots \union {None}]
  /\ pilot \in [Pilots -> PilotDocs \union {None}] /\ listed \subseteq Pilots
  /\ links \in [LinkIds -> Links \union {None}]
  /\ latest \in [Users -> {NoLink} \union LinkIds] /\ mailed \in [Users -> {NoLink} \union LinkIds]
  /\ req \in [Requests -> Process]
  /\ \A r \in Requests : req[r].at = "idle" <=> req[r] = Idle
  /\ lock \in Requests \union {None} /\ ops \in 0 .. MaxOps
  /\ faults \in [kinds : Worlds, count : 0 .. MaxFaults]
  /\ torn \subseteq Users \union Pilots /\ lost \subseteq Users \union Pilots
  /\ relinked \subseteq Users

world == faults.kinds

Fault(kind) ==
  /\ kind \in world
  /\ faults.count < MaxFaults
  /\ faults' = [faults EXCEPT !.count = @ + 1]

(* The record a request is about to replace is not the one it read.        *)
WrittenOver(r) == IF user[req[r].user] # req[r].doc THEN {req[r].user} ELSE {}

(* getCallerIdentity: the caller's record is there, and no tombstone is.   *)
Live(u) == user[u] # None /\ tomb[u] = None
IsAdmin(u) == Live(u) /\ user[u].admin

At(r, op, at) == req[r].op = op /\ req[r].at = at
Goto(r, at) == req' = [req EXCEPT ![r].at = at]
Finish(r) ==
  /\ req' = [req EXCEPT ![r] = Idle]
  /\ lock' = IF lock = r THEN None ELSE lock

(* Processes are interchangeable, and so are the ids drawn at random.      *)
New(op, at, u) == [Idle EXCEPT !.op = op, !.at = at, !.user = u]
Start(r, request) ==
  /\ request.op \in world
  /\ ops < MaxOps /\ req[r] = Idle
  /\ r = CHOOSE q \in Requests : req[q] = Idle
  /\ ops' = ops + 1
  /\ req' = [req EXCEPT ![r] = request]

Indexed == {u \in Users : \E e \in Emails : index[e] = u}
Fresh(u) ==
  /\ cred[u] = None /\ user[u] = None /\ tomb[u] = None /\ u \notin Indexed
  /\ \A r \in Requests : req[r].user # u
(* A record names the pilot, or one that a request has read.               *)
Named(p) ==
  \/ \E u \in Users : \E record \in {user[u], tomb[u]} \ {None} : record.pilot = p
  \/ \E r \in Requests : req[r].doc \in Records /\ req[r].doc.pilot = p
UnusedPilot(p) ==
  /\ \A u \in Users : OwnPilot[u] # p
  /\ pilot[p] = None /\ p \notin listed /\ (\A e \in Emails : claims[e] # p) /\ ~Named(p)
  /\ \A r \in Requests : req[r].pilot # p
FreshPilot(p) == UnusedPilot(p) /\ p = CHOOSE q \in Pilots : UnusedPilot(q)

(* The accounts that a pilot is of, or is being made for.                  *)
MadeFor(p) ==
  {u \in Users : \/ pilot[p] # None /\ pilot[p].user = u
                 \/ \E r \in Requests : req[r].pilot = p /\ req[r].user = u}

-----------------------------------------------------------------------------
(* The last steps of several requests: a new verification link.            *)

(* The version of the credentials is read first; without them it throws.   *)
MintRead(r) ==
  /\ req[r].at = "mint"
  /\ IF cred[req[r].user] = None THEN Finish(r)
     ELSE /\ req' = [req EXCEPT ![r].at = "document", ![r].version = cred[req[r].user].version]
          /\ UNCHANGED lock
  /\ UNCHANGED <<accounts, pilots, mails, ops, faults, history>>

(* Mutant: the link carries no version. *)
MintLinkUnversioned(r) ==
  /\ req[r].at = "document"
  /\ \E n \in LinkIds :
       /\ links[n] = None /\ \A k \in LinkIds : k < n => links[k] # None
       /\ links' = [links EXCEPT ![n] = [user |-> req[r].user, version |-> 0, used |-> FALSE]]
       /\ latest' = IF req[r].op = "resend" THEN latest ELSE [latest EXCEPT ![req[r].user] = n]
       /\ mailed' = IF req[r].op = "email" THEN [mailed EXCEPT ![req[r].user] = n] ELSE mailed
  /\ Finish(r)
  /\ UNCHANGED <<accounts, pilots, ops, faults, history>>
MintLink(r) ==
  /\ req[r].at = "document"
  /\ \E n \in LinkIds :
       /\ links[n] = None /\ \A k \in LinkIds : k < n => links[k] # None
       /\ links' = [links EXCEPT ![n] = [user |-> req[r].user, version |-> req[r].version,
                                         used |-> FALSE]]
       /\ latest' = IF req[r].op = "resend" THEN latest ELSE [latest EXCEPT ![req[r].user] = n]
       /\ mailed' = IF req[r].op = "email" THEN [mailed EXCEPT ![req[r].user] = n] ELSE mailed
  /\ Finish(r)
  /\ UNCHANGED <<accounts, pilots, ops, faults, history>>

-----------------------------------------------------------------------------
(* Registration.                                                           *)

(* The address is looked up: an account that is being deleted is not seen. *)
Register(r, u, e) ==
  /\ IF index[e] # None /\ tomb[index[e]] = None THEN u = index[e]
     ELSE Fresh(u) /\ u = CHOOSE v \in Users : Fresh(v)
  /\ Start(r, [New("register", IF Fresh(u) THEN "cred" ELSE "existing", u) EXCEPT !.email = e])
  /\ UNCHANGED <<accounts, pilots, mails, lock, faults, history>>

RegisterCred(r) ==
  /\ At(r, "register", "cred")
  /\ cred' = [cred EXCEPT ![req[r].user] = [verified |-> FALSE, version |-> 0]]
  /\ Goto(r, "find")
  /\ UNCHANGED <<user, tomb, index, pilots, mails, lock, ops, faults, history>>

(* getOrCreateUser links the account to the pilot that claims its address, *)
(* if that pilot's blob is there.                                          *)
RegisterFind(r) ==
  /\ At(r, "register", "find")
  /\ LET p == claims[req[r].email]
     IN req' = [req EXCEPT ![r].at = "user",
                  ![r].doc = [email |-> req[r].email, admin |-> FALSE,
                              pilot |-> IF p # None /\ pilot[p] # None THEN p ELSE None]]
  /\ UNCHANGED <<accounts, pilots, mails, lock, ops, faults, history>>

RegisterUser(r) ==
  /\ At(r, "register", "user")
  /\ user' = [user EXCEPT ![req[r].user] = req[r].doc]
  /\ Goto(r, "index")
  /\ UNCHANGED <<cred, tomb, index, pilots, mails, lock, ops, faults, history>>

(* Mutant: the owner of the entry is not looked at. *)
RegisterIndexTakes(r) ==
  /\ At(r, "register", "index")
  /\ index' = [index EXCEPT ![req[r].email] = req[r].user]
  /\ Goto(r, "accept")
  /\ UNCHANGED <<cred, user, tomb, pilots, mails, lock, ops, faults, history>>
RegisterIndex(r) ==
  /\ At(r, "register", "index")
  /\ LET owner == index[req[r].email]
     IN IF owner \in {None, req[r].user}
        THEN index' = [index EXCEPT ![req[r].email] = req[r].user] /\ Goto(r, "accept")
        ELSE UNCHANGED index /\ req' = [req EXCEPT ![r].at = "collect", ![r].rival = owner]
  /\ UNCHANGED <<cred, user, tomb, pilots, mails, lock, ops, faults, history>>

(* The loser of a race for the address removes what it wrote, and goes on  *)
(* as for an existing account.                                             *)
RegisterCollect(r) ==
  /\ At(r, "register", "collect")
  /\ cred' = [cred EXCEPT ![req[r].user] = None]
  /\ user' = [user EXCEPT ![req[r].user] = None]
  /\ req' = [req EXCEPT ![r].at = "existing", ![r].user = req[r].rival]
  /\ UNCHANGED <<tomb, index, pilots, mails, lock, ops, faults, history>>

(* The record is written again, with the terms the user accepted, as it    *)
(* was made and without its lease.                                         *)
RegisterAccept(r) ==
  /\ At(r, "register", "accept")
  /\ user' = [user EXCEPT ![req[r].user] = req[r].doc]
  /\ lost' = lost \union WrittenOver(r)
  /\ UNCHANGED <<torn, relinked>>
  /\ Goto(r, "mint")
  /\ UNCHANGED <<cred, tomb, index, pilots, mails, lock, ops, faults>>

(* For an unverified account a link is minted, unless a recent one can be  *)
(* mailed again.                                                           *)
RegisterExisting(r) ==
  /\ At(r, "register", "existing")
  /\ \/ /\ \/ cred[req[r].user] # None /\ cred[req[r].user].verified
           \/ latest[req[r].user] # NoLink
        /\ Finish(r)
     \/ /\ cred[req[r].user] # None => ~cred[req[r].user].verified
        /\ Goto(r, "mint") /\ UNCHANGED lock
  /\ UNCHANGED <<accounts, pilots, mails, ops, faults, history>>

-----------------------------------------------------------------------------
(* Verification, and the requests that end the links mailed before them.   *)

Resend(r, e) ==
  LET u == index[e]
  IN /\ u # None /\ tomb[u] = None /\ cred[u] # None /\ ~cred[u].verified
     /\ Start(r, New("resend", "mint", u))
     /\ UNCHANGED <<accounts, pilots, mails, lock, faults, history>>

(* The document of the link is marked as used, by compare-and-swap.        *)
Verify(r, n) ==
  /\ links[n] # None /\ ~links[n].used
  /\ links' = [links EXCEPT ![n].used = TRUE]
  /\ Start(r, [New("verify", "verify", links[n].user) EXCEPT !.version = links[n].version])
  /\ UNCHANGED <<accounts, pilots, latest, mailed, lock, faults, history>>

VerifyCred(r) ==
  /\ At(r, "verify", "verify")
  /\ LET u == req[r].user
     IN cred' = IF tomb[u] = None /\ cred[u] # None /\ cred[u].version = req[r].version
                THEN [cred EXCEPT ![u].verified = TRUE] ELSE cred
  /\ Finish(r)
  /\ UNCHANGED <<user, tomb, index, pilots, mails, ops, faults, history>>

AdminVerify(u) ==
  /\ "adminVerify" \in world /\ ops < MaxOps
  /\ cred[u] # None /\ u \in Indexed /\ \E a \in Users : IsAdmin(a)
  /\ cred' = [cred EXCEPT ![u].verified = TRUE]
  /\ ops' = ops + 1
  /\ UNCHANGED <<user, tomb, index, pilots, mails, req, lock, faults, history>>

(* A logout or a reset of the password: older tokens and links are void.   *)
Bump(u) ==
  /\ "bump" \in world /\ ops < MaxOps
  /\ cred[u] # None /\ Live(u)
  /\ cred' = [cred EXCEPT ![u].version = @ + 1]
  /\ mailed' = [mailed EXCEPT ![u] = NoLink]
  /\ torn' = IF \E r \in Requests : At(r, "email", "document") /\ req[r].user = u
             THEN torn \union {u} ELSE torn
  /\ ops' = ops + 1
  /\ UNCHANGED <<user, tomb, index, pilots, links, latest, req, lock, faults, lost, relinked>>

-----------------------------------------------------------------------------
(* Requests of administrators that hold the account mutation lock.         *)

(* The caller is an administrator when it asks.                            *)
AskAdmin(r, request) ==
  /\ \E a \in Users : IsAdmin(a) /\ (request.op = "delete" => a # request.user)
  /\ request.user \in Indexed \/ tomb[request.user] # None
  /\ Start(r, request)
  /\ UNCHANGED <<accounts, pilots, mails, lock, faults, history>>

Ask(r, u) ==
  \/ AskAdmin(r, New("delete", "lock", u))
  \/ \E version \in {0, 1, 2} : AskAdmin(r, [New("roles", "lock", u) EXCEPT !.version = version])
  \/ \E e \in Emails : AskAdmin(r, [New("email", "lock", u) EXCEPT !.email = e])
  \/ AskAdmin(r, [New("adminPilot", "lock", u) EXCEPT !.pilot = OwnPilot[u]])

TakeLock(r) ==
  /\ req[r].at = "lock" /\ lock = None
  /\ lock' = r
  /\ Goto(r, "begin")
  /\ UNCHANGED <<accounts, pilots, mails, ops, faults, history>>

(* assertNotLastAdmin.                                                     *)
(* Mutant: an account being deleted counts. *)
AnotherAdminCountsDeleted(u) == \E a \in Indexed \ {u} : user[a] # None /\ user[a].admin
AnotherAdmin(u) == \E a \in Indexed \ {u} : tomb[a] = None /\ user[a] # None /\ user[a].admin

(* setUserRoles; version 1 stands for roles with "Admin", and version 2    *)
(* for a body that leaves the roles as they are.                           *)
RolesBegin(r) ==
  /\ At(r, "roles", "begin")
  /\ LET u == req[r].user
     IN IF user[u] = None \/ (user[u].admin /\ req[r].version = 0 /\ ~AnotherAdmin(u))
        THEN Finish(r)
        ELSE /\ req' = [req EXCEPT ![r].at = "write", ![r].doc = user[u]]
             /\ UNCHANGED lock
  /\ UNCHANGED <<accounts, pilots, mails, ops, faults, history>>

(* The body may name any pilot, there or not, or none; but an id drawn at  *)
(* random is known to nobody before its pilot is listed.  Nothing but the  *)
(* record of the user follows: the pilots of before and after are torn.    *)
Linkable == {p \in Pilots : p \in listed \/ \A r \in Requests :
                             req[r].pilot = p => req[r].op \notin {"myPilot", "newPilot"}}
Nameable(p) == "relink" \in world /\ p \in Linkable \union {None}

RolesWrite(r) ==
  /\ At(r, "roles", "write")
  /\ LET u == req[r].user
         doc == [req[r].doc EXCEPT !.admin = IF req[r].version = 2 THEN @ ELSE req[r].version = 1]
     IN \/ user' = [user EXCEPT ![u] = doc] /\ UNCHANGED <<torn, relinked>>
        \/ \E p \in Pilots \union {None} :
             /\ Nameable(p) /\ p # doc.pilot
             /\ user' = [user EXCEPT ![u] = [doc EXCEPT !.pilot = p]]
             /\ torn' = torn \union ({doc.pilot, p} \ {None})
             /\ relinked' = relinked \union {u}
  /\ lost' = lost \union WrittenOver(r)
  /\ Finish(r)
  /\ UNCHANGED <<cred, tomb, index, pilots, mails, ops, faults>>

(* deleteUser.  A tombstone from an earlier try is taken up again.  The    *)
(* pilot that goes with the account may be that of another by now.         *)
DeleteBegin(r) ==
  /\ At(r, "delete", "begin")
  /\ LET u == req[r].user
     IN \/ tomb[u] # None /\ Goto(r, "unindex") /\ UNCHANGED lock
        \/ /\ tomb[u] = None
           /\ IF user[u] = None \/ (user[u].admin /\ ~AnotherAdmin(u))
              THEN Finish(r)
              ELSE /\ req' = [req EXCEPT ![r].at = "tomb", ![r].doc = user[u]]
                   /\ UNCHANGED lock
  /\ UNCHANGED <<accounts, pilots, mails, ops, faults, history>>

DeleteTomb(r) ==
  /\ At(r, "delete", "tomb")
  /\ tomb' = [tomb EXCEPT ![req[r].user] = req[r].doc]
  /\ Goto(r, "unindex")
  /\ UNCHANGED <<cred, user, index, pilots, mails, lock, ops, faults, history>>

DeleteIndex(r) ==
  /\ At(r, "delete", "unindex")
  /\ index' = [e \in Emails |-> IF index[e] = req[r].user THEN None ELSE index[e]]
  /\ Goto(r, "uncred")
  /\ UNCHANGED <<cred, user, tomb, pilots, mails, lock, ops, faults, history>>

(* The link documents of u, and its verification state.                    *)
Sweep(u) ==
  /\ links' = [n \in LinkIds |-> IF links[n] # None /\ links[n].user = u THEN None ELSE links[n]]
  /\ latest' = [latest EXCEPT ![u] = NoLink]
  /\ mailed' = [mailed EXCEPT ![u] = NoLink]

DeleteCred(r) ==
  /\ At(r, "delete", "uncred")
  /\ cred' = [cred EXCEPT ![req[r].user] = None]
  /\ Sweep(req[r].user)
  /\ Goto(r, IF tomb[req[r].user].pilot = None THEN "unuser" ELSE "unlink")
  /\ UNCHANGED <<user, tomb, index, pilots, lock, ops, faults, history>>

DeleteLink(r) ==
  /\ At(r, "delete", "unlink")
  /\ LET p == tomb[req[r].user].pilot
     IN /\ pilot' = IF pilot[p] # None THEN [pilot EXCEPT ![p].user = None] ELSE pilot
        /\ torn' = torn \union (MadeFor(p) \ {req[r].user})
  /\ Goto(r, "unclaim")
  /\ UNCHANGED <<accounts, claims, listed, mails, lock, ops, faults, lost, relinked>>

DeleteClaim(r) ==
  /\ At(r, "delete", "unclaim")
  /\ LET p == tomb[req[r].user].pilot
     IN /\ claims' = [e \in Emails |-> IF claims[e] = p THEN None ELSE claims[e]]
        /\ torn' = torn \union (MadeFor(p) \ {req[r].user})
  /\ Goto(r, "unuser")
  /\ UNCHANGED <<accounts, pilot, listed, mails, lock, ops, faults, lost, relinked>>

DeleteUser(r) ==
  /\ At(r, "delete", "unuser")
  /\ user' = [user EXCEPT ![req[r].user] = None]
  /\ Finish(r)
  /\ UNCHANGED <<cred, tomb, index, pilots, mails, ops, faults, history>>

(* updateUserEmail.  The record is read once; both indexes are looked at   *)
(* before anything is written.                                             *)
EmailBegin(r) ==
  /\ At(r, "email", "begin")
  /\ LET u == req[r].user
         e == req[r].email
         p == user[u].pilot
     IN IF \/ user[u] = None
           \/ index[e] \notin {None, u}
           \/ p # None /\ claims[e] \notin {None, p}
        THEN Finish(r)
        ELSE /\ req' = [req EXCEPT ![r].at = "index", ![r].doc = user[u]]
             /\ UNCHANGED lock
  /\ UNCHANGED <<accounts, pilots, mails, ops, faults, history>>

(* The old address is freed whoever holds it by now.                       *)
EmailIndex(r) ==
  /\ At(r, "email", "index")
  /\ LET u == req[r].user
         e == req[r].email
         old == req[r].doc.email
     IN IF index[e] \notin {None, u}
        THEN Finish(r) /\ UNCHANGED <<index, torn>>
        ELSE /\ index' = [index EXCEPT ![old] = None, ![e] = u]
             /\ torn' = torn \union ({index[old]} \ {None, u})
             /\ Goto(r, "unverify") /\ UNCHANGED lock
  /\ UNCHANGED <<cred, user, tomb, pilots, mails, ops, faults, lost, relinked>>

EmailUnverify(r) ==
  /\ At(r, "email", "unverify")
  /\ LET u == req[r].user
     IN /\ cred' = IF cred[u] = None THEN cred
                   ELSE [cred EXCEPT ![u] = [verified |-> FALSE, version |-> @.version + 1]]
        /\ mailed' = [mailed EXCEPT ![u] = NoLink]
  /\ Goto(r, IF req[r].doc.pilot = None THEN "user" ELSE "claim")
  /\ UNCHANGED <<user, tomb, index, pilots, links, latest, lock, ops, faults, history>>

(* When the pilot's address was claimed since it was looked at, the        *)
(* request ends here, with the account under its new address.  The claim   *)
(* on the old address is freed whichever pilot has it by now.              *)
EmailClaim(r) ==
  /\ At(r, "email", "claim")
  /\ LET u == req[r].user
         p == req[r].doc.pilot
         e == req[r].email
         old == req[r].doc.email
         freed == IF claims[old] = None THEN {} ELSE {claims[old]} \union MadeFor(claims[old])
     IN IF claims[e] \notin {None, p}
        THEN Finish(r) /\ torn' = torn \union {u} /\ UNCHANGED claims
        ELSE /\ claims' = [claims EXCEPT ![old] = None, ![e] = p]
             /\ torn' = torn \union (freed \ {u, p})
             /\ Goto(r, "user") /\ UNCHANGED lock
  /\ UNCHANGED <<accounts, pilot, listed, mails, ops, faults, lost, relinked>>

(* A pilot the user is making by now has claimed the old address.          *)
EmailUser(r) ==
  /\ At(r, "email", "user")
  /\ LET u == req[r].user
     IN /\ user' = [user EXCEPT ![u] = [req[r].doc EXCEPT !.email = req[r].email]]
        /\ lost' = lost \union WrittenOver(r)
        /\ torn' = IF \E q \in Requests : req[q].op = "myPilot" /\ req[q].user = u
                   THEN torn \union {u} ELSE torn
  /\ Goto(r, "sweep")
  /\ UNCHANGED <<cred, tomb, index, pilots, mails, lock, ops, faults, relinked>>

EmailSweep(r) ==
  /\ At(r, "email", "sweep")
  /\ Sweep(req[r].user)
  /\ Goto(r, "mint")
  /\ UNCHANGED <<accounts, pilots, lock, ops, faults, history>>

(* adminCreatePilotForUser.  The id of the pilot is that of an earlier try. *)
AdminPilotBegin(r) ==
  /\ At(r, "adminPilot", "begin")
  /\ LET u == req[r].user
         p == req[r].pilot
     IN IF user[u] = None \/ user[u].pilot \notin {None, p}
        THEN Finish(r)
        ELSE /\ req' = [req EXCEPT ![r].email = user[u].email,
                          ![r].at = IF user[u].pilot = p THEN "ensure" ELSE "claim"]
             /\ UNCHANGED lock
  /\ UNCHANGED <<accounts, pilots, mails, ops, faults, history>>

(* The account is linked already: what is missing of the pilot is made up. *)
AdminPilotEnsure(r) ==
  /\ At(r, "adminPilot", "ensure")
  /\ pilot' = IF pilot[req[r].pilot] # None THEN pilot
              ELSE [pilot EXCEPT ![req[r].pilot] = [user |-> req[r].user]]
  /\ Goto(r, "relist")
  /\ UNCHANGED <<accounts, claims, listed, mails, lock, ops, faults, history>>

AdminPilotRelist(r) ==
  /\ At(r, "adminPilot", "relist")
  /\ listed' = listed \union {req[r].pilot}
  /\ Goto(r, "reclaim")
  /\ UNCHANGED <<accounts, claims, pilot, mails, lock, ops, faults, history>>

(* Mutant: an address may be claimed from another pilot. *)
ClaimableAlways(r) == TRUE
Claimable(r) == claims[req[r].email] \in {None, req[r].pilot}

AdminPilotReclaim(r) ==
  /\ At(r, "adminPilot", "reclaim")
  /\ claims' = IF Claimable(r) THEN [claims EXCEPT ![req[r].email] = req[r].pilot] ELSE claims
  /\ Finish(r)
  /\ UNCHANGED <<accounts, pilot, listed, mails, ops, faults, history>>

(* linkAdminUserToPilotLast.                                               *)
AdminPilotLink(r) ==
  /\ At(r, "adminPilot", "link")
  /\ LET u == req[r].user
         p == req[r].pilot
     IN user' = IF user[u] # None /\ user[u].pilot \in {None, p}
                THEN [user EXCEPT ![u].pilot = p] ELSE user
  /\ Finish(r)
  /\ UNCHANGED <<cred, tomb, index, pilots, mails, ops, faults, history>>

-----------------------------------------------------------------------------
(* Pilots: createMyPilot ("myPilot") by their own user, createPilot        *)
(* ("newPilot") and updatePilot ("editPilot") by an administrator.         *)

MyPilot(r, u, p) ==
  /\ Live(u) /\ cred[u] # None /\ cred[u].verified /\ user[u].pilot = None
  /\ Start(r, [New("myPilot", "claim", u) EXCEPT !.email = user[u].email, !.pilot = p])
  /\ FreshPilot(p)
  /\ UNCHANGED <<accounts, pilots, mails, lock, faults, history>>

NewPilot(r, e, p) ==
  /\ Start(r, [New("newPilot", "claim", None) EXCEPT !.email = e, !.pilot = p])
  /\ FreshPilot(p) /\ \E a \in Users : IsAdmin(a)
  /\ UNCHANGED <<accounts, pilots, mails, lock, faults, history>>

EditPilot(r, e, p) ==
  /\ pilot[p] # None /\ p \in listed /\ \E a \in Users : IsAdmin(a)
  /\ Start(r, [New("editPilot", "claim", None) EXCEPT !.email = e, !.pilot = p, !.doc = pilot[p]])
  /\ UNCHANGED <<accounts, pilots, mails, lock, faults, history>>

(* The address is claimed before anything else is written; version 1 says  *)
(* that the claim is new, so that a failed edit gives it back.             *)
Claim(r) ==
  /\ req[r].at = "claim" /\ req[r].op \in {"adminPilot", "myPilot", "newPilot", "editPilot"}
  /\ IF Claimable(r)
     THEN /\ claims' = [claims EXCEPT ![req[r].email] = req[r].pilot]
          /\ req' = [req EXCEPT ![r].at = "pilot",
                                ![r].version = IF claims[req[r].email] = None THEN 1 ELSE 0]
          /\ UNCHANGED lock
     ELSE Finish(r) /\ UNCHANGED claims
  /\ UNCHANGED <<accounts, pilot, listed, mails, ops, faults, history>>

(* An edit writes back what it read, without the pilot's lease.            *)
WritePilot(r) ==
  /\ req[r].at = "pilot"
  /\ LET p == req[r].pilot
         edit == req[r].op = "editPilot"
     IN /\ pilot' = [pilot EXCEPT ![p] = IF edit THEN req[r].doc ELSE [user |-> req[r].user]]
        /\ lost' = IF edit /\ pilot[p] # req[r].doc
                   THEN lost \union ({p, req[r].doc.user} \ {None}) ELSE lost
  /\ UNCHANGED <<torn, relinked>>
  /\ Goto(r, "list")
  /\ UNCHANGED <<accounts, claims, listed, mails, lock, ops, faults>>

ListPilot(r) ==
  /\ req[r].at = "list"
  /\ listed' = listed \union {req[r].pilot}
  /\ IF req[r].op \in {"newPilot", "editPilot"} THEN Finish(r)
     ELSE Goto(r, "link") /\ UNCHANGED lock
  /\ UNCHANGED <<accounts, claims, pilot, mails, ops, faults, history>>

(* linkUserToPilot reads and writes the record without its lease, and does *)
(* not look whether a pilot is linked by now.                              *)
MyPilotRead(r) ==
  /\ At(r, "myPilot", "link")
  /\ req' = [req EXCEPT ![r].at = IF user[req[r].user] = None THEN "undo" ELSE "write",
                        ![r].doc = user[req[r].user]]
  /\ UNCHANGED <<accounts, pilots, mails, lock, ops, faults, history>>

MyPilotWrite(r) ==
  /\ At(r, "myPilot", "write")
  /\ LET u == req[r].user
     IN /\ user' = [user EXCEPT ![u] = [req[r].doc EXCEPT !.pilot = req[r].pilot]]
        /\ lost' = lost \union WrittenOver(r) /\ UNCHANGED <<torn, relinked>>
  /\ Finish(r)
  /\ UNCHANGED <<cred, tomb, index, pilots, mails, ops, faults>>

(* A storage operation after the claim fails.                              *)
PilotFails(r) ==
  /\ req[r].op \in {"myPilot", "newPilot", "editPilot"}
  /\ req[r].at \in {"pilot", "list", "write"} \/ At(r, "myPilot", "link")
  /\ Fault("fail")
  /\ Goto(r, "undo")
  /\ UNCHANGED <<accounts, pilots, mails, lock, ops, history>>

(* The pilot is known to others: its entry, a record that names it, or a   *)
(* claim of its on another address.                                        *)
Known(p, e) == p \in listed \/ Named(p) \/ \E x \in Emails \ {e} : claims[x] = p

(* The claim is given back, the entry and the blob are removed, whoever    *)
(* knows of them; an edit keeps what it wrote, and gives back a claim of   *)
(* its own only.                                                           *)
Undo(r) ==
  /\ req[r].at = "undo"
  /\ LET p == req[r].pilot
         e == req[r].email
     IN /\ claims' = IF claims[e] = p /\ (req[r].op = "editPilot" => req[r].version = 1)
                     THEN [claims EXCEPT ![e] = None] ELSE claims
        /\ pilot' = IF req[r].op = "editPilot" THEN pilot ELSE [pilot EXCEPT ![p] = None]
        /\ listed' = IF req[r].op = "myPilot" THEN listed \ {p} ELSE listed
        /\ torn' = IF req[r].op # "editPilot" /\ Known(p, e) THEN torn \union {p} ELSE torn
  /\ Finish(r)
  /\ UNCHANGED <<accounts, mails, ops, faults, lost, relinked>>

-----------------------------------------------------------------------------
(* The process dies: the lock ends with its lease, and what the request    *)
(* was about is left as it is.                                             *)
Crash(r) ==
  /\ req[r] # Idle
  /\ Fault("crash")
  /\ torn' = torn \union ({req[r].user, req[r].pilot} \ {None})
  /\ Finish(r)
  /\ UNCHANGED <<accounts, pilots, mails, ops, lost, relinked>>

(* Some members, administrators or not, all verified.                      *)
Init ==
  /\ \E present \in Members, admins \in SUBSET Users :
       /\ FirstAdmin \in admins /\ admins \subseteq present
       /\ cred = [u \in Users |-> IF u \in present THEN [verified |-> TRUE, version |-> 0] ELSE None]
       /\ user = [u \in Users |->
                    IF u \in present
                    THEN [email |-> AddressOf[u], admin |-> u \in admins, pilot |-> None] ELSE None]
       /\ index = [e \in Emails |-> IF \E u \in present : AddressOf[u] = e
                                    THEN CHOOSE u \in present : AddressOf[u] = e ELSE None]
  /\ tomb = [u \in Users |-> None]
  /\ claims = [e \in Emails |-> None] /\ pilot = [p \in Pilots |-> None] /\ listed = {}
  /\ links = [n \in LinkIds |-> None]
  /\ latest = [u \in Users |-> NoLink] /\ mailed = [u \in Users |-> NoLink]
  /\ req = [r \in Requests |-> Idle] /\ lock = None /\ ops = 0
  /\ faults \in [kinds : Worlds, count : {0}]
  /\ torn = {} /\ lost = {} /\ relinked = {}

AtRest == (\A r \in Requests : req[r] = Idle) /\ UNCHANGED vars

Next ==
  \/ \E r \in Requests, u \in Users, e \in Emails : Register(r, u, e)
  \/ \E r \in Requests, e \in Emails : Resend(r, e)
  \/ \E r \in Requests, n \in LinkIds : Verify(r, n)
  \/ \E u \in Users : AdminVerify(u) \/ Bump(u)
  \/ \E r \in Requests, u \in Users : Ask(r, u)
  \/ \E r \in Requests, u \in Users, p \in Pilots : MyPilot(r, u, p)
  \/ \E r \in Requests, e \in Emails, p \in Pilots : NewPilot(r, e, p) \/ EditPilot(r, e, p)
  \/ \E r \in Requests :
       \/ RegisterCred(r) \/ RegisterFind(r) \/ RegisterUser(r) \/ RegisterIndex(r)
       \/ RegisterCollect(r) \/ RegisterAccept(r) \/ RegisterExisting(r)
       \/ MintRead(r) \/ MintLink(r) \/ VerifyCred(r)
       \/ TakeLock(r) \/ RolesBegin(r) \/ RolesWrite(r)
       \/ DeleteBegin(r) \/ DeleteTomb(r) \/ DeleteIndex(r) \/ DeleteCred(r)
       \/ DeleteLink(r) \/ DeleteClaim(r) \/ DeleteUser(r)
       \/ EmailBegin(r) \/ EmailIndex(r) \/ EmailUnverify(r) \/ EmailClaim(r)
       \/ EmailUser(r) \/ EmailSweep(r)
       \/ AdminPilotBegin(r) \/ AdminPilotEnsure(r) \/ AdminPilotRelist(r)
       \/ AdminPilotReclaim(r) \/ AdminPilotLink(r)
       \/ Claim(r) \/ WritePilot(r) \/ ListPilot(r) \/ MyPilotRead(r) \/ MyPilotWrite(r)
       \/ PilotFails(r) \/ Undo(r) \/ Crash(r)
  \/ AtRest

Spec == Init /\ [][Next]_vars

-----------------------------------------------------------------------------
Sound(u) == u \notin torn /\ u \notin lost
Resting(u) == \A r \in Requests : req[r].user # u

(* Some account that is not deleted is an administrator: two requests that *)
(* demote or delete one another's last rival do not both pass              *)
(* assertNotLastAdmin (accountMutation.ts:64).  Claimed unless a record    *)
(* was written over as it had been read before.                            *)
AdminRemains == lost \intersect Users = {} => \E u \in Users : IsAdmin(u)

(* An account has its address, and no other: lookupUserByEmail finds it    *)
(* after registrations and changes of address raced for the same one.      *)
(* Claimed of accounts no crash or conflict left half-changed.             *)
OneAddress ==
  \A u \in Users :
    Live(u) /\ cred[u] # None /\ Resting(u) /\ Sound(u) =>
      \A e \in Emails : index[e] = u <=> user[u].email = e

(* The link a change of address mailed last can be used, until a logout or *)
(* a reset of the password voids it (admin.ts:533-536).                    *)
MailedLinkWorks ==
  \A u \in Users :
    mailed[u] # NoLink /\ Sound(u) =>
      /\ links[mailed[u]] # None /\ cred[u] # None
      /\ links[mailed[u]].used \/ links[mailed[u]].version = cred[u].version

(* A pilot made for an account is the one the account is linked to: the    *)
(* user and an administrator may make one at once, and fail or repeat.     *)
(* Not claimed of accounts that an administrator linked or unlinked by     *)
(* hand: setUserRoles writes pilotId and leaves the pilots as they are     *)
(* (admin.ts:440-445).                                                     *)
OnePilot ==
  \A u \in Users \ relinked, p \in Pilots :
    /\ Live(u) /\ Resting(u) /\ Sound(u)
    /\ pilot[p] # None /\ pilot[p].user = u /\ Sound(p)
    => user[u].pilot = p

(* An address is claimed for a pilot that exists and is listed: a request  *)
(* that fails after the claim gives it back (issue #126).  Claimed of      *)
(* pilots no request died over.                                            *)
ClaimBacked ==
  \A e \in Emails :
    LET p == claims[e]
    IN p # None /\ Sound(p) /\ (\A r \in Requests : req[r].pilot # p)
         => pilot[p] # None /\ p \in listed

(* Account, pilot and claim on the address belong together.                *)
PilotsBelong == OnePilot /\ ClaimBacked
=============================================================================
