---------------------------- MODULE AccountsProofs ----------------------------
(***************************************************************************)
(* Proofs about accounts and their pilots, for every number of accounts,   *)
(* addresses, pilots, requests and faults: an administrator remains, an    *)
(* account has its address, the link mailed last works, and account, pilot *)
(* and claim belong together, under the conditions the properties name.    *)
(***************************************************************************)
EXTENDS Accounts, TLAPS

-----------------------------------------------------------------------------
(* Types.                                                                  *)

(* The requests that hold the lock of account mutations, and those that    *)
(* make a pilot.                                                           *)
Locking == {"roles", "delete", "email", "adminPilot"}
Makers == {"adminPilot", "myPilot", "newPilot"}

(* The request writes the record that it has read.                         *)
Carries(q) ==
  \/ q.op = "register" /\ q.at \in {"user", "index", "collect", "accept"}
  \/ q.op = "roles" /\ q.at = "write"
  \/ q.op = "delete" /\ q.at = "tomb"
  \/ q.op = "email" /\ q.at \in {"index", "unverify", "claim", "user"}
  \/ q.op = "myPilot" /\ q.at = "write"

Steps(q) ==
  \/ q.op = "register" /\ q.at \in {"cred", "find", "user", "index", "collect", "existing",
                                    "accept", "mint", "document"}
  \/ q.op = "resend" /\ q.at \in {"mint", "document"}
  \/ q.op = "verify" /\ q.at = "verify"
  \/ q.op = "roles" /\ q.at \in {"lock", "begin", "write"}
  \/ q.op = "delete" /\ q.at \in {"lock", "begin", "tomb", "unindex", "uncred", "unlink",
                                  "unclaim", "unuser"}
  \/ q.op = "email" /\ q.at \in {"lock", "begin", "index", "unverify", "claim", "user",
                                 "sweep", "mint", "document"}
  \/ q.op = "adminPilot" /\ q.at \in {"lock", "begin", "ensure", "relist", "reclaim",
                                      "claim", "pilot", "list", "link"}
  \/ q.op = "myPilot" /\ q.at \in {"claim", "pilot", "list", "link", "write", "undo"}
  \/ q.op \in {"newPilot", "editPilot"} /\ q.at \in {"claim", "pilot", "list", "undo"}

Shaped(q) ==
  /\ q = Idle \/ (Steps(q) /\ q.at # "idle")
  /\ q.op \in {"register", "resend", "verify", "myPilot"} \union Locking => q.user \in Users
  /\ q.op \in {"newPilot", "editPilot"} => q.user = None
  /\ q.op \in {"register", "email", "myPilot", "newPilot", "editPilot"} => q.email \in Emails
  /\ q.op = "adminPilot" => q.pilot = OwnPilot[q.user]
  /\ q.op = "adminPilot" /\ q.at \notin {"lock", "begin"} => q.email \in Emails
  /\ q.op \in {"myPilot", "newPilot", "editPilot"} => q.pilot \in Pilots
  /\ q.op \in {"myPilot", "newPilot"} => \A u \in Users : OwnPilot[u] # q.pilot
  /\ q.op \notin Makers \union {"editPilot"} => q.pilot = None
  /\ Carries(q) => q.doc \in Records
  /\ q.op = "register" /\ Carries(q) => ~q.doc.admin /\ q.doc.email = q.email
  /\ q.op = "register" /\ q.at = "collect" => q.rival \in Users
  /\ q.op = "editPilot" => q.doc \in PilotDocs
  /\ q.op = "roles" => q.version \in {0, 1, 2}

Types == TypeOK /\ \A r \in Requests : Shaped(req[r])

(* The lock is held by the one request that went past it.                  *)
Holds(q) == q.op \in Locking /\ q.at # "lock"
Locked == \A r \in Requests : lock = r <=> Holds(req[r])

LEMMA IdleIs ==
  /\ Idle \in Process /\ Idle.op = "none" /\ Idle.at = "idle" /\ Idle.user = None
  /\ Idle.email = None /\ Idle.pilot = None /\ Idle.doc = None /\ Idle.version = 0
  /\ Idle.rival = None /\ Shaped(Idle) /\ ~Holds(Idle)
<1>1. /\ Idle.op = "none" /\ Idle.at = "idle" /\ Idle.user = None
      /\ Idle.email = None /\ Idle.pilot = None /\ Idle.doc = None /\ Idle.version = 0
      /\ Idle.rival = None
  BY DEF Idle
<1>4. Idle \in Process
  BY DEF Idle, Process, Ops, Places
<1>5. Shaped(Idle) /\ ~Holds(Idle)
  BY <1>1 DEF Shaped, Carries, Holds, Locking, Makers
<1>. QED
  BY <1>1, <1>4, <1>5

(* What is known of a request.                                             *)
LEMMA RequestIs ==
  ASSUME Types, NEW r \in Requests
  PROVE  /\ req[r] \in Process /\ Shaped(req[r]) /\ (req[r].at = "idle" <=> req[r] = Idle)
         /\ r # None /\ req \in [Requests -> Process]
         /\ req[r].op \in Ops /\ req[r].at \in Places
         /\ req[r].user \in Users \union {None} /\ req[r].email \in Emails \union {None}
         /\ req[r].pilot \in Pilots \union {None} /\ req[r].version \in Nat
         /\ req[r].doc \in Records \union PilotDocs \union {None}
         /\ req[r].rival \in Users \union {None}
BY AccountsAssumption DEF Types, TypeOK, Process

LEMMA ConstantTypes ==
  /\ None \notin Users /\ None \notin Pilots /\ None \notin Requests
  /\ None \notin Credentials /\ None \notin Records /\ None \notin PilotDocs /\ None \notin Links
  /\ MaxOps \in Nat /\ MaxFaults \in Nat /\ NoLink \notin LinkIds /\ LinkIds \subseteq Nat
  /\ OwnPilot \in [Users -> Pilots] /\ AddressOf \in [Users -> Emails]
BY AccountsAssumption DEF Credentials, Records, PilotDocs, Links, NoLink, LinkIds

LEMMA OwnPilots ==
  ASSUME NEW u \in Users, NEW v \in Users, OwnPilot[u] = OwnPilot[v]
  PROVE  u = v
BY AccountsAssumption

-----------------------------------------------------------------------------
(* The kinds of step.                                                      *)

Kin(n, q) == n.op = q.op /\ n.user = q.user /\ n.email = q.email /\ n.pilot = q.pilot
Same(n, q) == Kin(n, q) /\ n.doc = q.doc /\ n.version = q.version /\ n.rival = q.rival

(* A step of one request.                                                  *)
Becomes(r) ==
  /\ req' \in [Requests -> Process] /\ \A s \in Requests \ {r} : req'[s] = req[s]
  /\ Shaped(req'[r]) /\ (req'[r].at = "idle" <=> req'[r] = Idle)
  /\ lock' = IF Holds(req'[r]) THEN r ELSE IF lock = r THEN None ELSE lock
  /\ Holds(req'[r]) => lock \in {None, r}
  /\ ops' \in 0 .. MaxOps /\ faults' \in [kinds : Worlds, count : 0 .. MaxFaults]

Goes(r, at) == Becomes(r) /\ req'[r].at = at /\ Same(req'[r], req[r])
Ends(r) == Becomes(r) /\ req'[r] = Idle
Enters(r) == Becomes(r) /\ req[r] = Idle
Still == UNCHANGED <<accounts, pilots, mails, history>>

(* A request begins.                                                       *)
BeginsRegister(r) ==
  /\ Enters(r) /\ Still /\ req'[r].op = "register" /\ req'[r].doc = None
  /\ \/ req'[r].at = "existing" /\ index[req'[r].email] = req'[r].user
     \/ req'[r].at = "cred" /\ Fresh(req'[r].user)
BeginsFor(r) ==
  /\ Enters(r) /\ Still /\ req'[r].doc = None
  /\ \/ req'[r].op = "resend" /\ req'[r].at = "mint"
     \/ req'[r].op \in Locking /\ req'[r].at = "lock"
  /\ req'[r].user \in Indexed \/ tomb[req'[r].user] # None
BeginsMine(r) ==
  /\ Enters(r) /\ Still /\ req'[r].op = "myPilot" /\ req'[r].at = "claim" /\ req'[r].doc = None
  /\ Live(req'[r].user) /\ cred[req'[r].user] # None /\ cred[req'[r].user].verified
  /\ user[req'[r].user].pilot = None /\ req'[r].email = user[req'[r].user].email
  /\ UnusedPilot(req'[r].pilot)
BeginsNew(r) ==
  /\ Enters(r) /\ Still /\ req'[r].op = "newPilot" /\ req'[r].at = "claim" /\ req'[r].doc = None
  /\ UnusedPilot(req'[r].pilot)
BeginsEdit(r) ==
  /\ Enters(r) /\ Still /\ req'[r].op = "editPilot" /\ req'[r].at = "claim"
  /\ pilot[req'[r].pilot] # None /\ req'[r].pilot \in listed
  /\ req'[r].doc = pilot[req'[r].pilot] /\ req'[r].version = 0
BeginsVerify(r) ==
  /\ Enters(r) /\ req'[r].op = "verify" /\ req'[r].doc = None
  /\ \E n \in LinkIds : /\ links[n] # None /\ ~links[n].used /\ req'[r].user = links[n].user
                        /\ links' = [links EXCEPT ![n].used = TRUE]
  /\ UNCHANGED <<accounts, pilots, latest, mailed, history>>

(* A request goes on with what it read, and nothing else changes.          *)
Locks(r) == Goes(r, "begin") /\ Still /\ req[r].at = "lock" /\ req[r].op \in Locking
Remints(r) == Goes(r, "mint") /\ Still /\ At(r, "register", "existing")
Fails(r) ==
  /\ Goes(r, "undo") /\ Still /\ req[r].op \in {"myPilot", "newPilot", "editPilot"}
  /\ req[r].at \in {"pilot", "list", "write", "link"}
Retries(r) ==
  Goes(r, "unindex") /\ Still /\ At(r, "delete", "begin") /\ tomb[req[r].user] # None
Stops(r) ==
  /\ Ends(r) /\ Still
  /\ \/ req[r].at \in {"mint", "existing", "begin"} \/ At(r, "email", "index")
     \/ req[r].at = "claim" /\ req[r].op # "email"
Reads(r, op, from, to) ==
  /\ Becomes(r) /\ Still /\ Kin(req'[r], req[r]) /\ req[r].op = op /\ req[r].at = from
  /\ req'[r].at = to
Finds(r) ==
  /\ Reads(r, "register", "find", "user")
  /\ req'[r].doc.pilot # None =>
       claims[req[r].email] = req'[r].doc.pilot /\ pilot[req'[r].doc.pilot] # None
Loses(r) ==
  /\ Reads(r, "register", "index", "collect") /\ req'[r].doc = req[r].doc
  /\ req'[r].rival = index[req[r].email] /\ req'[r].rival \notin {None, req[r].user}
ReadsVersion(r) ==
  /\ Reads(r, req[r].op, "mint", "document") /\ req[r].op \in {"register", "resend", "email"}
  /\ cred[req[r].user] # None /\ req'[r].version = cred[req[r].user].version
  /\ req'[r].doc = req[r].doc
ReadsRoles(r) ==
  /\ Reads(r, "roles", "begin", "write")
  /\ req'[r].version = req[r].version /\ req'[r].doc = user[req[r].user]
  /\ user[req[r].user].admin /\ req[r].version = 0 => AnotherAdmin(req[r].user)
ReadsDelete(r) ==
  /\ Reads(r, "delete", "begin", "tomb") /\ req'[r].doc = user[req[r].user]
  /\ user[req[r].user].admin => AnotherAdmin(req[r].user)
ReadsEmail(r) ==
  /\ Reads(r, "email", "begin", "index") /\ req'[r].doc = user[req[r].user]
ReadsAdmin(r) ==
  /\ Becomes(r) /\ Still /\ At(r, "adminPilot", "begin") /\ req'[r].op = "adminPilot"
  /\ req'[r].user = req[r].user /\ req'[r].pilot = req[r].pilot /\ req'[r].doc = req[r].doc
  /\ user[req[r].user] # None /\ user[req[r].user].pilot \in {None, req[r].pilot}
  /\ req'[r].email = user[req[r].user].email
  /\ req'[r].at = IF user[req[r].user].pilot = req[r].pilot THEN "ensure" ELSE "claim"
ReadsMine(r) ==
  /\ Becomes(r) /\ Still /\ At(r, "myPilot", "link") /\ Kin(req'[r], req[r])
  /\ req'[r].version = req[r].version /\ req'[r].doc = user[req[r].user]
  /\ req'[r].at = IF user[req[r].user] = None THEN "undo" ELSE "write"

(* Steps with several outcomes, each a kind of its own.                    *)
WinsAddress(r) ==
  /\ Goes(r, "accept") /\ At(r, "register", "index")
  /\ index[req[r].email] \in {None, req[r].user}
  /\ index' = [index EXCEPT ![req[r].email] = req[r].user]
  /\ UNCHANGED <<cred, user, tomb, pilots, mails, history>>
Collects(r) ==
  /\ Becomes(r) /\ At(r, "register", "collect")
  /\ req'[r].op = "register" /\ req'[r].at = "existing" /\ req'[r].email = req[r].email
  /\ req'[r].user = req[r].rival /\ req[r].rival # None /\ req'[r].doc = req[r].doc
  /\ cred' = [cred EXCEPT ![req[r].user] = None]
  /\ user' = [user EXCEPT ![req[r].user] = None]
  /\ UNCHANGED <<tomb, index, pilots, mails, history>>
MovesIndex(r) ==
  /\ Goes(r, "unverify") /\ At(r, "email", "index")
  /\ index[req[r].email] \in {None, req[r].user}
  /\ index' = [index EXCEPT ![req[r].doc.email] = None, ![req[r].email] = req[r].user]
  /\ torn' = torn \union ({index[req[r].doc.email]} \ {None, req[r].user})
  /\ UNCHANGED <<cred, user, tomb, pilots, mails, lost, relinked>>
MovesClaim(r) ==
  /\ Goes(r, "user") /\ At(r, "email", "claim")
  /\ claims[req[r].email] \in {None, req[r].doc.pilot}
  /\ claims' = [claims EXCEPT ![req[r].doc.email] = None, ![req[r].email] = req[r].doc.pilot]
  /\ LET old == claims[req[r].doc.email]
         freed == IF old = None THEN {} ELSE {old} \union MadeFor(old)
     IN torn' = torn \union (freed \ {req[r].user, req[r].doc.pilot})
  /\ UNCHANGED <<accounts, pilot, listed, mails, lost, relinked>>
LosesClaim(r) ==
  /\ Ends(r) /\ At(r, "email", "claim") /\ torn' = torn \union {req[r].user}
  /\ UNCHANGED <<accounts, pilots, mails, lost, relinked>>
Claims(r) ==
  /\ Becomes(r) /\ Kin(req'[r], req[r]) /\ req'[r].doc = req[r].doc
  /\ req[r].at = "claim" /\ req[r].op \in Makers \union {"editPilot"} /\ Claimable(r)
  /\ req'[r].at = "pilot" /\ req'[r].version = IF claims[req[r].email] = None THEN 1 ELSE 0
  /\ claims' = [claims EXCEPT ![req[r].email] = req[r].pilot]
  /\ UNCHANGED <<accounts, pilot, listed, mails, history>>
Lists(r) ==
  /\ req[r].at = "list" /\ req[r].op \in Makers \union {"editPilot"}
  /\ IF req[r].op \in {"newPilot", "editPilot"} THEN Ends(r) ELSE Goes(r, "link")
  /\ listed' = listed \union {req[r].pilot}
  /\ UNCHANGED <<accounts, claims, pilot, mails, history>>
Drops(r) ==
  /\ DeleteCred(r)
  /\ Goes(r, IF tomb[req[r].user].pilot = None THEN "unuser" ELSE "unlink")
Unverifies(r) ==
  /\ EmailUnverify(r) /\ Goes(r, IF req[r].doc.pilot = None THEN "user" ELSE "claim")

QuietStep(r) ==
  \/ BeginsRegister(r) \/ BeginsFor(r) \/ BeginsMine(r) \/ BeginsNew(r) \/ BeginsEdit(r)
  \/ Locks(r) \/ Remints(r) \/ Fails(r) \/ Retries(r) \/ Stops(r)
  \/ Finds(r) \/ Loses(r) \/ ReadsVersion(r) \/ ReadsRoles(r) \/ ReadsDelete(r) \/ ReadsEmail(r)
  \/ ReadsAdmin(r) \/ ReadsMine(r)
AccountStep(r) ==
  \/ BeginsVerify(r)
  \/ RegisterCred(r) /\ Goes(r, "find")
  \/ RegisterUser(r) /\ Goes(r, "index")
  \/ WinsAddress(r) \/ Collects(r)
  \/ RegisterAccept(r) /\ Goes(r, "mint")
  \/ MintLink(r) /\ Ends(r)
  \/ VerifyCred(r) /\ Ends(r)
  \/ RolesWrite(r) /\ Ends(r)
  \/ DeleteTomb(r) /\ Goes(r, "unindex")
  \/ DeleteIndex(r) /\ Goes(r, "uncred")
  \/ Drops(r)
  \/ DeleteUser(r) /\ Ends(r)
  \/ MovesIndex(r) \/ Unverifies(r)
  \/ EmailUser(r) /\ Goes(r, "sweep")
  \/ EmailSweep(r) /\ Goes(r, "mint")
PilotStep(r) ==
  \/ DeleteLink(r) /\ Goes(r, "unclaim")
  \/ DeleteClaim(r) /\ Goes(r, "unuser")
  \/ MovesClaim(r) \/ LosesClaim(r)
  \/ AdminPilotEnsure(r) /\ Goes(r, "relist")
  \/ AdminPilotRelist(r) /\ Goes(r, "reclaim")
  \/ AdminPilotReclaim(r) /\ Ends(r)
  \/ AdminPilotLink(r) /\ Ends(r)
  \/ Claims(r)
  \/ WritePilot(r) /\ Goes(r, "list")
  \/ Lists(r)
  \/ MyPilotWrite(r) /\ Ends(r)
  \/ Undo(r) /\ Ends(r)
  \/ Crash(r) /\ Ends(r)
RequestStep(r) == QuietStep(r) \/ AccountStep(r) \/ PilotStep(r)
Step ==
  \/ \E r \in Requests : RequestStep(r)
  \/ \E u \in Users : (AdminVerify(u) \/ Bump(u)) /\ ops' \in 0 .. MaxOps
  \/ UNCHANGED vars

-----------------------------------------------------------------------------
(* Every step is of one of these kinds.                                    *)

LEMMA GotoIs ==
  ASSUME Types, NEW r \in Requests, NEW at \in Places, Goto(r, at)
  PROVE  /\ req' \in [Requests -> Process] /\ \A s \in Requests \ {r} : req'[s] = req[s]
         /\ req'[r].at = at /\ Same(req'[r], req[r])
<1>1. req \in [Requests -> Process] /\ req[r] \in Process
  BY RequestIs
<1>. PICK next : next = [req[r] EXCEPT !.at = at]
  OBVIOUS
<1>2. next \in Process /\ next.at = at /\ Same(next, req[r])
  BY <1>1 DEF Process, Same, Kin
<1>3. req' = [req EXCEPT ![r] = next]
  BY DEF Goto
<1>. QED
  BY <1>1, <1>2, <1>3

(* The ways of a request that keep what it has read.                       *)
Path(q, at) ==
  \/ /\ q.op = "register"
     /\ \/ q.at = "cred" /\ at = "find"
        \/ q.at = "user" /\ at = "index"
        \/ q.at = "index" /\ at = "accept"
        \/ q.at \in {"accept", "existing"} /\ at = "mint"
  \/ /\ q.op = "delete"
     /\ \/ q.at \in {"tomb", "begin"} /\ at = "unindex"
        \/ q.at = "unindex" /\ at = "uncred"
        \/ q.at = "uncred" /\ at \in {"unlink", "unuser"}
        \/ q.at = "unlink" /\ at = "unclaim"
        \/ q.at = "unclaim" /\ at = "unuser"
  \/ /\ q.op = "email"
     /\ \/ q.at = "index" /\ at = "unverify"
        \/ q.at = "unverify" /\ at \in {"claim", "user"}
        \/ q.at = "claim" /\ at = "user"
        \/ q.at = "user" /\ at = "sweep"
        \/ q.at = "sweep" /\ at = "mint"
  \/ /\ q.op = "adminPilot"
     /\ \/ q.at = "ensure" /\ at = "relist"
        \/ q.at = "relist" /\ at = "reclaim"
        \/ q.at = "pilot" /\ at = "list"
        \/ q.at = "list" /\ at = "link"
  \/ /\ q.op \in {"myPilot", "newPilot", "editPilot"}
     /\ \/ q.at = "pilot" /\ at = "list"
        \/ q.op = "myPilot" /\ q.at = "list" /\ at = "link"
        \/ q.at \in {"pilot", "list"} /\ at = "undo"
        \/ q.op = "myPilot" /\ q.at \in {"link", "write"} /\ at = "undo"

LEMMA GoesIs ==
  ASSUME Types, Locked, NEW r \in Requests, NEW at \in Places, Goto(r, at), Path(req[r], at),
         UNCHANGED <<lock, ops>>, faults' \in [kinds : Worlds, count : 0 .. MaxFaults]
  PROVE  Goes(r, at)
<1>1. /\ req' \in [Requests -> Process] /\ \A s \in Requests \ {r} : req'[s] = req[s]
      /\ req'[r].at = at /\ Same(req'[r], req[r])
  BY GotoIs
<1>. PICK q : q = req[r]
  OBVIOUS
<1>. PICK next : next = req'[r]
  OBVIOUS
<1>2. Shaped(q) /\ Same(next, q) /\ next.at = at /\ Path(q, at) /\ at # "idle"
  BY <1>1, RequestIs DEF Path
<1>3. Steps(q) /\ q # Idle
  BY <1>2, IdleIs DEF Shaped, Path
<1>4. Steps(next)
  BY <1>2 DEF Steps, Path, Same, Kin
<1>5. Carries(next) => Carries(q)
  BY <1>2 DEF Carries, Path, Same, Kin
<1>6. Shaped(next)
  BY <1>2, <1>4, <1>5 DEF Shaped, Same, Kin, Locking, Makers, Path
<1>7. Holds(next) <=> Holds(q)
  BY <1>2, <1>3 DEF Holds, Path, Same, Kin, Locking
<1>8. lock = r <=> Holds(q)
  BY DEF Locked
<1>9. next # Idle /\ ops' \in 0 .. MaxOps
  BY <1>2, IdleIs DEF Types, TypeOK
<1>. QED
  BY <1>1, <1>2, <1>6, <1>7, <1>8, <1>9 DEF Goes, Becomes

LEMMA EndsIs ==
  ASSUME Types, Locked, NEW r \in Requests, Finish(r),
         ops' = ops, faults' \in [kinds : Worlds, count : 0 .. MaxFaults]
  PROVE  Ends(r)
<1>1. req' \in [Requests -> Process] /\ req'[r] = Idle /\ \A s \in Requests \ {r} : req'[s] = req[s]
  BY RequestIs, IdleIs DEF Finish
<1>2. ops' \in 0 .. MaxOps
  BY DEF Types, TypeOK
<1>. QED
  BY <1>1, <1>2, IdleIs DEF Ends, Becomes, Finish

LEMMA EntersIs ==
  ASSUME Types, Locked, NEW r \in Requests, NEW n \in Process, Start(r, n), Shaped(n),
         n.at # "idle", ~Holds(n), UNCHANGED <<lock, faults>>
  PROVE  Enters(r) /\ req'[r] = n
<1>1. req[r] = Idle /\ req' = [req EXCEPT ![r] = n] /\ ops' = ops + 1 /\ ops < MaxOps
  BY DEF Start
<1>2. req' \in [Requests -> Process] /\ req'[r] = n /\ \A s \in Requests \ {r} : req'[s] = req[s]
  BY <1>1, RequestIs
<1>3. ops' \in 0 .. MaxOps /\ faults' \in [kinds : Worlds, count : 0 .. MaxFaults]
  BY <1>1, ConstantTypes DEF Types, TypeOK
<1>4. n # Idle /\ lock # r
  BY <1>1, IdleIs DEF Locked
<1>. QED
  BY <1>1, <1>2, <1>3, <1>4 DEF Enters, Becomes

(* A request that reads: what it becomes is named, then seen to fit.       *)
LEMMA BecomesIs ==
  ASSUME Types, Locked, NEW r \in Requests, NEW n \in Process, req' = [req EXCEPT ![r] = n],
         Shaped(n), n.at # "idle", Holds(n) <=> Holds(req[r]), UNCHANGED <<lock, ops, faults>>
  PROVE  Becomes(r) /\ req'[r] = n
<1>1. req' \in [Requests -> Process] /\ req'[r] = n /\ \A s \in Requests \ {r} : req'[s] = req[s]
  BY RequestIs
<1>2. ops' \in 0 .. MaxOps /\ faults' \in [kinds : Worlds, count : 0 .. MaxFaults]
  BY DEF Types, TypeOK
<1>3. n # Idle /\ (lock = r <=> Holds(n))
  BY IdleIs DEF Locked
<1>. QED
  BY <1>1, <1>2, <1>3 DEF Becomes

(* Steps that go one way.                                                  *)
LEMMA PathSteps ==
  ASSUME Types, Locked, NEW r \in Requests
  PROVE  /\ RegisterCred(r) => Goes(r, "find")
         /\ RegisterUser(r) => Goes(r, "index")
         /\ RegisterAccept(r) => Goes(r, "mint")
         /\ DeleteTomb(r) => Goes(r, "unindex")
         /\ DeleteIndex(r) => Goes(r, "uncred")
         /\ DeleteCred(r) => Drops(r)
         /\ DeleteLink(r) => Goes(r, "unclaim")
         /\ DeleteClaim(r) => Goes(r, "unuser")
         /\ EmailUnverify(r) => Unverifies(r)
         /\ EmailUser(r) => Goes(r, "sweep")
         /\ EmailSweep(r) => Goes(r, "mint")
         /\ AdminPilotEnsure(r) => Goes(r, "relist")
         /\ AdminPilotRelist(r) => Goes(r, "reclaim")
         /\ WritePilot(r) => Goes(r, "list")
         /\ PilotFails(r) => Fails(r)
<1>1. faults \in [kinds : Worlds, count : 0 .. MaxFaults]
  BY DEF Types, TypeOK
<1>2. req[r].op \in Ops /\ req[r].at \in Places /\ Shaped(req[r])
  BY RequestIs
<1>3. Fault("fail") => faults' \in [kinds : Worlds, count : 0 .. MaxFaults]
  BY <1>1, ConstantTypes DEF Fault
<1>4. RegisterCred(r) => Goes(r, "find")
  BY <1>1, GoesIs DEF RegisterCred, At, Path, Places
<1>5. RegisterUser(r) => Goes(r, "index")
  BY <1>1, GoesIs DEF RegisterUser, At, Path, Places
<1>6. RegisterAccept(r) => Goes(r, "mint")
  BY <1>1, GoesIs DEF RegisterAccept, At, Path, Places
<1>7. DeleteTomb(r) => Goes(r, "unindex")
  BY <1>1, GoesIs DEF DeleteTomb, At, Path, Places
<1>8. DeleteIndex(r) => Goes(r, "uncred")
  BY <1>1, GoesIs DEF DeleteIndex, At, Path, Places
<1>9. DeleteLink(r) => Goes(r, "unclaim")
  BY <1>1, GoesIs DEF DeleteLink, At, Path, Places
<1>10. DeleteClaim(r) => Goes(r, "unuser")
  BY <1>1, GoesIs DEF DeleteClaim, At, Path, Places
<1>11. EmailUser(r) => Goes(r, "sweep")
  BY <1>1, GoesIs DEF EmailUser, At, Path, Places
<1>12. EmailSweep(r) => Goes(r, "mint")
  BY <1>1, GoesIs DEF EmailSweep, At, Path, Places
<1>13. AdminPilotEnsure(r) => Goes(r, "relist")
  BY <1>1, GoesIs DEF AdminPilotEnsure, At, Path, Places
<1>14. AdminPilotRelist(r) => Goes(r, "reclaim")
  BY <1>1, GoesIs DEF AdminPilotRelist, At, Path, Places
<1>15. DeleteCred(r) => Drops(r)
  BY <1>1, GoesIs DEF DeleteCred, Drops, At, Path, Places
<1>16. EmailUnverify(r) => Unverifies(r)
  BY <1>1, GoesIs DEF EmailUnverify, Unverifies, At, Path, Places
<1>17. ASSUME WritePilot(r) PROVE Goes(r, "list")
  <2>1. req[r].op \in {"adminPilot", "myPilot", "newPilot", "editPilot"}
    BY <1>2, <1>17, IdleIs DEF Shaped, Steps, WritePilot
  <2>. QED
    BY <1>1, <1>17, <2>1, GoesIs DEF WritePilot, Path, Places
<1>18. ASSUME PilotFails(r) PROVE Fails(r)
  <2>1. /\ req[r].at \in {"pilot", "list", "write", "link"} /\ Path(req[r], "undo") /\ Still
        /\ req[r].op \in {"myPilot", "newPilot", "editPilot"} /\ Goto(r, "undo")
    BY <1>2, <1>18, IdleIs DEF Shaped, Steps, PilotFails, Path, At, Still
  <2>2. Goes(r, "undo")
    BY <1>3, <1>18, <2>1, GoesIs DEF PilotFails, Places
  <2>. QED
    BY <2>1, <2>2 DEF Fails
<1>. QED
  BY <1>4, <1>5, <1>6, <1>7, <1>8, <1>9, <1>10, <1>11, <1>12, <1>13, <1>14, <1>15, <1>16, <1>17,
     <1>18

(* Steps that end a request.                                               *)
LEMMA EndSteps ==
  ASSUME Types, Locked, NEW r \in Requests
  PROVE  /\ MintLink(r) => Ends(r)
         /\ VerifyCred(r) => Ends(r)
         /\ RolesWrite(r) => Ends(r)
         /\ DeleteUser(r) => Ends(r)
         /\ AdminPilotReclaim(r) => Ends(r)
         /\ AdminPilotLink(r) => Ends(r)
         /\ MyPilotWrite(r) => Ends(r)
         /\ Undo(r) => Ends(r)
         /\ Crash(r) => Ends(r)
<1>1. faults \in [kinds : Worlds, count : 0 .. MaxFaults]
  BY DEF Types, TypeOK
<1>2. Fault("crash") => faults' \in [kinds : Worlds, count : 0 .. MaxFaults]
  BY <1>1, ConstantTypes DEF Fault
<1>4. MintLink(r) => Ends(r)
  BY <1>1, EndsIs DEF MintLink
<1>5. VerifyCred(r) => Ends(r)
  BY <1>1, EndsIs DEF VerifyCred
<1>6. RolesWrite(r) => Ends(r)
  BY <1>1, EndsIs DEF RolesWrite
<1>7. DeleteUser(r) => Ends(r)
  BY <1>1, EndsIs DEF DeleteUser
<1>8. AdminPilotReclaim(r) => Ends(r)
  BY <1>1, EndsIs DEF AdminPilotReclaim
<1>9. AdminPilotLink(r) => Ends(r)
  BY <1>1, EndsIs DEF AdminPilotLink
<1>10. MyPilotWrite(r) => Ends(r)
  BY <1>1, EndsIs DEF MyPilotWrite
<1>11. Undo(r) => Ends(r)
  BY <1>1, EndsIs DEF Undo
<1>12. Crash(r) => Ends(r)
  BY <1>2, EndsIs DEF Crash
<1>. QED
  BY <1>4, <1>5, <1>6, <1>7, <1>8, <1>9, <1>10, <1>11, <1>12

LEMMA NewIs ==
  ASSUME NEW op \in Ops, NEW at \in Places, NEW u \in Users \union {None}
  PROVE  LET n == New(op, at, u)
         IN /\ n \in Process /\ n.op = op /\ n.at = at /\ n.user = u /\ n.email = None
            /\ n.pilot = None /\ n.doc = None /\ n.version = 0
BY IdleIs DEF New, Process

(* Steps that begin a request.                                             *)
LEMMA RegisterIs ==
  ASSUME Types, Locked, NEW r \in Requests, NEW u \in Users, NEW e \in Emails, Register(r, u, e)
  PROVE  BeginsRegister(r)
<1>. DEFINE at == IF Fresh(u) THEN "cred" ELSE "existing"
<1>1. at \in {"cred", "existing"}
  OBVIOUS
<1>2. at = "cred" => Fresh(u)
  OBVIOUS
<1>3. at = "existing" => ~Fresh(u)
  OBVIOUS
<1>4. Start(r, [New("register", at, u) EXCEPT !.email = e])
  BY DEF Register
<1>5. ~Fresh(u) => index[e] = u
  BY DEF Register
<1>. HIDE DEF at
<1>. PICK n : n = [New("register", at, u) EXCEPT !.email = e]
  OBVIOUS
<1>6. "register" \in Ops /\ at \in Places
  BY <1>1 DEF Ops, Places
<1>7. /\ n \in Process /\ n.op = "register" /\ n.at = at /\ n.user = u /\ n.email = e /\ n.pilot = None
      /\ n.doc = None
  BY <1>6, NewIs DEF Process
<1>8. Shaped(n) /\ n.at # "idle" /\ ~Holds(n)
  BY <1>1, <1>7 DEF Shaped, Steps, Carries, Holds, Locking, Makers
<1>9. Enters(r) /\ req'[r] = n
  BY <1>4, <1>7, <1>8, EntersIs DEF Register
<1>. QED
  BY <1>1, <1>2, <1>3, <1>5, <1>7, <1>9 DEF BeginsRegister, Register, Still

LEMMA ResendIs ==
  ASSUME Types, Locked, NEW r \in Requests, NEW e \in Emails, Resend(r, e)
  PROVE  BeginsFor(r)
<1>. PICK n : n = New("resend", "mint", index[e])
  OBVIOUS
<1>1. index[e] \in Users /\ "resend" \in Ops /\ "mint" \in Places
  BY DEF Resend, Types, TypeOK, Ops, Places
<1>2. /\ n \in Process /\ n.op = "resend" /\ n.at = "mint" /\ n.user = index[e] /\ n.pilot = None
      /\ n.doc = None
  BY <1>1, NewIs
<1>3. Shaped(n) /\ n.at # "idle" /\ ~Holds(n)
  BY <1>1, <1>2 DEF Shaped, Steps, Carries, Holds, Locking, Makers
<1>4. Enters(r) /\ req'[r] = n
  BY <1>2, <1>3, EntersIs DEF Resend
<1>. QED
  BY <1>1, <1>2, <1>4 DEF BeginsFor, Resend, Still, Indexed

LEMMA VerifyIs ==
  ASSUME Types, Locked, NEW r \in Requests, NEW n \in LinkIds, Verify(r, n)
  PROVE  BeginsVerify(r)
<1>. PICK q : q = [New("verify", "verify", links[n].user) EXCEPT !.version = links[n].version]
  OBVIOUS
<1>1. links[n] \in Links /\ "verify" \in Ops /\ "verify" \in Places
  BY DEF Verify, Types, TypeOK, Ops, Places
<1>2. links[n].user \in Users /\ links[n].version \in Nat
  BY <1>1 DEF Links
<1>3. /\ q \in Process /\ q.op = "verify" /\ q.at = "verify" /\ q.user = links[n].user
      /\ q.pilot = None /\ q.doc = None
  BY <1>1, <1>2, NewIs DEF Process
<1>4. Shaped(q) /\ q.at # "idle" /\ ~Holds(q)
  BY <1>2, <1>3 DEF Shaped, Steps, Carries, Holds, Locking, Makers
<1>5. Enters(r) /\ req'[r] = q
  BY <1>3, <1>4, EntersIs DEF Verify
<1>. QED
  BY <1>3, <1>5 DEF BeginsVerify, Verify

LEMMA AskIs ==
  ASSUME Types, Locked, NEW r \in Requests, NEW u \in Users, Ask(r, u)
  PROVE  BeginsFor(r)
<1>1. /\ OwnPilot[u] \in Pilots /\ "lock" \in Places /\ Locking \subseteq Ops
      /\ "roles" \in Ops /\ "delete" \in Ops /\ "email" \in Ops /\ "adminPilot" \in Ops
  BY ConstantTypes DEF Locking, Ops, Places
<1>2. ASSUME NEW n \in Process, n.op \in Locking, n.at = "lock", n.user = u, n.doc = None, Shaped(n),
             AskAdmin(r, n)
      PROVE  BeginsFor(r)
  <2>1. n.at # "idle" /\ ~Holds(n)
    BY <1>2 DEF Holds
  <2>2. Enters(r) /\ req'[r] = n
    BY <1>2, <2>1, EntersIs DEF AskAdmin
  <2>. QED
    BY <1>2, <2>2 DEF BeginsFor, AskAdmin, Still
<1>3. CASE AskAdmin(r, New("delete", "lock", u))
  <2>. PICK n : n = New("delete", "lock", u)
    OBVIOUS
  <2>1. /\ n \in Process /\ n.op = "delete" /\ n.at = "lock" /\ n.user = u /\ n.pilot = None
        /\ n.doc = None
    BY <1>1, NewIs
  <2>2. n.op \in Locking /\ Shaped(n)
    BY <2>1 DEF Shaped, Steps, Carries, Locking, Makers
  <2>. QED
    BY <1>2, <1>3, <2>1, <2>2
<1>4. ASSUME NEW v \in {0, 1, 2}, AskAdmin(r, [New("roles", "lock", u) EXCEPT !.version = v])
      PROVE  BeginsFor(r)
  <2>. PICK n : n = [New("roles", "lock", u) EXCEPT !.version = v]
    OBVIOUS
  <2>1. /\ n \in Process /\ n.op = "roles" /\ n.at = "lock" /\ n.user = u /\ n.pilot = None
        /\ n.version \in {0, 1, 2} /\ n.doc = None
    BY <1>1, NewIs DEF Process
  <2>2. n.op \in Locking /\ Shaped(n)
    BY <2>1 DEF Shaped, Steps, Carries, Locking, Makers
  <2>. QED
    BY <1>2, <1>4, <2>1, <2>2
<1>5. ASSUME NEW e \in Emails, AskAdmin(r, [New("email", "lock", u) EXCEPT !.email = e])
      PROVE  BeginsFor(r)
  <2>. PICK n : n = [New("email", "lock", u) EXCEPT !.email = e]
    OBVIOUS
  <2>1. /\ n \in Process /\ n.op = "email" /\ n.at = "lock" /\ n.user = u /\ n.pilot = None
        /\ n.email = e /\ n.doc = None
    BY <1>1, NewIs DEF Process
  <2>2. n.op \in Locking /\ Shaped(n)
    BY <2>1 DEF Shaped, Steps, Carries, Locking, Makers
  <2>. QED
    BY <1>2, <1>5, <2>1, <2>2
<1>6. CASE AskAdmin(r, [New("adminPilot", "lock", u) EXCEPT !.pilot = OwnPilot[u]])
  <2>. PICK n : n = [New("adminPilot", "lock", u) EXCEPT !.pilot = OwnPilot[u]]
    OBVIOUS
  <2>1. /\ n \in Process /\ n.op = "adminPilot" /\ n.at = "lock" /\ n.user = u
        /\ n.pilot = OwnPilot[u] /\ n.doc = None
    BY <1>1, NewIs DEF Process
  <2>2. n.op \in Locking /\ Shaped(n)
    BY <2>1 DEF Shaped, Steps, Carries, Locking, Makers
  <2>. QED
    BY <1>2, <1>6, <2>1, <2>2
<1>. QED
  BY <1>3, <1>4, <1>5, <1>6 DEF Ask

LEMMA MyPilotIs ==
  ASSUME Types, Locked, NEW r \in Requests, NEW u \in Users, NEW p \in Pilots, MyPilot(r, u, p)
  PROVE  BeginsMine(r)
<1>. PICK m : m = New("myPilot", "claim", u)
  OBVIOUS
<1>. PICK n : n = [m EXCEPT !.email = user[u].email, !.pilot = p]
  OBVIOUS
<1>1. user[u] \in Records /\ "myPilot" \in Ops /\ "claim" \in Places
  BY DEF MyPilot, Live, Types, TypeOK, Ops, Places
<1>2. user[u].email \in Emails
  BY <1>1 DEF Records
<1>0. /\ m \in Process /\ m.op = "myPilot" /\ m.at = "claim" /\ m.user = u
      /\ m.version = 0 /\ m.doc = None
  BY <1>1, NewIs
<1>3. /\ n \in Process /\ n.op = "myPilot" /\ n.at = "claim" /\ n.user = u
      /\ n.email = user[u].email /\ n.pilot = p /\ n.doc = None
  BY <1>1, <1>2, <1>0 DEF Process
<1>4. UnusedPilot(p) /\ \A v \in Users : OwnPilot[v] # p
  BY DEF MyPilot, FreshPilot, UnusedPilot
<1>5. Shaped(n) /\ n.at # "idle" /\ ~Holds(n)
  BY <1>2, <1>3, <1>4 DEF Shaped, Steps, Carries, Holds, Locking, Makers
<1>6. Enters(r) /\ req'[r] = n
  BY <1>3, <1>5, EntersIs DEF MyPilot
<1>. QED
  BY <1>3, <1>4, <1>6 DEF BeginsMine, MyPilot, Still

LEMMA NewPilotIs ==
  ASSUME Types, Locked, NEW r \in Requests, NEW e \in Emails, NEW p \in Pilots, NewPilot(r, e, p)
  PROVE  BeginsNew(r)
<1>. PICK m : m = New("newPilot", "claim", None)
  OBVIOUS
<1>. PICK n : n = [m EXCEPT !.email = e, !.pilot = p]
  OBVIOUS
<1>1. "newPilot" \in Ops /\ "claim" \in Places
  BY DEF Ops, Places
<1>0. /\ m \in Process /\ m.op = "newPilot" /\ m.at = "claim" /\ m.user = None
      /\ m.version = 0 /\ m.doc = None
  BY <1>1, NewIs
<1>2. /\ n \in Process /\ n.op = "newPilot" /\ n.at = "claim" /\ n.user = None
      /\ n.email = e /\ n.pilot = p /\ n.doc = None
  BY <1>1, <1>0 DEF Process
<1>3. UnusedPilot(p) /\ \A v \in Users : OwnPilot[v] # p
  BY DEF NewPilot, FreshPilot, UnusedPilot
<1>4. Shaped(n) /\ n.at # "idle" /\ ~Holds(n)
  BY <1>2, <1>3 DEF Shaped, Steps, Carries, Holds, Locking, Makers
<1>5. Enters(r) /\ req'[r] = n
  BY <1>2, <1>4, EntersIs DEF NewPilot
<1>. QED
  BY <1>2, <1>3, <1>5 DEF BeginsNew, NewPilot, Still

LEMMA EditPilotIs ==
  ASSUME Types, Locked, NEW r \in Requests, NEW e \in Emails, NEW p \in Pilots, EditPilot(r, e, p)
  PROVE  BeginsEdit(r)
<1>. PICK m : m = New("editPilot", "claim", None)
  OBVIOUS
<1>. PICK n : n = [m EXCEPT !.email = e, !.pilot = p, !.doc = pilot[p]]
  OBVIOUS
<1>1. "editPilot" \in Ops /\ "claim" \in Places /\ pilot[p] \in PilotDocs
  BY DEF EditPilot, Types, TypeOK, Ops, Places
<1>0. /\ m \in Process /\ m.op = "editPilot" /\ m.at = "claim" /\ m.user = None
      /\ m.version = 0
  BY <1>1, NewIs
<1>2. /\ n \in Process /\ n.op = "editPilot" /\ n.at = "claim" /\ n.user = None
      /\ n.email = e /\ n.pilot = p /\ n.doc = pilot[p] /\ n.version = 0
  BY <1>1, <1>0 DEF Process
<1>3. Shaped(n) /\ n.at # "idle" /\ ~Holds(n)
  BY <1>1, <1>2 DEF Shaped, Steps, Carries, Holds, Locking, Makers
<1>4. Enters(r) /\ req'[r] = n
  BY <1>2, <1>3, EntersIs DEF EditPilot
<1>. QED
  BY <1>2, <1>4 DEF BeginsEdit, EditPilot, Still

LEMMA PlacesAre ==
  /\ "user" \in Places /\ "collect" \in Places /\ "existing" \in Places /\ "document" \in Places
  /\ "write" \in Places /\ "tomb" \in Places /\ "index" \in Places /\ "ensure" \in Places
  /\ "claim" \in Places /\ "undo" \in Places /\ "pilot" \in Places
BY DEF Places

(* Steps that read, and those with several outcomes.                       *)
LEMMA FindIs ==
  ASSUME Types, Locked, NEW r \in Requests, RegisterFind(r)
  PROVE  Finds(r)
<1>. DEFINE p == claims[req[r].email]
           found == IF p # None /\ pilot[p] # None THEN p ELSE None
<1>. PICK q : q = req[r]
  OBVIOUS
<1>. PICK doc : doc = [email |-> q.email, admin |-> FALSE, pilot |-> found]
  OBVIOUS
<1>1. /\ q \in Process /\ Shaped(q) /\ q.op = "register" /\ q.at = "find"
  BY RequestIs DEF RegisterFind, At
<1>2. q.email \in Emails /\ q.user \in Users /\ q.pilot = None
  BY <1>1 DEF Shaped, Locking, Makers
<1>3. p \in Pilots \union {None}
  BY <1>2 DEF Types, TypeOK
<1>4. found \in Pilots \union {None} /\ (found # None => claims[q.email] = found /\ pilot[found] # None)
  BY <1>3
<1>5. req' = [req EXCEPT ![r].at = "user", ![r].doc = doc]
  BY DEF RegisterFind
<1>. HIDE DEF p, found
<1>6. doc \in Records /\ ~doc.admin /\ doc.email = q.email /\ doc.pilot = found
  BY <1>2, <1>4 DEF Records
<1>. PICK n : n = [q EXCEPT !.at = "user", !.doc = doc]
  OBVIOUS
<1>7. n \in Process /\ n.at = "user" /\ Kin(n, q) /\ n.doc = doc
  BY <1>1, <1>6, PlacesAre DEF Process, Kin
<1>8. Shaped(n)
  BY <1>1, <1>2, <1>6, <1>7 DEF Shaped, Steps, Carries, Kin, Locking, Makers
<1>9. req' = [req EXCEPT ![r] = n]
  BY <1>1, <1>5, RequestIs
<1>10. ~Holds(n) /\ ~Holds(q)
  BY <1>1, <1>7 DEF Kin, Holds, Locking
<1>11. Becomes(r) /\ req'[r] = n
  BY <1>7, <1>8, <1>9, <1>10, BecomesIs DEF RegisterFind
<1>12. Still
  BY DEF RegisterFind, Still
<1>. QED
  BY <1>1, <1>4, <1>6, <1>7, <1>11, <1>12 DEF Finds, Reads

LEMMA IndexIs ==
  ASSUME Types, Locked, NEW r \in Requests, RegisterIndex(r)
  PROVE  WinsAddress(r) \/ Loses(r)
<1>1. CASE index[req[r].email] \in {None, req[r].user}
  <2>1. Goto(r, "accept") /\ At(r, "register", "index")
    BY <1>1 DEF RegisterIndex
  <2>2. Goes(r, "accept")
    BY <2>1, GoesIs DEF RegisterIndex, At, Path, Places, Types, TypeOK
  <2>. QED
    BY <1>1, <2>1, <2>2 DEF WinsAddress, RegisterIndex
<1>2. CASE index[req[r].email] \notin {None, req[r].user}
  <2>. PICK q : q = req[r]
    OBVIOUS
  <2>. PICK owner : owner = index[q.email]
    OBVIOUS
  <2>1. q \in Process /\ Shaped(q) /\ q.op = "register" /\ q.at = "index"
    BY RequestIs DEF RegisterIndex, At
  <2>2. q.email \in Emails /\ q.user \in Users /\ q.pilot = None /\ q.doc \in Records
    BY <2>1 DEF Shaped, Carries, Locking, Makers
  <2>3. owner \in Users
    BY <1>2, <2>2 DEF Types, TypeOK
  <2>4. req' = [req EXCEPT ![r].at = "collect", ![r].rival = owner]
    BY <1>2 DEF RegisterIndex
  <2>. PICK n : n = [q EXCEPT !.at = "collect", !.rival = owner]
    OBVIOUS
  <2>5. n \in Process /\ n.at = "collect" /\ Kin(n, q) /\ n.doc = q.doc /\ n.rival = owner
    BY <2>1, <2>3, PlacesAre DEF Process, Kin
  <2>6. Shaped(n)
    BY <2>1, <2>2, <2>3, <2>5 DEF Shaped, Steps, Carries, Kin, Locking, Makers
  <2>7. req' = [req EXCEPT ![r] = n]
    BY <2>4, RequestIs
  <2>8. ~Holds(n) /\ ~Holds(q)
    BY <2>1, <2>5 DEF Kin, Holds, Locking
  <2>9. Becomes(r) /\ req'[r] = n
    BY <2>5, <2>6, <2>7, <2>8, BecomesIs DEF RegisterIndex
  <2>10. Still
    BY <1>2 DEF RegisterIndex, Still, accounts
  <2>. QED
    BY <1>2, <2>1, <2>5, <2>9, <2>10 DEF Loses, Reads
<1>. QED
  BY <1>1, <1>2

LEMMA CollectIs ==
  ASSUME Types, Locked, NEW r \in Requests, RegisterCollect(r)
  PROVE  Collects(r)
<1>. PICK q : q = req[r]
  OBVIOUS
<1>1. q \in Process /\ Shaped(q) /\ q.op = "register" /\ q.at = "collect"
  BY RequestIs DEF RegisterCollect, At
<1>2. q.email \in Emails /\ q.rival \in Users /\ q.rival # None /\ q.pilot = None
  BY <1>1, ConstantTypes DEF Shaped, Locking, Makers
<1>. PICK n : n = [q EXCEPT !.at = "existing", !.user = q.rival]
  OBVIOUS
<1>3. /\ n \in Process /\ n.at = "existing" /\ n.op = "register" /\ n.user = q.rival
      /\ n.email = q.email /\ n.pilot = None /\ n.doc = q.doc
  BY <1>1, <1>2, PlacesAre DEF Process
<1>4. Shaped(n)
  BY <1>2, <1>3 DEF Shaped, Steps, Carries, Locking, Makers
<1>5. req' = [req EXCEPT ![r] = n]
  BY RequestIs DEF RegisterCollect
<1>6. ~Holds(n) /\ ~Holds(q)
  BY <1>1, <1>3 DEF Holds, Locking
<1>7. Becomes(r) /\ req'[r] = n
  BY <1>3, <1>4, <1>5, <1>6, BecomesIs DEF RegisterCollect
<1>. QED
  BY <1>1, <1>2, <1>3, <1>7 DEF Collects, RegisterCollect

LEMMA ExistingIs ==
  ASSUME Types, Locked, NEW r \in Requests, RegisterExisting(r)
  PROVE  Stops(r) \/ Remints(r)
<1>1. CASE Finish(r)
  BY <1>1, EndsIs DEF RegisterExisting, Stops, Still, At, Types, TypeOK
<1>2. CASE Goto(r, "mint") /\ UNCHANGED lock
  <2>1. Goes(r, "mint")
    BY <1>2, GoesIs DEF RegisterExisting, At, Path, Places, Types, TypeOK
  <2>. QED
    BY <2>1 DEF RegisterExisting, Remints, Still
<1>. QED
  BY <1>1, <1>2 DEF RegisterExisting

LEMMA LockIs ==
  ASSUME Types, Locked, NEW r \in Requests, TakeLock(r)
  PROVE  Locks(r)
<1>1. req[r] \in Process /\ Shaped(req[r]) /\ req[r].at = "lock"
  BY RequestIs DEF TakeLock
<1>2. req[r].op \in Locking
  BY <1>1, IdleIs DEF Shaped, Steps, Locking
<1>3. /\ req' \in [Requests -> Process] /\ \A s \in Requests \ {r} : req'[s] = req[s]
      /\ req'[r].at = "begin" /\ Same(req'[r], req[r])
  BY GotoIs DEF TakeLock, Places
<1>4. Shaped(req'[r]) /\ Holds(req'[r]) /\ req'[r] # Idle
  BY <1>1, <1>2, <1>3, IdleIs DEF Shaped, Steps, Carries, Same, Kin, Locking, Makers, Holds
<1>5. ops' \in 0 .. MaxOps /\ faults' \in [kinds : Worlds, count : 0 .. MaxFaults]
  BY DEF TakeLock, Types, TypeOK
<1>. QED
  BY <1>1, <1>2, <1>3, <1>4, <1>5 DEF TakeLock, Locks, Goes, Becomes, Still

LEMMA MintReadIs ==
  ASSUME Types, Locked, NEW r \in Requests, MintRead(r)
  PROVE  Stops(r) \/ ReadsVersion(r)
<1>1. CASE cred[req[r].user] = None
  BY <1>1, EndsIs DEF MintRead, Stops, Still, Types, TypeOK
<1>2. CASE cred[req[r].user] # None
  <2>. PICK q : q = req[r]
    OBVIOUS
  <2>. PICK version : version = cred[q.user].version
    OBVIOUS
  <2>1. q \in Process /\ Shaped(q) /\ q.at = "mint"
    BY RequestIs DEF MintRead
  <2>2. q.op \in {"register", "resend", "email"} /\ q # Idle
    BY <2>1, IdleIs DEF Shaped, Steps
  <2>3. q.user \in Users
    BY <2>1, <2>2 DEF Shaped, Locking
  <2>4. version \in Nat
    BY <1>2, <2>3 DEF Types, TypeOK, Credentials
  <2>. PICK n : n = [q EXCEPT !.at = "document", !.version = version]
    OBVIOUS
  <2>5. n \in Process /\ n.at = "document" /\ Kin(n, q) /\ n.version = version /\ n.doc = q.doc
    BY <2>1, <2>4, PlacesAre DEF Process, Kin
  <2>6. Shaped(n) /\ (Holds(n) <=> Holds(q))
    BY <2>1, <2>2, <2>5 DEF Shaped, Steps, Carries, Kin, Locking, Makers, Holds
  <2>7. req' = [req EXCEPT ![r] = n]
    BY <1>2, RequestIs DEF MintRead
  <2>8. Becomes(r) /\ req'[r] = n
    BY <1>2, <2>5, <2>6, <2>7, BecomesIs DEF MintRead
  <2>. QED
    BY <1>2, <2>1, <2>2, <2>5, <2>8 DEF ReadsVersion, Reads, MintRead, Still
<1>. QED
  BY <1>1, <1>2

LEMMA RolesBeginIs ==
  ASSUME Types, Locked, NEW r \in Requests, RolesBegin(r)
  PROVE  Stops(r) \/ ReadsRoles(r)
<1>1. CASE Finish(r)
  BY <1>1, EndsIs DEF RolesBegin, Stops, Still, At, Types, TypeOK
<1>2. CASE ~Finish(r)
  <2>. PICK q : q = req[r]
    OBVIOUS
  <2>. PICK doc : doc = user[q.user]
    OBVIOUS
  <2>1. q \in Process /\ Shaped(q) /\ q.op = "roles" /\ q.at = "begin"
    BY RequestIs DEF RolesBegin, At
  <2>2. q.user \in Users
    BY <2>1 DEF Shaped, Locking
  <2>3. doc \in Records
    BY <1>2, <2>2 DEF Types, TypeOK, RolesBegin
  <2>. PICK n : n = [q EXCEPT !.at = "write", !.doc = doc]
    OBVIOUS
  <2>4. n \in Process /\ n.at = "write" /\ Kin(n, q) /\ n.doc = doc /\ n.version = q.version
    BY <2>1, <2>3, PlacesAre DEF Process, Kin
  <2>5. Shaped(n) /\ (Holds(n) <=> Holds(q))
    BY <2>1, <2>3, <2>4 DEF Shaped, Steps, Carries, Kin, Locking, Makers, Holds
  <2>6. req' = [req EXCEPT ![r] = n] /\ UNCHANGED lock
    BY <1>2, RequestIs DEF RolesBegin
  <2>7. Becomes(r) /\ req'[r] = n
    BY <2>4, <2>5, <2>6, BecomesIs DEF RolesBegin
  <2>. QED
    BY <1>2, <2>1, <2>4, <2>7 DEF ReadsRoles, Reads, RolesBegin, Still
<1>. QED
  BY <1>1, <1>2

LEMMA DeleteBeginIs ==
  ASSUME Types, Locked, NEW r \in Requests, DeleteBegin(r)
  PROVE  Stops(r) \/ ReadsDelete(r) \/ Retries(r)
<1>1. CASE Finish(r)
  BY <1>1, EndsIs DEF DeleteBegin, Stops, Still, At, Types, TypeOK
<1>2. CASE ~Finish(r) /\ tomb[req[r].user] = None
  <2>. PICK q : q = req[r]
    OBVIOUS
  <2>. PICK doc : doc = user[q.user]
    OBVIOUS
  <2>1. q \in Process /\ Shaped(q) /\ q.op = "delete" /\ q.at = "begin"
    BY RequestIs DEF DeleteBegin, At
  <2>2. q.user \in Users
    BY <2>1 DEF Shaped, Locking
  <2>3. doc \in Records
    BY <1>2, <2>2 DEF Types, TypeOK, DeleteBegin
  <2>. PICK n : n = [q EXCEPT !.at = "tomb", !.doc = doc]
    OBVIOUS
  <2>4. n \in Process /\ n.at = "tomb" /\ Kin(n, q) /\ n.doc = doc /\ n.version = q.version
    BY <2>1, <2>3, PlacesAre DEF Process, Kin
  <2>5. Shaped(n) /\ (Holds(n) <=> Holds(q))
    BY <2>1, <2>3, <2>4 DEF Shaped, Steps, Carries, Kin, Locking, Makers, Holds
  <2>6. req' = [req EXCEPT ![r] = n] /\ UNCHANGED lock
    BY <1>2, RequestIs DEF DeleteBegin
  <2>7. Becomes(r) /\ req'[r] = n
    BY <2>4, <2>5, <2>6, BecomesIs DEF DeleteBegin
  <2>. QED
    BY <1>2, <2>1, <2>4, <2>7 DEF ReadsDelete, Reads, DeleteBegin, Still
<1>3. CASE tomb[req[r].user] # None
  <2>1. Goto(r, "unindex") /\ UNCHANGED lock
    BY <1>3 DEF DeleteBegin
  <2>2. Goes(r, "unindex")
    BY <2>1, GoesIs DEF DeleteBegin, At, Path, Places, Types, TypeOK
  <2>. QED
    BY <1>3, <2>2 DEF Retries, DeleteBegin, Still
<1>. QED
  BY <1>1, <1>2, <1>3

LEMMA EmailBeginIs ==
  ASSUME Types, Locked, NEW r \in Requests, EmailBegin(r)
  PROVE  Stops(r) \/ ReadsEmail(r)
<1>1. CASE Finish(r)
  BY <1>1, EndsIs DEF EmailBegin, Stops, Still, At, Types, TypeOK
<1>2. CASE ~Finish(r)
  <2>. PICK q : q = req[r]
    OBVIOUS
  <2>. PICK doc : doc = user[q.user]
    OBVIOUS
  <2>1. q \in Process /\ Shaped(q) /\ q.op = "email" /\ q.at = "begin"
    BY RequestIs DEF EmailBegin, At
  <2>2. q.user \in Users
    BY <2>1 DEF Shaped, Locking
  <2>3. doc \in Records
    BY <1>2, <2>2 DEF Types, TypeOK, EmailBegin
  <2>. PICK n : n = [q EXCEPT !.at = "index", !.doc = doc]
    OBVIOUS
  <2>4. n \in Process /\ n.at = "index" /\ Kin(n, q) /\ n.doc = doc /\ n.version = q.version
    BY <2>1, <2>3, PlacesAre DEF Process, Kin
  <2>5. Shaped(n) /\ (Holds(n) <=> Holds(q))
    BY <2>1, <2>3, <2>4 DEF Shaped, Steps, Carries, Kin, Locking, Makers, Holds
  <2>6. req' = [req EXCEPT ![r] = n] /\ UNCHANGED lock
    BY <1>2, RequestIs DEF EmailBegin
  <2>7. Becomes(r) /\ req'[r] = n
    BY <2>4, <2>5, <2>6, BecomesIs DEF EmailBegin
  <2>. QED
    BY <1>2, <2>1, <2>4, <2>7 DEF ReadsEmail, Reads, EmailBegin, Still
<1>. QED
  BY <1>1, <1>2

LEMMA AdminPilotBeginIs ==
  ASSUME Types, Locked, NEW r \in Requests, AdminPilotBegin(r)
  PROVE  Stops(r) \/ ReadsAdmin(r)
<1>1. CASE Finish(r)
  BY <1>1, EndsIs DEF AdminPilotBegin, Stops, Still, At, Types, TypeOK
<1>2. CASE ~Finish(r)
  <2>. PICK q : q = req[r]
    OBVIOUS
  <2>. PICK record : record = user[q.user]
    OBVIOUS
  <2>. PICK at : at = IF record.pilot = q.pilot THEN "ensure" ELSE "claim"
    OBVIOUS
  <2>1. q \in Process /\ Shaped(q) /\ q.op = "adminPilot" /\ q.at = "begin"
    BY RequestIs DEF AdminPilotBegin, At
  <2>2. q.user \in Users
    BY <2>1 DEF Shaped, Locking
  <2>3. record \in Records /\ record # None /\ record.pilot \in {None, q.pilot}
    BY <1>2, <2>2 DEF Types, TypeOK, AdminPilotBegin
  <2>4. record.email \in Emails /\ at \in {"ensure", "claim"}
    BY <2>3 DEF Records
  <2>. PICK n : n = [q EXCEPT !.email = record.email, !.at = at]
    OBVIOUS
  <2>5. /\ n \in Process /\ n.at = at /\ n.op = q.op /\ n.user = q.user /\ n.pilot = q.pilot
        /\ n.email = record.email /\ n.doc = q.doc
    BY <2>1, <2>4, PlacesAre DEF Process
  <2>6. Shaped(n) /\ (Holds(n) <=> Holds(q))
    BY <2>1, <2>4, <2>5 DEF Shaped, Steps, Carries, Locking, Makers, Holds
  <2>7. req' = [req EXCEPT ![r] = n] /\ UNCHANGED lock
    BY <1>2, RequestIs DEF AdminPilotBegin
  <2>8. Becomes(r) /\ req'[r] = n
    BY <2>4, <2>5, <2>6, <2>7, BecomesIs DEF AdminPilotBegin
  <2>. QED
    BY <2>1, <2>3, <2>5, <2>8 DEF ReadsAdmin, AdminPilotBegin, Still
<1>. QED
  BY <1>1, <1>2

LEMMA MyPilotReadIs ==
  ASSUME Types, Locked, NEW r \in Requests, MyPilotRead(r)
  PROVE  ReadsMine(r)
<1>. PICK q : q = req[r]
  OBVIOUS
<1>. PICK doc : doc = user[q.user]
  OBVIOUS
<1>. PICK at : at = IF doc = None THEN "undo" ELSE "write"
  OBVIOUS
<1>1. q \in Process /\ Shaped(q) /\ q.op = "myPilot" /\ q.at = "link"
  BY RequestIs DEF MyPilotRead, At
<1>2. q.user \in Users
  BY <1>1 DEF Shaped, Locking
<1>3. doc \in Records \union {None} /\ at \in {"undo", "write"} /\ (at = "write" => doc \in Records)
  BY <1>2 DEF Types, TypeOK
<1>. PICK n : n = [q EXCEPT !.at = at, !.doc = doc]
  OBVIOUS
<1>4. n \in Process /\ n.at = at /\ Kin(n, q) /\ n.doc = doc /\ n.version = q.version
  BY <1>1, <1>3, PlacesAre DEF Process, Kin
<1>5. Shaped(n) /\ (Holds(n) <=> Holds(q))
  BY <1>1, <1>3, <1>4 DEF Shaped, Steps, Carries, Kin, Locking, Makers, Holds
<1>6. req' = [req EXCEPT ![r] = n]
  BY RequestIs DEF MyPilotRead
<1>7. Becomes(r) /\ req'[r] = n
  BY <1>3, <1>4, <1>5, <1>6, BecomesIs DEF MyPilotRead
<1>. QED
  BY <1>1, <1>3, <1>4, <1>7 DEF ReadsMine, MyPilotRead, At, Still

LEMMA EmailIndexIs ==
  ASSUME Types, Locked, NEW r \in Requests, EmailIndex(r)
  PROVE  Stops(r) \/ MovesIndex(r)
<1>1. CASE index[req[r].email] \notin {None, req[r].user}
  BY <1>1, EndsIs DEF EmailIndex, Stops, Still, At, Types, TypeOK, accounts, history
<1>2. CASE index[req[r].email] \in {None, req[r].user}
  <2>1. Goto(r, "unverify") /\ UNCHANGED lock
    BY <1>2 DEF EmailIndex
  <2>2. Goes(r, "unverify")
    BY <2>1, GoesIs DEF EmailIndex, At, Path, Places, Types, TypeOK
  <2>. QED
    BY <1>2, <2>2 DEF MovesIndex, EmailIndex
<1>. QED
  BY <1>1, <1>2

LEMMA EmailClaimIs ==
  ASSUME Types, Locked, NEW r \in Requests, EmailClaim(r)
  PROVE  LosesClaim(r) \/ MovesClaim(r)
<1>1. CASE claims[req[r].email] \notin {None, req[r].doc.pilot}
  BY <1>1, EndsIs DEF EmailClaim, LosesClaim, Types, TypeOK, pilots
<1>2. CASE claims[req[r].email] \in {None, req[r].doc.pilot}
  <2>1. Goto(r, "user") /\ UNCHANGED lock
    BY <1>2 DEF EmailClaim
  <2>2. Goes(r, "user")
    BY <2>1, GoesIs DEF EmailClaim, At, Path, Places, Types, TypeOK
  <2>. QED
    BY <1>2, <2>2 DEF MovesClaim, EmailClaim
<1>. QED
  BY <1>1, <1>2

LEMMA ClaimIs ==
  ASSUME Types, Locked, NEW r \in Requests, Claim(r)
  PROVE  Stops(r) \/ Claims(r)
<1>1. CASE ~Claimable(r)
  <2>1. Finish(r) /\ UNCHANGED claims /\ req[r].at = "claim" /\ req[r].op # "email"
    BY <1>1 DEF Claim
  <2>. QED
    BY <2>1, EndsIs DEF Claim, Stops, Still, Types, TypeOK, pilots
<1>2. CASE Claimable(r)
  <2>. PICK q : q = req[r]
    OBVIOUS
  <2>. PICK version : version = IF claims[q.email] = None THEN 1 ELSE 0
    OBVIOUS
  <2>1. /\ q \in Process /\ Shaped(q) /\ q.op \in Makers \union {"editPilot"} /\ q.at = "claim"
    BY RequestIs DEF Claim, Makers
  <2>2. version \in Nat
    OBVIOUS
  <2>. PICK n : n = [q EXCEPT !.at = "pilot", !.version = version]
    OBVIOUS
  <2>3. n \in Process /\ n.at = "pilot" /\ Kin(n, q) /\ n.doc = q.doc /\ n.version = version
    BY <2>1, <2>2, PlacesAre DEF Process, Kin
  <2>4. Shaped(n) /\ (Holds(n) <=> Holds(q))
    BY <2>1, <2>3 DEF Shaped, Steps, Carries, Kin, Locking, Makers, Holds
  <2>5. req' = [req EXCEPT ![r] = n] /\ UNCHANGED lock
    BY <1>2, RequestIs DEF Claim
  <2>6. Becomes(r) /\ req'[r] = n
    BY <2>3, <2>4, <2>5, BecomesIs DEF Claim
  <2>. QED
    BY <1>2, <2>1, <2>3, <2>6 DEF Claims, Claim
<1>. QED
  BY <1>1, <1>2

LEMMA ListIs ==
  ASSUME Types, Locked, NEW r \in Requests, ListPilot(r)
  PROVE  Lists(r)
<1>1. req[r].op \in Makers \union {"editPilot"}
  BY RequestIs, IdleIs DEF Shaped, Steps, ListPilot, Makers
<1>2. CASE req[r].op \in {"newPilot", "editPilot"}
  BY <1>1, <1>2, EndsIs DEF ListPilot, Lists, Types, TypeOK
<1>3. CASE req[r].op \notin {"newPilot", "editPilot"}
  <2>1. Goto(r, "link") /\ UNCHANGED lock
    BY <1>3 DEF ListPilot
  <2>2. Goes(r, "link")
    BY <1>1, <1>3, <2>1, GoesIs DEF ListPilot, Path, Places, Makers, Types, TypeOK
  <2>. QED
    BY <1>1, <1>3, <2>2 DEF ListPilot, Lists
<1>. QED
  BY <1>2, <1>3

LEMMA StepIs ==
  ASSUME Types, Locked, Next
  PROVE  Step
<1>1. CASE \E r \in Requests, u \in Users, e \in Emails : Register(r, u, e)
  BY <1>1, RegisterIs DEF Step, RequestStep, QuietStep
<1>2. CASE \E r \in Requests, e \in Emails : Resend(r, e)
  BY <1>2, ResendIs DEF Step, RequestStep, QuietStep
<1>3. CASE \E r \in Requests, n \in LinkIds : Verify(r, n)
  BY <1>3, VerifyIs DEF Step, RequestStep, AccountStep
<1>4. CASE \E u \in Users : AdminVerify(u) \/ Bump(u)
  <2>1. ops' \in 0 .. MaxOps
    BY <1>4, ConstantTypes DEF AdminVerify, Bump, Types, TypeOK
  <2>. QED
    BY <1>4, <2>1 DEF Step
<1>5. CASE \E r \in Requests, u \in Users : Ask(r, u)
  BY <1>5, AskIs DEF Step, RequestStep, QuietStep
<1>6. CASE \E r \in Requests, u \in Users, p \in Pilots : MyPilot(r, u, p)
  BY <1>6, MyPilotIs DEF Step, RequestStep, QuietStep
<1>7. CASE \E r \in Requests, e \in Emails, p \in Pilots : NewPilot(r, e, p) \/ EditPilot(r, e, p)
  BY <1>7, NewPilotIs, EditPilotIs DEF Step, RequestStep, QuietStep
<1>8. ASSUME NEW r \in Requests,
             \/ RegisterCred(r) \/ RegisterFind(r) \/ RegisterUser(r) \/ RegisterIndex(r)
             \/ RegisterCollect(r) \/ RegisterAccept(r) \/ RegisterExisting(r)
             \/ MintRead(r) \/ MintLink(r) \/ VerifyCred(r)
             \/ TakeLock(r) \/ RolesBegin(r) \/ RolesWrite(r)
      PROVE  QuietStep(r) \/ AccountStep(r)
  BY <1>8, PathSteps, EndSteps, FindIs, IndexIs, CollectIs, ExistingIs, MintReadIs, LockIs,
     RolesBeginIs DEF QuietStep, AccountStep
<1>9. ASSUME NEW r \in Requests,
             \/ DeleteBegin(r) \/ DeleteTomb(r) \/ DeleteIndex(r) \/ DeleteCred(r)
             \/ DeleteLink(r) \/ DeleteClaim(r) \/ DeleteUser(r)
             \/ EmailBegin(r) \/ EmailIndex(r) \/ EmailUnverify(r) \/ EmailClaim(r)
             \/ EmailUser(r) \/ EmailSweep(r)
      PROVE  QuietStep(r) \/ AccountStep(r) \/ PilotStep(r)
  BY <1>9, PathSteps, EndSteps, DeleteBeginIs, EmailBeginIs, EmailIndexIs, EmailClaimIs
  DEF QuietStep, AccountStep, PilotStep
<1>10. ASSUME NEW r \in Requests,
              \/ AdminPilotBegin(r) \/ AdminPilotEnsure(r) \/ AdminPilotRelist(r)
              \/ AdminPilotReclaim(r) \/ AdminPilotLink(r)
              \/ Claim(r) \/ WritePilot(r) \/ ListPilot(r) \/ MyPilotRead(r) \/ MyPilotWrite(r)
              \/ PilotFails(r) \/ Undo(r) \/ Crash(r)
       PROVE  QuietStep(r) \/ PilotStep(r)
  BY <1>10, PathSteps, EndSteps, AdminPilotBeginIs, ClaimIs, ListIs, MyPilotReadIs
  DEF QuietStep, PilotStep
<1>11. CASE AtRest
  BY <1>11 DEF AtRest, Step
<1>. QED
  BY <1>1, <1>2, <1>3, <1>4, <1>5, <1>6, <1>7, <1>8, <1>9, <1>10, <1>11 DEF Next, Step, RequestStep

-----------------------------------------------------------------------------
(* Types and the lock.                                                     *)

(* What a request carries, by what it is doing.                            *)
LEMMA CarriesIs ==
  ASSUME Types, NEW r \in Requests
  PROVE  LET q == req[r]
         IN /\ q.op \in {"register", "resend", "verify", "myPilot"} \union Locking => q.user \in Users
            /\ q.op \in {"register", "email", "myPilot", "newPilot", "editPilot"} => q.email \in Emails
            /\ q.op = "adminPilot" /\ q.at \notin {"lock", "begin"} => q.email \in Emails
            /\ q.op \in Makers \union {"editPilot"} => q.pilot \in Pilots
            /\ q.op \notin Makers \union {"editPilot"} => q.pilot = None
            /\ q.op = "editPilot" => q.doc \in PilotDocs
            /\ Carries(q) => /\ q.doc \in Records /\ q.doc # None /\ q.doc.email \in Emails
                             /\ q.doc.pilot \in Pilots \union {None}
            /\ q.user \in Users \union {None}
<1>1. req[r] \in Process /\ Shaped(req[r])
  BY RequestIs
<1>2. req[r].op = "adminPilot" => req[r].pilot \in Pilots
  BY <1>1, ConstantTypes DEF Shaped, Locking
<1>3. \A doc \in Records : doc # None /\ doc.email \in Emails /\ doc.pilot \in Pilots \union {None}
  BY ConstantTypes DEF Records
<1>. QED
  BY <1>1, <1>2, <1>3, RequestIs DEF Shaped, Makers

(* The documents.                                                          *)
Documents ==
  /\ cred \in [Users -> Credentials \union {None}]
  /\ user \in [Users -> Records \union {None}]
  /\ tomb \in [Users -> Records \union {None}]
  /\ index \in [Emails -> Users \union {None}] /\ claims \in [Emails -> Pilots \union {None}]
  /\ pilot \in [Pilots -> PilotDocs \union {None}] /\ listed \subseteq Pilots
  /\ links \in [LinkIds -> Links \union {None}]
  /\ latest \in [Users -> {NoLink} \union LinkIds] /\ mailed \in [Users -> {NoLink} \union LinkIds]
  /\ torn \subseteq Users \union Pilots /\ lost \subseteq Users \union Pilots
  /\ relinked \subseteq Users

LEMMA DocumentsAre ==
  ASSUME Types PROVE Documents
BY DEF Types, TypeOK, Documents

LEMMA SweepTyped ==
  ASSUME Documents, NEW u \in Users, Sweep(u)
  PROVE  /\ links' \in [LinkIds -> Links \union {None}]
         /\ latest' \in [Users -> {NoLink} \union LinkIds]
         /\ mailed' \in [Users -> {NoLink} \union LinkIds]
BY DEF Sweep, Documents

LEMMA WrittenOverTyped ==
  ASSUME Types, NEW r \in Requests, Carries(req[r])
  PROVE  WrittenOver(r) \subseteq Users
<1>1. req[r].user \in Users
  BY CarriesIs DEF Carries, Locking
<1>. QED
  BY <1>1 DEF WrittenOver

(* setUserRoles writes the record that it read, with the roles and the     *)
(* pilot of the body, if they are given.                                   *)
LEMMA RolesWriteIs ==
  ASSUME Types, NEW r \in Requests, RolesWrite(r),
         NEW u, u = req[r].user, NEW doc, doc = req[r].doc
  PROVE  /\ At(r, "roles", "write") /\ Carries(req[r]) /\ u \in Users /\ doc \in Records
         /\ user' \in [Users -> Records \union {None}] /\ user'[u] \in Records
         /\ \A v \in Users \ {u} : user'[v] = user[v]
         /\ user'[u].email = doc.email /\ user'[u].pilot \in Pilots \union {None}
         /\ req[r].version = 1 => user'[u].admin
         /\ req[r].version = 2 => user'[u].admin = doc.admin
         /\ \/ user'[u].pilot = doc.pilot /\ UNCHANGED <<torn, relinked>>
            \/ /\ Nameable(user'[u].pilot)
               /\ torn' = torn \union ({doc.pilot, user'[u].pilot} \ {None})
               /\ relinked' = relinked \union {u}
         /\ lost' = lost \union WrittenOver(r)
         /\ UNCHANGED <<cred, tomb, index, pilots, mails>>
<1>. PICK q : q = req[r]
  OBVIOUS
<1>1. At(r, "roles", "write") /\ Carries(q) /\ u \in Users /\ doc \in Records
  BY CarriesIs DEF RolesWrite, At, Carries, Locking
<1>2. user \in [Users -> Records \union {None}]
  BY DocumentsAre DEF Documents
<1>. PICK next : next = [doc EXCEPT !.admin = IF q.version = 2 THEN @ ELSE q.version = 1]
  OBVIOUS
<1>3. /\ next \in Records /\ next.email = doc.email /\ next.pilot = doc.pilot
      /\ q.version = 1 => next.admin
      /\ q.version = 2 => next.admin = doc.admin
      /\ doc.pilot \in Pilots \union {None}
  <2>1. doc = [email |-> doc.email, admin |-> doc.admin, pilot |-> doc.pilot]
        /\ doc.email \in Emails /\ doc.admin \in BOOLEAN /\ doc.pilot \in Pilots \union {None}
    BY <1>1 DEF Records
  <2>2. CASE q.version = 2
    <3>1. next = [email |-> doc.email, admin |-> doc.admin, pilot |-> doc.pilot]
      BY <2>1, <2>2
    <3>. QED
      BY <2>1, <2>2, <3>1 DEF Records
  <2>3. CASE q.version # 2 /\ q.version = 1
    <3>1. next = [email |-> doc.email, admin |-> TRUE, pilot |-> doc.pilot]
      BY <2>1, <2>3
    <3>. QED
      BY <2>1, <2>3, <3>1 DEF Records
  <2>4. CASE q.version # 2 /\ q.version # 1
    <3>1. next = [email |-> doc.email, admin |-> FALSE, pilot |-> doc.pilot]
      BY <2>1, <2>4
    <3>. QED
      BY <2>1, <2>4, <3>1 DEF Records
  <2>. QED
    BY <2>2, <2>3, <2>4
<1>4. lost' = lost \union WrittenOver(r) /\ UNCHANGED <<cred, tomb, index, pilots, mails>>
  BY DEF RolesWrite
<1>5. \/ user' = [user EXCEPT ![u] = next] /\ UNCHANGED <<torn, relinked>>
      \/ \E p \in Pilots \union {None} :
           /\ Nameable(p)
           /\ user' = [user EXCEPT ![u] = [next EXCEPT !.pilot = p]]
           /\ torn' = torn \union ({next.pilot, p} \ {None})
           /\ relinked' = relinked \union {u}
  BY DEF RolesWrite
<1>6. CASE user' = [user EXCEPT ![u] = next] /\ UNCHANGED <<torn, relinked>>
  <2>1. user'[u] = next /\ (\A v \in Users \ {u} : user'[v] = user[v])
        /\ user' \in [Users -> Records \union {None}]
    BY <1>1, <1>2, <1>3, <1>6
  <2>. QED
    BY <1>1, <1>3, <1>4, <1>6, <2>1
<1>7. ASSUME NEW p \in Pilots \union {None}, Nameable(p),
             user' = [user EXCEPT ![u] = [next EXCEPT !.pilot = p]],
             torn' = torn \union ({next.pilot, p} \ {None}), relinked' = relinked \union {u}
      PROVE  /\ user' \in [Users -> Records \union {None}] /\ user'[u] \in Records
             /\ \A v \in Users \ {u} : user'[v] = user[v]
             /\ user'[u].email = doc.email /\ user'[u].pilot = p /\ user'[u].admin = next.admin
  <2>. PICK named : named = [next EXCEPT !.pilot = p]
    OBVIOUS
  <2>1. /\ named \in Records /\ named.email = doc.email /\ named.pilot = p
        /\ named.admin = next.admin
    BY <1>3 DEF Records
  <2>. QED
    BY <1>1, <1>2, <1>7, <2>1
<1>. QED
  BY <1>1, <1>3, <1>4, <1>5, <1>6, <1>7

LEMMA AccountTyped ==
  ASSUME Types, NEW r \in Requests, AccountStep(r)
  PROVE  Documents'
<1>. PICK q : q = req[r]
  OBVIOUS
<1>1. Documents
  BY DocumentsAre
<1>2. /\ q.op \in {"register", "verify"} \union Locking => q.user \in Users
      /\ q.op \in {"register", "email"} => q.email \in Emails
      /\ Carries(q) => /\ q.doc \in Records /\ q.doc.email \in Emails
                       /\ q.doc.pilot \in Pilots \union {None}
  BY CarriesIs
<1>3. Carries(q) => WrittenOver(r) \subseteq Users
  BY WrittenOverTyped
<1>4. CASE BeginsVerify(r)
  <2>. PICK n \in LinkIds : links[n] # None /\ links' = [links EXCEPT ![n].used = TRUE]
    BY <1>4 DEF BeginsVerify
  <2>1. links[n] \in Links
    BY <1>1 DEF Documents
  <2>2. [links[n] EXCEPT !.used = TRUE] \in Links
    BY <2>1 DEF Links
  <2>3. links' \in [LinkIds -> Links \union {None}]
    BY <1>1, <2>2 DEF Documents
  <2>. QED
    BY <1>1, <1>4, <2>3 DEF BeginsVerify, Documents, accounts, pilots, history
<1>5. CASE RegisterCred(r)
  <2>1. [verified |-> FALSE, version |-> 0] \in Credentials
    BY DEF Credentials
  <2>. QED
    BY <1>1, <1>5, <2>1 DEF RegisterCred, Documents, pilots, mails, history
<1>6. CASE RegisterUser(r)
  <2>1. q.doc \in Records
    BY <1>2, <1>6 DEF RegisterUser, At, Carries
  <2>. QED
    BY <1>1, <1>6, <2>1 DEF RegisterUser, Documents, pilots, mails, history
<1>7. CASE WinsAddress(r)
  BY <1>1, <1>2, <1>7 DEF WinsAddress, At, Documents, pilots, mails, history
<1>8. CASE Collects(r)
  BY <1>1, <1>8 DEF Collects, Documents, pilots, mails, history
<1>9. CASE RegisterAccept(r)
  <2>1. q.doc \in Records /\ WrittenOver(r) \subseteq Users
    BY <1>2, <1>3, <1>9 DEF RegisterAccept, At, Carries
  <2>. QED
    BY <1>1, <1>9, <2>1 DEF RegisterAccept, Documents, pilots, mails
<1>10. CASE MintLink(r)
  <2>. PICK n \in LinkIds :
         /\ links' = [links EXCEPT ![n] = [user |-> q.user, version |-> q.version, used |-> FALSE]]
         /\ latest' = IF q.op = "resend" THEN latest ELSE [latest EXCEPT ![q.user] = n]
         /\ mailed' = IF q.op = "email" THEN [mailed EXCEPT ![q.user] = n] ELSE mailed
    BY <1>10 DEF MintLink
  <2>1. Shaped(q) /\ q \in Process /\ q.at = "document"
    BY <1>10, RequestIs DEF MintLink
  <2>2. q.user \in Users /\ q.version \in Nat
    BY <2>1, IdleIs DEF Shaped, Steps, Locking, Process
  <2>3. [user |-> q.user, version |-> q.version, used |-> FALSE] \in Links
    BY <2>2 DEF Links
  <2>4. links' \in [LinkIds -> Links \union {None}]
    BY <1>1, <2>3 DEF Documents
  <2>. QED
    BY <1>1, <1>10, <2>2, <2>4 DEF MintLink, Documents, accounts, pilots, history
<1>11. CASE VerifyCred(r)
  <2>1. cred' = cred \/ (cred[q.user] # None /\ cred' = [cred EXCEPT ![q.user].verified = TRUE])
    BY <1>11 DEF VerifyCred
  <2>2. q.user \in Users
    BY <1>2, <1>11 DEF VerifyCred, At
  <2>3. cred[q.user] # None => [cred[q.user] EXCEPT !.verified = TRUE] \in Credentials
    BY <1>1, <2>2 DEF Documents, Credentials
  <2>4. cred' \in [Users -> Credentials \union {None}]
    BY <1>1, <2>1, <2>2, <2>3 DEF Documents
  <2>. QED
    BY <1>1, <1>11, <2>4 DEF VerifyCred, Documents, pilots, mails, history
<1>12. CASE RolesWrite(r)
  <2>1. /\ Carries(q) /\ q.user \in Users /\ user' \in [Users -> Records \union {None}]
        /\ lost' = lost \union WrittenOver(r) /\ UNCHANGED <<cred, tomb, index, pilots, mails>>
        /\ q.doc.pilot \in Pilots \union {None} /\ user'[q.user].pilot \in Pilots \union {None}
        /\ \/ UNCHANGED <<torn, relinked>>
           \/ /\ torn' = torn \union ({q.doc.pilot, user'[q.user].pilot} \ {None})
              /\ relinked' = relinked \union {q.user}
    BY <1>2, <1>12, RolesWriteIs
  <2>. QED
    BY <1>1, <1>3, <2>1 DEF Documents, pilots, mails
<1>13. CASE DeleteTomb(r)
  <2>1. q.doc \in Records
    BY <1>2, <1>13 DEF DeleteTomb, At, Carries
  <2>. QED
    BY <1>1, <1>13, <2>1 DEF DeleteTomb, Documents, pilots, mails, history
<1>14. CASE DeleteIndex(r)
  BY <1>1, <1>14 DEF DeleteIndex, Documents, pilots, mails, history
<1>15. CASE Drops(r)
  <2>1. q.user \in Users
    BY <1>2, <1>15 DEF Drops, DeleteCred, At, Locking
  <2>2. /\ links' \in [LinkIds -> Links \union {None}]
        /\ latest' \in [Users -> {NoLink} \union LinkIds]
        /\ mailed' \in [Users -> {NoLink} \union LinkIds]
    BY <1>1, <1>15, <2>1, SweepTyped DEF Drops, DeleteCred
  <2>. QED
    BY <1>1, <1>15, <2>2 DEF Drops, DeleteCred, Documents, pilots, history
<1>16. CASE DeleteUser(r)
  BY <1>1, <1>16 DEF DeleteUser, Documents, pilots, mails, history
<1>17. CASE MovesIndex(r)
  <2>1. q.user \in Users /\ q.email \in Emails /\ q.doc.email \in Emails
    BY <1>2, <1>17 DEF MovesIndex, At, Carries, Locking
  <2>. QED
    BY <1>1, <1>17, <2>1 DEF MovesIndex, Documents, pilots, mails
<1>18. CASE Unverifies(r)
  <2>1. q.user \in Users
    BY <1>2, <1>18 DEF Unverifies, EmailUnverify, At, Locking
  <2>2. cred[q.user] # None => [verified |-> FALSE, version |-> cred[q.user].version + 1] \in Credentials
    BY <1>1, <2>1 DEF Documents, Credentials
  <2>3. cred' \in [Users -> Credentials \union {None}]
    BY <1>1, <1>18, <2>1, <2>2 DEF Unverifies, EmailUnverify, Documents
  <2>. QED
    BY <1>1, <1>18, <2>1, <2>3 DEF Unverifies, EmailUnverify, Documents, pilots, history
<1>19. CASE EmailUser(r)
  <2>1. q.doc \in Records /\ WrittenOver(r) \subseteq Users /\ q.user \in Users /\ q.email \in Emails
    BY <1>2, <1>3, <1>19 DEF EmailUser, At, Carries, Locking
  <2>2. [q.doc EXCEPT !.email = q.email] \in Records
    BY <2>1 DEF Records
  <2>. QED
    BY <1>1, <1>19, <2>1, <2>2 DEF EmailUser, Documents, pilots, mails
<1>20. CASE EmailSweep(r)
  <2>1. q.user \in Users
    BY <1>2, <1>20 DEF EmailSweep, At, Locking
  <2>2. /\ links' \in [LinkIds -> Links \union {None}]
        /\ latest' \in [Users -> {NoLink} \union LinkIds]
        /\ mailed' \in [Users -> {NoLink} \union LinkIds]
    BY <1>1, <1>20, <2>1, SweepTyped DEF EmailSweep
  <2>. QED
    BY <1>1, <1>20, <2>2 DEF EmailSweep, Documents, accounts, pilots, history
<1>. QED
  BY <1>4, <1>5, <1>6, <1>7, <1>8, <1>9, <1>10, <1>11, <1>12, <1>13, <1>14, <1>15, <1>16, <1>17,
     <1>18, <1>19, <1>20 DEF AccountStep

LEMMA PilotTyped ==
  ASSUME Types, NEW r \in Requests, PilotStep(r)
  PROVE  Documents'
<1>. PICK q : q = req[r]
  OBVIOUS
<1>1. Documents
  BY DocumentsAre
<1>2. /\ q.op \in {"myPilot"} \union Locking => q.user \in Users
      /\ q.op \in {"email", "myPilot", "newPilot", "editPilot"} => q.email \in Emails
      /\ q.op = "adminPilot" /\ q.at \notin {"lock", "begin"} => q.email \in Emails
      /\ q.op \in Makers \union {"editPilot"} => q.pilot \in Pilots
      /\ q.op = "editPilot" => q.doc \in PilotDocs
      /\ Carries(q) => /\ q.doc \in Records /\ q.doc.email \in Emails
                       /\ q.doc.pilot \in Pilots \union {None}
      /\ q.user \in Users \union {None}
  BY CarriesIs
<1>3. Carries(q) => WrittenOver(r) \subseteq Users
  BY WrittenOverTyped
<1>4. \A p : MadeFor(p) \subseteq Users
  BY DEF MadeFor
<1>5. CASE DeleteLink(r)
  <2>. PICK p : /\ torn' = torn \union (MadeFor(p) \ {req[r].user})
                /\ pilot' = IF pilot[p] # None THEN [pilot EXCEPT ![p].user = None] ELSE pilot
    BY <1>5 DEF DeleteLink
  <2>1. p \in Pilots /\ pilot[p] # None => [pilot[p] EXCEPT !.user = None] \in PilotDocs
    BY <1>1 DEF Documents, PilotDocs
  <2>2. pilot' \in [Pilots -> PilotDocs \union {None}]
    BY <1>1, <2>1 DEF Documents
  <2>. QED
    BY <1>1, <1>4, <1>5, <2>2 DEF DeleteLink, Documents, accounts, mails
<1>6. CASE DeleteClaim(r)
  BY <1>1, <1>4, <1>6 DEF DeleteClaim, Documents, accounts, mails
<1>7. CASE MovesClaim(r)
  <2>. PICK p : p = q.doc.pilot
    OBVIOUS
  <2>1. p \in Pilots \union {None} /\ q.email \in Emails /\ q.doc.email \in Emails
    BY <1>2, <1>7 DEF MovesClaim, At, Carries
  <2>2. claims' \in [Emails -> Pilots \union {None}]
    BY <1>1, <1>7, <2>1 DEF MovesClaim, Documents
  <2>3. torn' \subseteq Users \union Pilots
    BY <1>1, <1>4, <1>7, <2>1 DEF MovesClaim, Documents
  <2>. QED
    BY <1>1, <1>7, <2>2, <2>3 DEF MovesClaim, Documents, accounts, mails
<1>8. CASE LosesClaim(r)
  BY <1>1, <1>2, <1>8 DEF LosesClaim, Documents, accounts, pilots, mails, At, Locking
<1>9. CASE AdminPilotEnsure(r)
  <2>1. q.user \in Users /\ [user |-> q.user] \in PilotDocs
    BY <1>2, <1>9 DEF AdminPilotEnsure, At, Locking, PilotDocs
  <2>. QED
    BY <1>1, <1>9, <2>1 DEF AdminPilotEnsure, Documents, accounts, mails, history
<1>10. CASE AdminPilotRelist(r)
  BY <1>1, <1>2, <1>10 DEF AdminPilotRelist, At, Documents, accounts, mails, history, Makers
<1>11. CASE AdminPilotReclaim(r)
  BY <1>1, <1>2, <1>11 DEF AdminPilotReclaim, At, Documents, accounts, mails, history, Makers
<1>12. CASE AdminPilotLink(r)
  <2>1. q.user \in Users /\ q.pilot \in Pilots
    BY <1>2, <1>12 DEF AdminPilotLink, At, Locking, Makers
  <2>2. user[q.user] # None => [user[q.user] EXCEPT !.pilot = q.pilot] \in Records
    BY <1>1, <2>1 DEF Documents, Records
  <2>3. user' \in [Users -> Records \union {None}]
    BY <1>1, <1>12, <2>1, <2>2 DEF AdminPilotLink, Documents
  <2>. QED
    BY <1>1, <1>12, <2>3 DEF AdminPilotLink, Documents, pilots, mails, history
<1>13. CASE Claims(r)
  <2>1. q.pilot \in Pilots
    BY <1>2, <1>13 DEF Claims
  <2>. QED
    BY <1>1, <1>13, <2>1 DEF Claims, Documents, accounts, mails, history
<1>14. CASE WritePilot(r)
  <2>1. Shaped(q) /\ q.at = "pilot"
    BY <1>14, RequestIs DEF WritePilot
  <2>2. q.op \in Makers \union {"editPilot"}
    BY <2>1, IdleIs DEF Shaped, Steps, Makers
  <2>3. q.op = "editPilot" => q.doc \in PilotDocs /\ q.doc.user \in Users \union {None}
    BY <1>2 DEF PilotDocs
  <2>4. [user |-> q.user] \in PilotDocs
    BY <1>2 DEF PilotDocs
  <2>. DEFINE doc == IF q.op = "editPilot" THEN q.doc ELSE [user |-> q.user]
  <2>5. doc \in PilotDocs
    BY <2>3, <2>4
  <2>. HIDE DEF doc
  <2>6. pilot' = [pilot EXCEPT ![q.pilot] = doc]
    BY <1>14 DEF WritePilot, doc
  <2>7. pilot' \in [Pilots -> PilotDocs \union {None}]
    BY <1>1, <2>5, <2>6 DEF Documents
  <2>8. lost' \subseteq Users \union Pilots
    BY <1>1, <1>2, <1>14, <2>2, <2>3 DEF WritePilot, Documents
  <2>. QED
    BY <1>1, <1>14, <2>7, <2>8 DEF WritePilot, Documents, accounts, mails
<1>15. CASE Lists(r)
  <2>1. q.pilot \in Pilots
    BY <1>2, <1>15 DEF Lists
  <2>. QED
    BY <1>1, <1>15, <2>1 DEF Lists, Documents, accounts, mails, history
<1>16. CASE MyPilotWrite(r)
  <2>1. q.doc \in Records /\ WrittenOver(r) \subseteq Users /\ q.pilot \in Pilots
    BY <1>2, <1>3, <1>16 DEF MyPilotWrite, At, Carries, Makers
  <2>2. [q.doc EXCEPT !.pilot = q.pilot] \in Records
    BY <2>1 DEF Records
  <2>. QED
    BY <1>1, <1>16, <2>1, <2>2 DEF MyPilotWrite, Documents, pilots, mails
<1>17. CASE Undo(r)
  <2>1. Shaped(q) /\ q.at = "undo"
    BY <1>17, RequestIs DEF Undo
  <2>2. q.pilot \in Pilots
    BY <1>2, <2>1, IdleIs DEF Shaped, Steps, Makers
  <2>. QED
    BY <1>1, <1>17, <2>2 DEF Undo, Documents, accounts, mails
<1>18. CASE Crash(r)
  <2>1. q.pilot \in Pilots \union {None}
    BY RequestIs
  <2>. QED
    BY <1>1, <1>2, <1>18, <2>1 DEF Crash, Documents, accounts, pilots, mails
<1>. QED
  BY <1>5, <1>6, <1>7, <1>8, <1>9, <1>10, <1>11, <1>12, <1>13, <1>14, <1>15, <1>16, <1>17, <1>18
  DEF PilotStep

LEMMA TypesKept ==
  ASSUME Types, Locked, Step
  PROVE  Types' /\ Locked'
<1>1. ASSUME NEW r \in Requests, Becomes(r), Documents'
      PROVE  Types' /\ Locked'
  <2>1. \A s \in Requests : Shaped(req'[s]) /\ (req'[s].at = "idle" <=> req'[s] = Idle)
    BY <1>1 DEF Becomes, Types, TypeOK
  <2>2. lock' \in Requests \union {None}
    BY <1>1 DEF Becomes, Types, TypeOK
  <2>3. TypeOK'
    BY <1>1, <2>1, <2>2 DEF TypeOK, Documents, Becomes
  <2>4. ASSUME NEW s \in Requests PROVE lock' = s <=> Holds(req'[s])
    <3>1. CASE s = r
      BY <1>1, <3>1, RequestIs DEF Becomes, Locked
    <3>2. CASE s # r
      BY <1>1, <3>2, RequestIs DEF Becomes, Locked
    <3>. QED
      BY <3>1, <3>2
  <2>. QED
    BY <2>1, <2>3, <2>4 DEF Types, Locked
<1>2. ASSUME NEW r \in Requests, QuietStep(r) PROVE Becomes(r) /\ Documents'
  <2>1. Becomes(r) /\ Still
    BY <1>2 DEF QuietStep, BeginsRegister, BeginsFor, BeginsMine, BeginsNew, BeginsEdit, Enters,
      Locks, Remints, Fails, Retries, Stops, Goes, Ends, Finds, Loses, ReadsVersion, ReadsRoles,
      ReadsDelete, ReadsEmail, Reads, ReadsAdmin, ReadsMine
  <2>. QED
    BY <2>1, DocumentsAre DEF Documents, Still, accounts, pilots, mails, history
<1>3. ASSUME NEW r \in Requests, AccountStep(r) PROVE Becomes(r)
  BY <1>3 DEF AccountStep, BeginsVerify, Enters, Goes, Ends, WinsAddress, Collects, Drops,
    MovesIndex, Unverifies
<1>4. ASSUME NEW r \in Requests, PilotStep(r) PROVE Becomes(r)
  BY <1>4 DEF PilotStep, MovesClaim, LosesClaim, Claims, Lists, Goes, Ends
<1>5. ASSUME NEW u \in Users, AdminVerify(u) \/ Bump(u), ops' \in 0 .. MaxOps
      PROVE  Types' /\ Locked'
  <2>1. cred[u] # None /\ cred[u] \in Credentials
    BY <1>5, DocumentsAre DEF AdminVerify, Bump, Documents
  <2>. PICK c : c = cred[u]
    OBVIOUS
  <2>. PICK next : next = c.version + 1
    OBVIOUS
  <2>5. c.version \in Nat /\ next \in Nat
    BY <2>1 DEF Credentials
  <2>2. /\ [c EXCEPT !.verified = TRUE] \in Credentials
        /\ [c EXCEPT !.version = next] \in Credentials
    BY <2>1, <2>5 DEF Credentials
  <2>3. cred' \in [Users -> Credentials \union {None}]
    <3>1. CASE AdminVerify(u)
      <4>1. cred' = [cred EXCEPT ![u] = [c EXCEPT !.verified = TRUE]]
        BY <3>1 DEF AdminVerify
      <4>. QED
        BY <2>2, <4>1, DocumentsAre DEF Documents
    <3>2. CASE Bump(u)
      <4>1. cred' = [cred EXCEPT ![u] = [c EXCEPT !.version = next]]
        BY <3>2 DEF Bump
      <4>. QED
        BY <2>2, <4>1, DocumentsAre DEF Documents
    <3>. QED
      BY <1>5, <3>1, <3>2
  <2>4. TypeOK'
    <3>1. CASE AdminVerify(u)
      BY <1>5, <2>3, <3>1 DEF AdminVerify, Types, TypeOK, pilots, mails, history
    <3>2. CASE Bump(u)
      BY <1>5, <2>3, <3>2 DEF Bump, Types, TypeOK, pilots
    <3>. QED
      BY <1>5, <3>1, <3>2
  <2>. QED
    BY <1>5, <2>4 DEF AdminVerify, Bump, Types, Locked
<1>6. CASE UNCHANGED vars
  BY <1>6 DEF vars, accounts, pilots, mails, history, Types, TypeOK, Locked
<1>. QED
  BY <1>1, <1>2, <1>3, <1>4, <1>5, <1>6, AccountTyped, PilotTyped DEF Step, RequestStep

LEMMA InitIs ==
  ASSUME Init
  PROVE  Types /\ Locked
<1>1. Documents
  <2>1. /\ [verified |-> TRUE, version |-> 0] \in Credentials
    BY DEF Credentials
  <2>. PICK present \in Members, admins \in SUBSET Users :
         /\ cred = [u \in Users |-> IF u \in present THEN [verified |-> TRUE, version |-> 0] ELSE None]
         /\ user = [u \in Users |->
                      IF u \in present
                      THEN [email |-> AddressOf[u], admin |-> u \in admins, pilot |-> None] ELSE None]
         /\ index = [e \in Emails |-> IF \E u \in present : AddressOf[u] = e
                                      THEN CHOOSE u \in present : AddressOf[u] = e ELSE None]
    BY DEF Init
  <2>2. \A u \in Users : [email |-> AddressOf[u], admin |-> u \in admins, pilot |-> None] \in Records
    BY ConstantTypes DEF Records
  <2>3. cred \in [Users -> Credentials \union {None}] /\ user \in [Users -> Records \union {None}]
    BY <2>1, <2>2
  <2>4. present \subseteq Users
    BY AccountsAssumption
  <2>5. index \in [Emails -> Users \union {None}]
    BY <2>4
  <2>. QED
    BY <2>3, <2>5 DEF Init, Documents
<1>2. \A r \in Requests : req[r] = Idle
  BY DEF Init
<1>3. TypeOK
  BY <1>1, <1>2, IdleIs, ConstantTypes DEF Init, TypeOK, Documents
<1>4. Locked
  BY <1>2, IdleIs, ConstantTypes DEF Init, Locked
<1>. QED
  BY <1>2, <1>3, <1>4, IdleIs DEF Types

(* The variables have their types, and the lock is held by the one request *)
(* that went past it: what the store, the requests and their fields may be *)
(* (accountMutation.ts:20, users/.admin-mutation.lock).                    *)
THEOREM TypeCorrect ==
  Spec => [](TypeOK /\ Locked)
<1>1. Init => Types /\ Locked
  BY InitIs
<1>2. Types /\ Locked /\ [Next]_vars => Types' /\ Locked'
  BY StepIs, TypesKept DEF Step
<1>3. Types => TypeOK
  BY DEF Types
<1>. QED
  BY <1>1, <1>2, <1>3, PTL DEF Spec

-----------------------------------------------------------------------------
(* Where the documents and the requests of an account come from.           *)

LEMMA QuietIsStill ==
  ASSUME NEW r \in Requests, QuietStep(r)
  PROVE  Still
BY DEF QuietStep, BeginsRegister, BeginsFor, BeginsMine, BeginsNew, BeginsEdit,
   Locks, Remints, Fails, Retries, Stops, Finds, Loses, ReadsVersion, ReadsRoles,
   ReadsDelete, ReadsEmail, Reads, ReadsAdmin, ReadsMine

(* A step of a request leaves the documents of other accounts alone.       *)
LEMMA OthersStay ==
  ASSUME NEW r \in Requests, RequestStep(r), Types,
         NEW u \in Users, req[r].user # u
  PROVE  /\ cred'[u] = cred[u] /\ user'[u] = user[u] /\ tomb'[u] = tomb[u]
         /\ latest'[u] = latest[u] /\ mailed'[u] = mailed[u]
<1>0. Documents
  BY DocumentsAre
<1>1. CASE QuietStep(r)
  BY <1>1, QuietIsStill DEF Still, accounts, mails
<1>2. CASE BeginsVerify(r)
  BY <1>0, <1>2 DEF BeginsVerify, Documents, accounts, pilots, mails
<1>3. CASE RegisterCred(r)
  BY <1>0, <1>3 DEF RegisterCred, Documents, accounts, pilots, mails
<1>4. CASE RegisterUser(r)
  BY <1>0, <1>4 DEF RegisterUser, Documents, accounts, pilots, mails
<1>5. CASE WinsAddress(r)
  BY <1>0, <1>5 DEF WinsAddress, Documents, accounts, pilots, mails
<1>6. CASE Collects(r)
  BY <1>0, <1>6 DEF Collects, Documents, accounts, pilots, mails
<1>7. CASE RegisterAccept(r)
  BY <1>0, <1>7 DEF RegisterAccept, Documents, accounts, pilots, mails
<1>8. CASE MintLink(r)
  BY <1>0, <1>8 DEF MintLink, Documents, accounts, pilots, mails
<1>9. CASE VerifyCred(r)
  BY <1>0, <1>9 DEF VerifyCred, Documents, accounts, pilots, mails
<1>10. CASE RolesWrite(r)
  BY <1>10, RolesWriteIs DEF accounts, pilots, mails
<1>11. CASE DeleteTomb(r)
  BY <1>0, <1>11 DEF DeleteTomb, Documents, accounts, pilots, mails
<1>12. CASE DeleteIndex(r)
  BY <1>0, <1>12 DEF DeleteIndex, Documents, accounts, pilots, mails
<1>13. CASE Drops(r)
  BY <1>0, <1>13 DEF Drops, DeleteCred, Documents, accounts, pilots, mails, Sweep
<1>14. CASE DeleteUser(r)
  BY <1>0, <1>14 DEF DeleteUser, Documents, accounts, pilots, mails
<1>15. CASE MovesIndex(r)
  BY <1>0, <1>15 DEF MovesIndex, Documents, accounts, pilots, mails
<1>16. CASE Unverifies(r)
  BY <1>0, <1>16 DEF Unverifies, EmailUnverify, Documents, accounts, pilots, mails
<1>17. CASE EmailUser(r)
  BY <1>0, <1>17 DEF EmailUser, Documents, accounts, pilots, mails
<1>18. CASE EmailSweep(r)
  BY <1>0, <1>18 DEF EmailSweep, Documents, accounts, pilots, mails, Sweep
<1>19. CASE DeleteLink(r)
  BY <1>0, <1>19 DEF DeleteLink, Documents, accounts, pilots, mails
<1>20. CASE DeleteClaim(r)
  BY <1>0, <1>20 DEF DeleteClaim, Documents, accounts, pilots, mails
<1>21. CASE MovesClaim(r)
  BY <1>0, <1>21 DEF MovesClaim, Documents, accounts, pilots, mails
<1>22. CASE LosesClaim(r)
  BY <1>0, <1>22 DEF LosesClaim, Documents, accounts, pilots, mails
<1>23. CASE AdminPilotEnsure(r)
  BY <1>0, <1>23 DEF AdminPilotEnsure, Documents, accounts, pilots, mails
<1>24. CASE AdminPilotRelist(r)
  BY <1>0, <1>24 DEF AdminPilotRelist, Documents, accounts, pilots, mails
<1>25. CASE AdminPilotReclaim(r)
  BY <1>0, <1>25 DEF AdminPilotReclaim, Documents, accounts, pilots, mails
<1>26. CASE AdminPilotLink(r)
  BY <1>0, <1>26 DEF AdminPilotLink, Documents, accounts, pilots, mails
<1>27. CASE Claims(r)
  BY <1>0, <1>27 DEF Claims, Documents, accounts, pilots, mails
<1>28. CASE WritePilot(r)
  BY <1>0, <1>28 DEF WritePilot, Documents, accounts, pilots, mails
<1>29. CASE Lists(r)
  BY <1>0, <1>29 DEF Lists, Documents, accounts, pilots, mails
<1>30. CASE MyPilotWrite(r)
  BY <1>0, <1>30 DEF MyPilotWrite, Documents, accounts, pilots, mails
<1>31. CASE Undo(r)
  BY <1>0, <1>31 DEF Undo, Documents, accounts, pilots, mails
<1>32. CASE Crash(r)
  BY <1>0, <1>32 DEF Crash, Documents, accounts, pilots, mails
<1>. QED
  BY <1>1, <1>2, <1>3, <1>4, <1>5, <1>6, <1>7, <1>8, <1>9, <1>10, <1>11, <1>12, <1>13, <1>14,
     <1>15, <1>16, <1>17, <1>18, <1>19, <1>20, <1>21, <1>22, <1>23, <1>24, <1>25, <1>26, <1>27,
     <1>28, <1>29, <1>30, <1>31, <1>32 DEF RequestStep, AccountStep, PilotStep

LEMMA StepBecomes ==
  ASSUME NEW r \in Requests, RequestStep(r)
  PROVE  Becomes(r)
<1>1. CASE QuietStep(r)
  BY <1>1 DEF QuietStep, BeginsRegister, BeginsFor, BeginsMine, BeginsNew, BeginsEdit, Enters,
    Locks, Remints, Fails, Retries, Stops, Goes, Ends, Finds, Loses, ReadsVersion, ReadsRoles,
    ReadsDelete, ReadsEmail, Reads, ReadsAdmin, ReadsMine
<1>2. CASE AccountStep(r)
  BY <1>2 DEF AccountStep, BeginsVerify, Enters, Goes, Ends, WinsAddress, Collects, Drops,
    MovesIndex, Unverifies
<1>3. CASE PilotStep(r)
  BY <1>3 DEF PilotStep, MovesClaim, LosesClaim, Claims, Lists, Goes, Ends
<1>. QED
  BY <1>1, <1>2, <1>3 DEF RequestStep

(* Which steps write what.                                                 *)
LEMMA Writers ==
  ASSUME NEW r \in Requests, RequestStep(r)
  PROVE  /\ cred' = cred \/ RegisterCred(r) \/ Collects(r) \/ VerifyCred(r) \/ Drops(r) \/ Unverifies(r)
         /\ \/ user' = user \/ RegisterUser(r) \/ Collects(r) \/ RegisterAccept(r) \/ RolesWrite(r)
            \/ DeleteUser(r) \/ EmailUser(r) \/ AdminPilotLink(r) \/ MyPilotWrite(r)
         /\ tomb' = tomb \/ DeleteTomb(r)
         /\ index' = index \/ WinsAddress(r) \/ DeleteIndex(r) \/ MovesIndex(r)
         /\ \/ claims' = claims \/ DeleteClaim(r) \/ MovesClaim(r) \/ AdminPilotReclaim(r) \/ Claims(r)
            \/ Undo(r)
         /\ pilot' = pilot \/ DeleteLink(r) \/ AdminPilotEnsure(r) \/ WritePilot(r) \/ Undo(r)
         /\ listed' = listed \/ AdminPilotRelist(r) \/ Lists(r) \/ Undo(r)
         /\ links' = links \/ BeginsVerify(r) \/ MintLink(r) \/ Drops(r) \/ EmailSweep(r)
         /\ mailed' = mailed \/ MintLink(r) \/ Drops(r) \/ EmailSweep(r) \/ Unverifies(r)
         /\ \/ torn' = torn \/ RolesWrite(r) \/ DeleteLink(r) \/ DeleteClaim(r) \/ MovesIndex(r)
            \/ MovesClaim(r) \/ LosesClaim(r) \/ EmailUser(r) \/ Undo(r) \/ Crash(r)
         /\ \/ lost' = lost \/ RegisterAccept(r) \/ RolesWrite(r) \/ EmailUser(r) \/ WritePilot(r)
            \/ MyPilotWrite(r)
         /\ relinked' = relinked \/ RolesWrite(r)
         /\ torn \subseteq torn' /\ lost \subseteq lost' /\ relinked \subseteq relinked'
<1>1. CASE QuietStep(r)
  BY <1>1, QuietIsStill DEF Still, accounts, pilots, mails, history
<1>2. CASE BeginsVerify(r)
  BY <1>2 DEF BeginsVerify, accounts, pilots, mails, history
<1>3. CASE RegisterCred(r)
  BY <1>3 DEF RegisterCred, accounts, pilots, mails, history
<1>4. CASE RegisterUser(r)
  BY <1>4 DEF RegisterUser, accounts, pilots, mails, history
<1>5. CASE WinsAddress(r)
  BY <1>5 DEF WinsAddress, accounts, pilots, mails, history
<1>6. CASE Collects(r)
  BY <1>6 DEF Collects, accounts, pilots, mails, history
<1>7. CASE RegisterAccept(r)
  BY <1>7 DEF RegisterAccept, accounts, pilots, mails, history
<1>8. CASE MintLink(r)
  BY <1>8 DEF MintLink, accounts, pilots, mails, history
<1>9. CASE VerifyCred(r)
  BY <1>9 DEF VerifyCred, accounts, pilots, mails, history
<1>10. CASE RolesWrite(r)
  BY <1>10 DEF RolesWrite, accounts, pilots, mails, history
<1>11. CASE DeleteTomb(r)
  BY <1>11 DEF DeleteTomb, accounts, pilots, mails, history
<1>12. CASE DeleteIndex(r)
  BY <1>12 DEF DeleteIndex, accounts, pilots, mails, history
<1>13. CASE Drops(r)
  BY <1>13 DEF Drops, DeleteCred, accounts, pilots, mails, history
<1>14. CASE DeleteUser(r)
  BY <1>14 DEF DeleteUser, accounts, pilots, mails, history
<1>15. CASE MovesIndex(r)
  BY <1>15 DEF MovesIndex, accounts, pilots, mails, history
<1>16. CASE Unverifies(r)
  BY <1>16 DEF Unverifies, EmailUnverify, accounts, pilots, mails, history
<1>17. CASE EmailUser(r)
  BY <1>17 DEF EmailUser, accounts, pilots, mails, history
<1>18. CASE EmailSweep(r)
  BY <1>18 DEF EmailSweep, accounts, pilots, mails, history
<1>19. CASE DeleteLink(r)
  BY <1>19 DEF DeleteLink, accounts, pilots, mails, history
<1>20. CASE DeleteClaim(r)
  BY <1>20 DEF DeleteClaim, accounts, pilots, mails, history
<1>21. CASE MovesClaim(r)
  BY <1>21 DEF MovesClaim, accounts, pilots, mails, history
<1>22. CASE LosesClaim(r)
  BY <1>22 DEF LosesClaim, accounts, pilots, mails, history
<1>23. CASE AdminPilotEnsure(r)
  BY <1>23 DEF AdminPilotEnsure, accounts, pilots, mails, history
<1>24. CASE AdminPilotRelist(r)
  BY <1>24 DEF AdminPilotRelist, accounts, pilots, mails, history
<1>25. CASE AdminPilotReclaim(r)
  BY <1>25 DEF AdminPilotReclaim, accounts, pilots, mails, history
<1>26. CASE AdminPilotLink(r)
  BY <1>26 DEF AdminPilotLink, accounts, pilots, mails, history
<1>27. CASE Claims(r)
  BY <1>27 DEF Claims, accounts, pilots, mails, history
<1>28. CASE WritePilot(r)
  BY <1>28 DEF WritePilot, accounts, pilots, mails, history
<1>29. CASE Lists(r)
  BY <1>29 DEF Lists, accounts, pilots, mails, history
<1>30. CASE MyPilotWrite(r)
  BY <1>30 DEF MyPilotWrite, accounts, pilots, mails, history
<1>31. CASE Undo(r)
  BY <1>31 DEF Undo, accounts, pilots, mails, history
<1>32. CASE Crash(r)
  BY <1>32 DEF Crash, accounts, pilots, mails, history
<1>. QED
  BY <1>1, <1>2, <1>3, <1>4, <1>5, <1>6, <1>7, <1>8, <1>9, <1>10, <1>11, <1>12, <1>13, <1>14,
     <1>15, <1>16, <1>17, <1>18, <1>19, <1>20, <1>21, <1>22, <1>23, <1>24, <1>25, <1>26, <1>27,
     <1>28, <1>29, <1>30, <1>31, <1>32 DEF RequestStep, AccountStep, PilotStep

(* A registration of somebody new, from the first write to the address.    *)
Newcomer(q) == q.op = "register" /\ q.at \in {"cred", "find", "user", "index", "collect"}

(* The account was made for good: nobody refers to any other.              *)
Rooted(u) ==
  /\ u \in Users
  /\ tomb[u] # None \/ (user[u] # None /\ \A r \in Requests : Newcomer(req[r]) => req[r].user # u)

RequestRooted(q) ==
  /\ q.user # None /\ ~Newcomer(q) => Rooted(q.user)
  /\ q.op = "editPilot" => /\ q.doc.user = None \/ Rooted(q.doc.user)
                           /\ \A u \in Users : q.pilot = OwnPilot[u] => Rooted(u)
  /\ q.op = "register" /\ q.at = "collect" => Rooted(q.rival)
  /\ q.op = "delete" /\ q.at \notin {"lock", "begin", "tomb"} => tomb[q.user] # None

Origins ==
  /\ \A e \in Emails : index[e] # None => Rooted(index[e])
  /\ \A n \in LinkIds : links[n] # None => Rooted(links[n].user)
  /\ \A p \in Pilots : pilot[p] # None => pilot[p].user = None \/ Rooted(pilot[p].user)
  /\ \A u \in Users : pilot[OwnPilot[u]] # None => Rooted(u)
  /\ \A r \in Requests : RequestRooted(req[r])

(* What somebody new has so far, and no other request knows the account.   *)
Fits(q) ==
  /\ tomb[q.user] = None
  /\ IF q.at = "cred" THEN cred[q.user] = None ELSE cred[q.user] # None /\ ~cred[q.user].verified
  /\ user[q.user] = IF q.at \in {"index", "collect"} THEN q.doc ELSE None

Newcomers ==
  /\ \A r \in Requests : Newcomer(req[r]) =>
       Fits(req[r]) /\ \A s \in Requests \ {r} : req[s].user # req[r].user
  /\ \A u \in Users : Live(u) => cred[u] # None

Rooting == Types /\ Locked /\ Origins /\ Newcomers

LEMMA NewcomerIs ==
  ASSUME NEW r \in Requests, RequestStep(r), Newcomer(req'[r])
  PROVE  \/ BeginsRegister(r) /\ Fresh(req'[r].user) /\ req'[r].at = "cred"
         \/ /\ Newcomer(req[r]) /\ req'[r].user = req[r].user
            /\ RegisterCred(r) \/ Finds(r) \/ RegisterUser(r) \/ Loses(r)
<1>1. CASE BeginsRegister(r)
  BY <1>1, IdleIs DEF Newcomer, Same, Kin, BeginsRegister, Enters
<1>2. CASE BeginsFor(r)
  BY <1>2, IdleIs DEF Newcomer, Same, Kin, BeginsFor, Enters
<1>3. CASE BeginsMine(r)
  BY <1>3, IdleIs DEF Newcomer, Same, Kin, BeginsMine, Enters
<1>4. CASE BeginsNew(r)
  BY <1>4, IdleIs DEF Newcomer, Same, Kin, BeginsNew, Enters
<1>5. CASE BeginsEdit(r)
  BY <1>5, IdleIs DEF Newcomer, Same, Kin, BeginsEdit, Enters
<1>6. CASE Locks(r)
  BY <1>6, IdleIs DEF Newcomer, Same, Kin, Locks, Goes
<1>7. CASE Remints(r)
  BY <1>7, IdleIs DEF Newcomer, Same, Kin, Remints, Goes, At
<1>8. CASE Fails(r)
  BY <1>8, IdleIs DEF Newcomer, Same, Kin, Fails, Goes
<1>9. CASE Retries(r)
  BY <1>9, IdleIs DEF Newcomer, Same, Kin, Retries, Goes, At
<1>10. CASE Stops(r)
  BY <1>10, IdleIs DEF Newcomer, Same, Kin, Stops, At, Ends
<1>11. CASE Finds(r)
  BY <1>11, IdleIs DEF Newcomer, Same, Kin, Finds, Reads
<1>12. CASE Loses(r)
  BY <1>12, IdleIs DEF Newcomer, Same, Kin, Loses, Reads
<1>13. CASE ReadsVersion(r)
  BY <1>13, IdleIs DEF Newcomer, Same, Kin, ReadsVersion, Reads
<1>14. CASE ReadsRoles(r)
  BY <1>14, IdleIs DEF Newcomer, Same, Kin, ReadsRoles, Reads
<1>15. CASE ReadsDelete(r)
  BY <1>15, IdleIs DEF Newcomer, Same, Kin, ReadsDelete, Reads
<1>16. CASE ReadsEmail(r)
  BY <1>16, IdleIs DEF Newcomer, Same, Kin, ReadsEmail, Reads
<1>17. CASE ReadsAdmin(r)
  BY <1>17, IdleIs DEF Newcomer, Same, Kin, ReadsAdmin, At
<1>18. CASE ReadsMine(r)
  BY <1>18, IdleIs DEF Newcomer, Same, Kin, ReadsMine, At
<1>19. CASE BeginsVerify(r)
  BY <1>19, IdleIs DEF Newcomer, Same, Kin, BeginsVerify, Enters
<1>20. CASE RegisterCred(r) /\ Goes(r, "find")
  BY <1>20, IdleIs DEF Newcomer, Same, Kin, RegisterCred, Goes, At
<1>21. CASE RegisterUser(r) /\ Goes(r, "index")
  BY <1>21, IdleIs DEF Newcomer, Same, Kin, RegisterUser, Goes, At
<1>22. CASE WinsAddress(r)
  BY <1>22, IdleIs DEF Newcomer, Same, Kin, WinsAddress, Goes, At
<1>23. CASE Collects(r)
  BY <1>23, IdleIs DEF Newcomer, Same, Kin, Collects, At
<1>24. CASE RegisterAccept(r) /\ Goes(r, "mint")
  BY <1>24, IdleIs DEF Newcomer, Same, Kin, RegisterAccept, Goes, At
<1>25. CASE MintLink(r) /\ Ends(r)
  BY <1>25, IdleIs DEF Newcomer, Same, Kin, MintLink, Ends
<1>26. CASE VerifyCred(r) /\ Ends(r)
  BY <1>26, IdleIs DEF Newcomer, Same, Kin, VerifyCred, Ends, At
<1>27. CASE RolesWrite(r) /\ Ends(r)
  BY <1>27, IdleIs DEF Newcomer, Same, Kin, RolesWrite, Ends, At
<1>28. CASE DeleteTomb(r) /\ Goes(r, "unindex")
  BY <1>28, IdleIs DEF Newcomer, Same, Kin, DeleteTomb, Goes, At
<1>29. CASE DeleteIndex(r) /\ Goes(r, "uncred")
  BY <1>29, IdleIs DEF Newcomer, Same, Kin, DeleteIndex, Goes, At
<1>30. CASE Drops(r)
  BY <1>30, IdleIs DEF Newcomer, Same, Kin, Drops, DeleteCred, Goes, At
<1>31. CASE DeleteUser(r) /\ Ends(r)
  BY <1>31, IdleIs DEF Newcomer, Same, Kin, DeleteUser, Ends, At
<1>32. CASE MovesIndex(r)
  BY <1>32, IdleIs DEF Newcomer, Same, Kin, MovesIndex, Goes, At
<1>33. CASE Unverifies(r)
  BY <1>33, IdleIs DEF Newcomer, Same, Kin, Unverifies, EmailUnverify, Goes, At
<1>34. CASE EmailUser(r) /\ Goes(r, "sweep")
  BY <1>34, IdleIs DEF Newcomer, Same, Kin, EmailUser, Goes, At
<1>35. CASE EmailSweep(r) /\ Goes(r, "mint")
  BY <1>35, IdleIs DEF Newcomer, Same, Kin, EmailSweep, Goes, At
<1>36. CASE DeleteLink(r) /\ Goes(r, "unclaim")
  BY <1>36, IdleIs DEF Newcomer, Same, Kin, DeleteLink, Goes, At
<1>37. CASE DeleteClaim(r) /\ Goes(r, "unuser")
  BY <1>37, IdleIs DEF Newcomer, Same, Kin, DeleteClaim, Goes, At
<1>38. CASE MovesClaim(r)
  BY <1>38, IdleIs DEF Newcomer, Same, Kin, MovesClaim, Goes, At
<1>39. CASE LosesClaim(r)
  BY <1>39, IdleIs DEF Newcomer, Same, Kin, LosesClaim, Ends, At
<1>40. CASE AdminPilotEnsure(r) /\ Goes(r, "relist")
  BY <1>40, IdleIs DEF Newcomer, Same, Kin, AdminPilotEnsure, Goes, At
<1>41. CASE AdminPilotRelist(r) /\ Goes(r, "reclaim")
  BY <1>41, IdleIs DEF Newcomer, Same, Kin, AdminPilotRelist, Goes, At
<1>42. CASE AdminPilotReclaim(r) /\ Ends(r)
  BY <1>42, IdleIs DEF Newcomer, Same, Kin, AdminPilotReclaim, Ends, At
<1>43. CASE AdminPilotLink(r) /\ Ends(r)
  BY <1>43, IdleIs DEF Newcomer, Same, Kin, AdminPilotLink, Ends, At
<1>44. CASE Claims(r)
  BY <1>44, IdleIs DEF Newcomer, Same, Kin, Claims
<1>45. CASE WritePilot(r) /\ Goes(r, "list")
  BY <1>45, IdleIs DEF Newcomer, Same, Kin, WritePilot, Goes
<1>46. CASE Lists(r)
  BY <1>46, IdleIs DEF Newcomer, Same, Kin, Lists, Goes, Ends
<1>47. CASE MyPilotWrite(r) /\ Ends(r)
  BY <1>47, IdleIs DEF Newcomer, Same, Kin, MyPilotWrite, Ends, At
<1>48. CASE Undo(r) /\ Ends(r)
  BY <1>48, IdleIs DEF Newcomer, Same, Kin, Undo, Ends
<1>49. CASE Crash(r) /\ Ends(r)
  BY <1>49, IdleIs DEF Newcomer, Same, Kin, Crash, Ends
<1>. QED
  BY <1>1, <1>2, <1>3, <1>4, <1>5, <1>6, <1>7, <1>8, <1>9, <1>10, <1>11, <1>12, <1>13, <1>14,
     <1>15, <1>16, <1>17, <1>18, <1>19, <1>20, <1>21, <1>22, <1>23, <1>24, <1>25, <1>26, <1>27,
     <1>28, <1>29, <1>30, <1>31, <1>32, <1>33, <1>34, <1>35, <1>36, <1>37, <1>38, <1>39, <1>40,
     <1>41, <1>42, <1>43, <1>44, <1>45, <1>46, <1>47, <1>48, <1>49 DEF RequestStep, QuietStep,
     AccountStep, PilotStep

(* Whose request it is after a step.                                       *)
LEMMA RequestUser ==
  ASSUME NEW r \in Requests, RequestStep(r)
  PROVE  \/ req'[r] = Idle
         \/ req'[r].user = req[r].user /\ req'[r].op = req[r].op /\ req'[r].pilot = req[r].pilot
         \/ BeginsRegister(r) \/ BeginsFor(r) \/ BeginsMine(r) \/ BeginsVerify(r) \/ Collects(r)
         \/ BeginsNew(r) \/ BeginsEdit(r)
<1>1. CASE Locks(r)
  BY <1>1 DEF Same, Kin, Locks, Goes
<1>2. CASE Remints(r)
  BY <1>2 DEF Same, Kin, Remints, Goes, At
<1>3. CASE Fails(r)
  BY <1>3 DEF Same, Kin, Fails, Goes
<1>4. CASE Retries(r)
  BY <1>4 DEF Same, Kin, Retries, Goes, At
<1>5. CASE Stops(r)
  BY <1>5 DEF Same, Kin, Stops, At, Ends
<1>6. CASE Finds(r)
  BY <1>6 DEF Same, Kin, Finds, Reads
<1>7. CASE Loses(r)
  BY <1>7 DEF Same, Kin, Loses, Reads
<1>8. CASE ReadsVersion(r)
  BY <1>8 DEF Same, Kin, ReadsVersion, Reads
<1>9. CASE ReadsRoles(r)
  BY <1>9 DEF Same, Kin, ReadsRoles, Reads
<1>10. CASE ReadsDelete(r)
  BY <1>10 DEF Same, Kin, ReadsDelete, Reads
<1>11. CASE ReadsEmail(r)
  BY <1>11 DEF Same, Kin, ReadsEmail, Reads
<1>12. CASE ReadsAdmin(r)
  BY <1>12 DEF Same, Kin, ReadsAdmin, At
<1>13. CASE ReadsMine(r)
  BY <1>13 DEF Same, Kin, ReadsMine, At
<1>14. CASE RegisterCred(r) /\ Goes(r, "find")
  BY <1>14 DEF Same, Kin, RegisterCred, Goes, At
<1>15. CASE RegisterUser(r) /\ Goes(r, "index")
  BY <1>15 DEF Same, Kin, RegisterUser, Goes, At
<1>16. CASE WinsAddress(r)
  BY <1>16 DEF Same, Kin, WinsAddress, Goes, At
<1>17. CASE RegisterAccept(r) /\ Goes(r, "mint")
  BY <1>17 DEF Same, Kin, RegisterAccept, Goes, At
<1>18. CASE MintLink(r) /\ Ends(r)
  BY <1>18 DEF Same, Kin, MintLink, Ends
<1>19. CASE VerifyCred(r) /\ Ends(r)
  BY <1>19 DEF Same, Kin, VerifyCred, Ends, At
<1>20. CASE RolesWrite(r) /\ Ends(r)
  BY <1>20 DEF Same, Kin, RolesWrite, Ends, At
<1>21. CASE DeleteTomb(r) /\ Goes(r, "unindex")
  BY <1>21 DEF Same, Kin, DeleteTomb, Goes, At
<1>22. CASE DeleteIndex(r) /\ Goes(r, "uncred")
  BY <1>22 DEF Same, Kin, DeleteIndex, Goes, At
<1>23. CASE Drops(r)
  BY <1>23 DEF Same, Kin, Drops, DeleteCred, Goes, At
<1>24. CASE DeleteUser(r) /\ Ends(r)
  BY <1>24 DEF Same, Kin, DeleteUser, Ends, At
<1>25. CASE MovesIndex(r)
  BY <1>25 DEF Same, Kin, MovesIndex, Goes, At
<1>26. CASE Unverifies(r)
  BY <1>26 DEF Same, Kin, Unverifies, EmailUnverify, Goes, At
<1>27. CASE EmailUser(r) /\ Goes(r, "sweep")
  BY <1>27 DEF Same, Kin, EmailUser, Goes, At
<1>28. CASE EmailSweep(r) /\ Goes(r, "mint")
  BY <1>28 DEF Same, Kin, EmailSweep, Goes, At
<1>29. CASE DeleteLink(r) /\ Goes(r, "unclaim")
  BY <1>29 DEF Same, Kin, DeleteLink, Goes, At
<1>30. CASE DeleteClaim(r) /\ Goes(r, "unuser")
  BY <1>30 DEF Same, Kin, DeleteClaim, Goes, At
<1>31. CASE MovesClaim(r)
  BY <1>31 DEF Same, Kin, MovesClaim, Goes, At
<1>32. CASE LosesClaim(r)
  BY <1>32 DEF Same, Kin, LosesClaim, Ends, At
<1>33. CASE AdminPilotEnsure(r) /\ Goes(r, "relist")
  BY <1>33 DEF Same, Kin, AdminPilotEnsure, Goes, At
<1>34. CASE AdminPilotRelist(r) /\ Goes(r, "reclaim")
  BY <1>34 DEF Same, Kin, AdminPilotRelist, Goes, At
<1>35. CASE AdminPilotReclaim(r) /\ Ends(r)
  BY <1>35 DEF Same, Kin, AdminPilotReclaim, Ends, At
<1>36. CASE AdminPilotLink(r) /\ Ends(r)
  BY <1>36 DEF Same, Kin, AdminPilotLink, Ends, At
<1>37. CASE Claims(r)
  BY <1>37 DEF Same, Kin, Claims
<1>38. CASE WritePilot(r) /\ Goes(r, "list")
  BY <1>38 DEF Same, Kin, WritePilot, Goes
<1>39. CASE Lists(r)
  BY <1>39 DEF Same, Kin, Lists, Goes, Ends
<1>40. CASE MyPilotWrite(r) /\ Ends(r)
  BY <1>40 DEF Same, Kin, MyPilotWrite, Ends, At
<1>41. CASE Undo(r) /\ Ends(r)
  BY <1>41 DEF Same, Kin, Undo, Ends
<1>42. CASE Crash(r) /\ Ends(r)
  BY <1>42 DEF Same, Kin, Crash, Ends
<1>. QED
  BY <1>1, <1>2, <1>3, <1>4, <1>5, <1>6, <1>7, <1>8, <1>9, <1>10, <1>11, <1>12, <1>13, <1>14,
     <1>15, <1>16, <1>17, <1>18, <1>19, <1>20, <1>21, <1>22, <1>23, <1>24, <1>25, <1>26, <1>27,
     <1>28, <1>29, <1>30, <1>31, <1>32, <1>33, <1>34, <1>35, <1>36, <1>37, <1>38, <1>39, <1>40,
     <1>41, <1>42 DEF RequestStep, QuietStep, AccountStep, PilotStep

LEMMA NewcomerEnds ==
  ASSUME NEW r \in Requests, RequestStep(r), Newcomer(req[r]), ~Newcomer(req'[r])
  PROVE  WinsAddress(r) \/ Collects(r) \/ (Crash(r) /\ req'[r] = Idle)
<1>1. CASE BeginsRegister(r)
  BY <1>1, IdleIs DEF Newcomer, Same, Kin, Locking, Makers, BeginsRegister, Enters
<1>2. CASE BeginsFor(r)
  BY <1>2, IdleIs DEF Newcomer, Same, Kin, Locking, Makers, BeginsFor, Enters
<1>3. CASE BeginsMine(r)
  BY <1>3, IdleIs DEF Newcomer, Same, Kin, Locking, Makers, BeginsMine, Enters
<1>4. CASE BeginsNew(r)
  BY <1>4, IdleIs DEF Newcomer, Same, Kin, Locking, Makers, BeginsNew, Enters
<1>5. CASE BeginsEdit(r)
  BY <1>5, IdleIs DEF Newcomer, Same, Kin, Locking, Makers, BeginsEdit, Enters
<1>6. CASE Locks(r)
  BY <1>6, IdleIs DEF Newcomer, Same, Kin, Locking, Makers, Locks, Goes
<1>7. CASE Remints(r)
  BY <1>7, IdleIs DEF Newcomer, Same, Kin, Locking, Makers, Remints, Goes, At
<1>8. CASE Fails(r)
  BY <1>8, IdleIs DEF Newcomer, Same, Kin, Locking, Makers, Fails, Goes
<1>9. CASE Retries(r)
  BY <1>9, IdleIs DEF Newcomer, Same, Kin, Locking, Makers, Retries, Goes, At
<1>10. CASE Stops(r)
  BY <1>10, IdleIs DEF Newcomer, Same, Kin, Locking, Makers, Stops, At, Ends
<1>11. CASE Finds(r)
  BY <1>11, IdleIs DEF Newcomer, Same, Kin, Locking, Makers, Finds, Reads
<1>12. CASE Loses(r)
  BY <1>12, IdleIs DEF Newcomer, Same, Kin, Locking, Makers, Loses, Reads
<1>13. CASE ReadsVersion(r)
  BY <1>13, IdleIs DEF Newcomer, Same, Kin, Locking, Makers, ReadsVersion, Reads
<1>14. CASE ReadsRoles(r)
  BY <1>14, IdleIs DEF Newcomer, Same, Kin, Locking, Makers, ReadsRoles, Reads
<1>15. CASE ReadsDelete(r)
  BY <1>15, IdleIs DEF Newcomer, Same, Kin, Locking, Makers, ReadsDelete, Reads
<1>16. CASE ReadsEmail(r)
  BY <1>16, IdleIs DEF Newcomer, Same, Kin, Locking, Makers, ReadsEmail, Reads
<1>17. CASE ReadsAdmin(r)
  BY <1>17, IdleIs DEF Newcomer, Same, Kin, Locking, Makers, ReadsAdmin, At
<1>18. CASE ReadsMine(r)
  BY <1>18, IdleIs DEF Newcomer, Same, Kin, Locking, Makers, ReadsMine, At
<1>19. CASE BeginsVerify(r)
  BY <1>19, IdleIs DEF Newcomer, Same, Kin, Locking, Makers, BeginsVerify, Enters
<1>20. CASE RegisterCred(r) /\ Goes(r, "find")
  BY <1>20, IdleIs DEF Newcomer, Same, Kin, Locking, Makers, RegisterCred, Goes, At
<1>21. CASE RegisterUser(r) /\ Goes(r, "index")
  BY <1>21, IdleIs DEF Newcomer, Same, Kin, Locking, Makers, RegisterUser, Goes, At
<1>22. CASE RegisterAccept(r) /\ Goes(r, "mint")
  BY <1>22, IdleIs DEF Newcomer, Same, Kin, Locking, Makers, RegisterAccept, Goes, At
<1>23. CASE MintLink(r) /\ Ends(r)
  BY <1>23, IdleIs DEF Newcomer, Same, Kin, Locking, Makers, MintLink, Ends
<1>24. CASE VerifyCred(r) /\ Ends(r)
  BY <1>24, IdleIs DEF Newcomer, Same, Kin, Locking, Makers, VerifyCred, Ends, At
<1>25. CASE RolesWrite(r) /\ Ends(r)
  BY <1>25, IdleIs DEF Newcomer, Same, Kin, Locking, Makers, RolesWrite, Ends, At
<1>26. CASE DeleteTomb(r) /\ Goes(r, "unindex")
  BY <1>26, IdleIs DEF Newcomer, Same, Kin, Locking, Makers, DeleteTomb, Goes, At
<1>27. CASE DeleteIndex(r) /\ Goes(r, "uncred")
  BY <1>27, IdleIs DEF Newcomer, Same, Kin, Locking, Makers, DeleteIndex, Goes, At
<1>28. CASE Drops(r)
  BY <1>28, IdleIs DEF Newcomer, Same, Kin, Locking, Makers, Drops, DeleteCred, Goes, At
<1>29. CASE DeleteUser(r) /\ Ends(r)
  BY <1>29, IdleIs DEF Newcomer, Same, Kin, Locking, Makers, DeleteUser, Ends, At
<1>30. CASE MovesIndex(r)
  BY <1>30, IdleIs DEF Newcomer, Same, Kin, Locking, Makers, MovesIndex, Goes, At
<1>31. CASE Unverifies(r)
  BY <1>31, IdleIs DEF Newcomer, Same, Kin, Locking, Makers, Unverifies, EmailUnverify, Goes, At
<1>32. CASE EmailUser(r) /\ Goes(r, "sweep")
  BY <1>32, IdleIs DEF Newcomer, Same, Kin, Locking, Makers, EmailUser, Goes, At
<1>33. CASE EmailSweep(r) /\ Goes(r, "mint")
  BY <1>33, IdleIs DEF Newcomer, Same, Kin, Locking, Makers, EmailSweep, Goes, At
<1>34. CASE DeleteLink(r) /\ Goes(r, "unclaim")
  BY <1>34, IdleIs DEF Newcomer, Same, Kin, Locking, Makers, DeleteLink, Goes, At
<1>35. CASE DeleteClaim(r) /\ Goes(r, "unuser")
  BY <1>35, IdleIs DEF Newcomer, Same, Kin, Locking, Makers, DeleteClaim, Goes, At
<1>36. CASE MovesClaim(r)
  BY <1>36, IdleIs DEF Newcomer, Same, Kin, Locking, Makers, MovesClaim, Goes, At
<1>37. CASE LosesClaim(r)
  BY <1>37, IdleIs DEF Newcomer, Same, Kin, Locking, Makers, LosesClaim, Ends, At
<1>38. CASE AdminPilotEnsure(r) /\ Goes(r, "relist")
  BY <1>38, IdleIs DEF Newcomer, Same, Kin, Locking, Makers, AdminPilotEnsure, Goes, At
<1>39. CASE AdminPilotRelist(r) /\ Goes(r, "reclaim")
  BY <1>39, IdleIs DEF Newcomer, Same, Kin, Locking, Makers, AdminPilotRelist, Goes, At
<1>40. CASE AdminPilotReclaim(r) /\ Ends(r)
  BY <1>40, IdleIs DEF Newcomer, Same, Kin, Locking, Makers, AdminPilotReclaim, Ends, At
<1>41. CASE AdminPilotLink(r) /\ Ends(r)
  BY <1>41, IdleIs DEF Newcomer, Same, Kin, Locking, Makers, AdminPilotLink, Ends, At
<1>42. CASE Claims(r)
  BY <1>42, IdleIs DEF Newcomer, Same, Kin, Locking, Makers, Claims
<1>43. CASE WritePilot(r) /\ Goes(r, "list")
  BY <1>43, IdleIs DEF Newcomer, Same, Kin, Locking, Makers, WritePilot, Goes
<1>44. CASE Lists(r)
  BY <1>44, IdleIs DEF Newcomer, Same, Kin, Locking, Makers, Lists, Goes, Ends
<1>45. CASE MyPilotWrite(r) /\ Ends(r)
  BY <1>45, IdleIs DEF Newcomer, Same, Kin, Locking, Makers, MyPilotWrite, Ends, At
<1>46. CASE Undo(r) /\ Ends(r)
  BY <1>46, IdleIs DEF Newcomer, Same, Kin, Locking, Makers, Undo, Ends
<1>. QED
  BY <1>1, <1>2, <1>3, <1>4, <1>5, <1>6, <1>7, <1>8, <1>9, <1>10, <1>11, <1>12, <1>13, <1>14,
     <1>15, <1>16, <1>17, <1>18, <1>19, <1>20, <1>21, <1>22, <1>23, <1>24, <1>25, <1>26, <1>27,
     <1>28, <1>29, <1>30, <1>31, <1>32, <1>33, <1>34, <1>35, <1>36, <1>37, <1>38, <1>39, <1>40,
     <1>41, <1>42, <1>43, <1>44, <1>45, <1>46 DEF RequestStep, QuietStep, AccountStep, PilotStep,
     Ends

LEMMA TombStays ==
  ASSUME Types, NEW r \in Requests, RequestStep(r), NEW u \in Users, tomb[u] # None
  PROVE  tomb'[u] # None
<1>1. CASE tomb' = tomb
  BY <1>1
<1>2. CASE DeleteTomb(r)
  <2>1. req[r].doc # None
    BY <1>2, CarriesIs DEF DeleteTomb, At, Carries
  <2>. QED
    BY <1>2, <2>1, DocumentsAre DEF DeleteTomb, Documents
<1>. QED
  BY <1>1, <1>2, Writers

LEMMA RootedStays ==
  ASSUME Rooting, NEW r \in Requests, RequestStep(r), NEW u, Rooted(u)
  PROVE  Rooted(u)'
<1>0. Types /\ Documents /\ Becomes(r) /\ u \in Users
  BY DocumentsAre, StepBecomes DEF Rooting, Rooted
<1>1. CASE tomb[u] # None
  BY <1>0, <1>1, TombStays DEF Rooted
<1>2. CASE tomb[u] = None
  <2>1. user[u] # None /\ \A s \in Requests : Newcomer(req[s]) => req[s].user # u
    BY <1>2 DEF Rooted
  <2>2. user'[u] # None
    <3>1. CASE req[r].user # u
      BY <1>0, <2>1, <3>1, OthersStay
    <3>2. CASE req[r].user = u
      <4>1. ~RegisterUser(r) /\ ~Collects(r)
        BY <2>1, <3>2 DEF RegisterUser, Collects, At, Newcomer
      <4>2. ~DeleteUser(r)
        BY <1>2, <3>2 DEF DeleteUser, At, Rooting, Origins, RequestRooted
      <4>3. CASE user' = user
        BY <2>1, <4>3
      <4>4. CASE RegisterAccept(r)
        BY <1>0, <3>2, <4>4, CarriesIs DEF RegisterAccept, At, Carries, Documents
      <4>5. CASE RolesWrite(r)
        <5>1. user'[req[r].user] \in Records
          BY <1>0, <4>5, RolesWriteIs
        <5>. QED
          BY <1>0, <3>2, <4>5, <5>1, ConstantTypes, RolesWriteIs
      <4>6. CASE EmailUser(r)
        <5>1. req[r].doc \in Records /\ req[r].email \in Emails
          BY <1>0, <4>6, CarriesIs DEF EmailUser, At, Carries
        <5>2. [req[r].doc EXCEPT !.email = req[r].email] \in Records
          BY <5>1 DEF Records
        <5>. QED
          BY <1>0, <3>2, <4>6, <5>2, ConstantTypes DEF EmailUser, Documents
      <4>7. CASE AdminPilotLink(r)
        <5>1. user[u] \in Records /\ req[r].pilot \in Pilots
          BY <1>0, <2>1, <4>7, CarriesIs DEF AdminPilotLink, At, Makers, Documents
        <5>2. [user[u] EXCEPT !.pilot = req[r].pilot] \in Records
          BY <5>1 DEF Records
        <5>. QED
          BY <1>0, <2>1, <3>2, <4>7, <5>2, ConstantTypes DEF AdminPilotLink, Documents
      <4>8. CASE MyPilotWrite(r)
        <5>1. req[r].doc \in Records /\ req[r].pilot \in Pilots
          BY <1>0, <4>8, CarriesIs DEF MyPilotWrite, At, Carries, Makers
        <5>2. [req[r].doc EXCEPT !.pilot = req[r].pilot] \in Records
          BY <5>1 DEF Records
        <5>. QED
          BY <1>0, <3>2, <4>8, <5>2, ConstantTypes DEF MyPilotWrite, Documents
      <4>. QED
        BY <4>1, <4>2, <4>3, <4>4, <4>5, <4>6, <4>7, <4>8, Writers
    <3>. QED
      BY <3>1, <3>2
  <2>3. ASSUME NEW s \in Requests, Newcomer(req'[s]), req'[s].user = u PROVE FALSE
    <3>1. s = r
      BY <1>0, <2>1, <2>3 DEF Becomes
    <3>2. BeginsRegister(r) /\ Fresh(u)
      BY <2>1, <2>3, <3>1, NewcomerIs
    <3>. QED
      BY <2>1, <3>2 DEF Fresh
  <2>. QED
    BY <1>0, <2>2, <2>3 DEF Rooted
<1>. QED
  BY <1>1, <1>2

(* What a request becomes is about an account made for good, or new.       *)
LEMMA CallerRooted ==
  ASSUME Rooting, NEW r \in Requests, RequestStep(r), ~Newcomer(req'[r]),
         NEW u, u = req'[r].user, u # None
  PROVE  Rooted(u)'
<1>0. Types /\ Documents /\ Becomes(r) /\ Origins /\ Newcomers
  BY DocumentsAre, StepBecomes DEF Rooting
<1>1. CASE req'[r] = Idle
  BY <1>1, IdleIs
<1>2. CASE req'[r].user = req[r].user /\ ~Newcomer(req[r])
  BY <1>0, <1>2, RootedStays DEF Origins, RequestRooted
<1>3. CASE req'[r].user = req[r].user /\ Newcomer(req[r]) /\ ~Collects(r)
  <2>1. WinsAddress(r) /\ u = req[r].user
    BY <1>3, NewcomerEnds, IdleIs
  <2>2. u \in Users /\ user[u] = req[r].doc /\ req[r].doc # None
    BY <1>0, <1>3, <2>1, CarriesIs DEF Newcomers, Fits, WinsAddress, At, Carries
  <2>3. user'[u] # None
    BY <2>1, <2>2 DEF WinsAddress
  <2>4. \A s \in Requests : s # r => req'[s].user # u
    BY <1>0, <1>3, <2>1 DEF Newcomers, Becomes
  <2>. QED
    BY <1>3, <2>2, <2>3, <2>4 DEF Rooted
<1>4. CASE BeginsRegister(r)
  <2>1. index[req'[r].email] = req'[r].user /\ req'[r].email \in Emails
    BY <1>0, <1>4 DEF BeginsRegister, Newcomer, Becomes, Shaped
  <2>. QED
    BY <1>0, <2>1, RootedStays DEF Origins
<1>5. CASE BeginsFor(r)
  <2>1. req'[r].user \in Users
    BY <1>0, <1>5 DEF BeginsFor, Becomes, Shaped, Locking
  <2>2. Rooted(u)
    BY <1>0, <1>5, <2>1 DEF BeginsFor, Indexed, Origins, Rooted
  <2>. QED
    BY <2>2, RootedStays
<1>6. CASE BeginsMine(r)
  <2>1. req'[r].user \in Users
    BY <1>0, <1>6 DEF BeginsMine, Becomes, Shaped
  <2>2. \A s \in Requests : Newcomer(req[s]) => req[s].user # req'[r].user
    BY <1>0, <1>6 DEF BeginsMine, Newcomers, Fits
  <2>3. Rooted(u)
    BY <1>6, <2>1, <2>2 DEF BeginsMine, Live, Rooted
  <2>. QED
    BY <2>3, RootedStays
<1>7. CASE BeginsVerify(r)
  <2>1. Rooted(u)
    BY <1>0, <1>7 DEF BeginsVerify, Origins
  <2>. QED
    BY <2>1, RootedStays
<1>8. CASE Collects(r)
  <2>1. Rooted(u)
    BY <1>0, <1>8 DEF Collects, At, Origins, RequestRooted
  <2>. QED
    BY <2>1, RootedStays
<1>9. CASE BeginsNew(r) \/ BeginsEdit(r)
  BY <1>0, <1>9 DEF BeginsNew, BeginsEdit, Becomes, Shaped
<1>. QED
  BY <1>1, <1>2, <1>3, <1>4, <1>5, <1>6, <1>7, <1>8, <1>9, RequestUser


LEMMA EditsStay ==
  ASSUME NEW r \in Requests, RequestStep(r), req'[r].op = "editPilot"
  PROVE  \/ BeginsEdit(r)
         \/ req[r].op = "editPilot" /\ req'[r].doc = req[r].doc /\ req'[r].pilot = req[r].pilot
<1>1. CASE BeginsRegister(r)
  BY <1>1, IdleIs DEF Same, Kin, Makers, Locking, BeginsRegister, Enters
<1>2. CASE BeginsFor(r)
  BY <1>2, IdleIs DEF Same, Kin, Makers, Locking, BeginsFor, Enters
<1>3. CASE BeginsMine(r)
  BY <1>3, IdleIs DEF Same, Kin, Makers, Locking, BeginsMine, Enters
<1>4. CASE BeginsNew(r)
  BY <1>4, IdleIs DEF Same, Kin, Makers, Locking, BeginsNew, Enters
<1>5. CASE Locks(r)
  BY <1>5, IdleIs DEF Same, Kin, Makers, Locking, Locks, Goes
<1>6. CASE Remints(r)
  BY <1>6, IdleIs DEF Same, Kin, Makers, Locking, Remints, Goes, At
<1>7. CASE Fails(r)
  BY <1>7, IdleIs DEF Same, Kin, Makers, Locking, Fails, Goes
<1>8. CASE Retries(r)
  BY <1>8, IdleIs DEF Same, Kin, Makers, Locking, Retries, Goes, At
<1>9. CASE Stops(r)
  BY <1>9, IdleIs DEF Same, Kin, Makers, Locking, Stops, At, Ends
<1>10. CASE Finds(r)
  BY <1>10, IdleIs DEF Same, Kin, Makers, Locking, Finds, Reads
<1>11. CASE Loses(r)
  BY <1>11, IdleIs DEF Same, Kin, Makers, Locking, Loses, Reads
<1>12. CASE ReadsVersion(r)
  BY <1>12, IdleIs DEF Same, Kin, Makers, Locking, ReadsVersion, Reads
<1>13. CASE ReadsRoles(r)
  BY <1>13, IdleIs DEF Same, Kin, Makers, Locking, ReadsRoles, Reads
<1>14. CASE ReadsDelete(r)
  BY <1>14, IdleIs DEF Same, Kin, Makers, Locking, ReadsDelete, Reads
<1>15. CASE ReadsEmail(r)
  BY <1>15, IdleIs DEF Same, Kin, Makers, Locking, ReadsEmail, Reads
<1>16. CASE ReadsAdmin(r)
  BY <1>16, IdleIs DEF Same, Kin, Makers, Locking, ReadsAdmin, At
<1>17. CASE ReadsMine(r)
  BY <1>17, IdleIs DEF Same, Kin, Makers, Locking, ReadsMine, At
<1>18. CASE BeginsVerify(r)
  BY <1>18, IdleIs DEF Same, Kin, Makers, Locking, BeginsVerify, Enters
<1>19. CASE RegisterCred(r) /\ Goes(r, "find")
  BY <1>19, IdleIs DEF Same, Kin, Makers, Locking, RegisterCred, Goes, At
<1>20. CASE RegisterUser(r) /\ Goes(r, "index")
  BY <1>20, IdleIs DEF Same, Kin, Makers, Locking, RegisterUser, Goes, At
<1>21. CASE WinsAddress(r)
  BY <1>21, IdleIs DEF Same, Kin, Makers, Locking, WinsAddress, Goes, At
<1>22. CASE Collects(r)
  BY <1>22, IdleIs DEF Same, Kin, Makers, Locking, Collects, At
<1>23. CASE RegisterAccept(r) /\ Goes(r, "mint")
  BY <1>23, IdleIs DEF Same, Kin, Makers, Locking, RegisterAccept, Goes, At
<1>24. CASE MintLink(r) /\ Ends(r)
  BY <1>24, IdleIs DEF Same, Kin, Makers, Locking, MintLink, Ends
<1>25. CASE VerifyCred(r) /\ Ends(r)
  BY <1>25, IdleIs DEF Same, Kin, Makers, Locking, VerifyCred, Ends, At
<1>26. CASE RolesWrite(r) /\ Ends(r)
  BY <1>26, IdleIs DEF Same, Kin, Makers, Locking, RolesWrite, Ends, At
<1>27. CASE DeleteTomb(r) /\ Goes(r, "unindex")
  BY <1>27, IdleIs DEF Same, Kin, Makers, Locking, DeleteTomb, Goes, At
<1>28. CASE DeleteIndex(r) /\ Goes(r, "uncred")
  BY <1>28, IdleIs DEF Same, Kin, Makers, Locking, DeleteIndex, Goes, At
<1>29. CASE Drops(r)
  BY <1>29, IdleIs DEF Same, Kin, Makers, Locking, Drops, DeleteCred, Goes, At
<1>30. CASE DeleteUser(r) /\ Ends(r)
  BY <1>30, IdleIs DEF Same, Kin, Makers, Locking, DeleteUser, Ends, At
<1>31. CASE MovesIndex(r)
  BY <1>31, IdleIs DEF Same, Kin, Makers, Locking, MovesIndex, Goes, At
<1>32. CASE Unverifies(r)
  BY <1>32, IdleIs DEF Same, Kin, Makers, Locking, Unverifies, EmailUnverify, Goes, At
<1>33. CASE EmailUser(r) /\ Goes(r, "sweep")
  BY <1>33, IdleIs DEF Same, Kin, Makers, Locking, EmailUser, Goes, At
<1>34. CASE EmailSweep(r) /\ Goes(r, "mint")
  BY <1>34, IdleIs DEF Same, Kin, Makers, Locking, EmailSweep, Goes, At
<1>35. CASE DeleteLink(r) /\ Goes(r, "unclaim")
  BY <1>35, IdleIs DEF Same, Kin, Makers, Locking, DeleteLink, Goes, At
<1>36. CASE DeleteClaim(r) /\ Goes(r, "unuser")
  BY <1>36, IdleIs DEF Same, Kin, Makers, Locking, DeleteClaim, Goes, At
<1>37. CASE MovesClaim(r)
  BY <1>37, IdleIs DEF Same, Kin, Makers, Locking, MovesClaim, Goes, At
<1>38. CASE LosesClaim(r)
  BY <1>38, IdleIs DEF Same, Kin, Makers, Locking, LosesClaim, Ends, At
<1>39. CASE AdminPilotEnsure(r) /\ Goes(r, "relist")
  BY <1>39, IdleIs DEF Same, Kin, Makers, Locking, AdminPilotEnsure, Goes, At
<1>40. CASE AdminPilotRelist(r) /\ Goes(r, "reclaim")
  BY <1>40, IdleIs DEF Same, Kin, Makers, Locking, AdminPilotRelist, Goes, At
<1>41. CASE AdminPilotReclaim(r) /\ Ends(r)
  BY <1>41, IdleIs DEF Same, Kin, Makers, Locking, AdminPilotReclaim, Ends, At
<1>42. CASE AdminPilotLink(r) /\ Ends(r)
  BY <1>42, IdleIs DEF Same, Kin, Makers, Locking, AdminPilotLink, Ends, At
<1>43. CASE Claims(r)
  BY <1>43, IdleIs DEF Same, Kin, Makers, Locking, Claims
<1>44. CASE WritePilot(r) /\ Goes(r, "list")
  BY <1>44, IdleIs DEF Same, Kin, Makers, Locking, WritePilot, Goes
<1>45. CASE Lists(r)
  BY <1>45, IdleIs DEF Same, Kin, Makers, Locking, Lists, Goes, Ends
<1>46. CASE MyPilotWrite(r) /\ Ends(r)
  BY <1>46, IdleIs DEF Same, Kin, Makers, Locking, MyPilotWrite, Ends, At
<1>47. CASE Undo(r) /\ Ends(r)
  BY <1>47, IdleIs DEF Same, Kin, Makers, Locking, Undo, Ends
<1>48. CASE Crash(r) /\ Ends(r)
  BY <1>48, IdleIs DEF Same, Kin, Makers, Locking, Crash, Ends
<1>. QED
  BY <1>1, <1>2, <1>3, <1>4, <1>5, <1>6, <1>7, <1>8, <1>9, <1>10, <1>11, <1>12, <1>13, <1>14,
     <1>15, <1>16, <1>17, <1>18, <1>19, <1>20, <1>21, <1>22, <1>23, <1>24, <1>25, <1>26, <1>27,
     <1>28, <1>29, <1>30, <1>31, <1>32, <1>33, <1>34, <1>35, <1>36, <1>37, <1>38, <1>39, <1>40,
     <1>41, <1>42, <1>43, <1>44, <1>45, <1>46, <1>47, <1>48 DEF RequestStep, QuietStep,
     AccountStep, PilotStep

LEMMA DeletesStay ==
  ASSUME NEW r \in Requests, RequestStep(r), req'[r].op = "delete",
         req'[r].at \notin {"lock", "begin", "tomb"}
  PROVE  \/ Retries(r) \/ DeleteTomb(r)
         \/ /\ req'[r].user = req[r].user /\ req[r].op = "delete"
            /\ req[r].at \notin {"lock", "begin", "tomb"}
<1>1. CASE BeginsRegister(r)
  BY <1>1, IdleIs DEF Same, Kin, Makers, Locking, BeginsRegister, Enters
<1>2. CASE BeginsFor(r)
  BY <1>2, IdleIs DEF Same, Kin, Makers, Locking, BeginsFor, Enters
<1>3. CASE BeginsMine(r)
  BY <1>3, IdleIs DEF Same, Kin, Makers, Locking, BeginsMine, Enters
<1>4. CASE BeginsNew(r)
  BY <1>4, IdleIs DEF Same, Kin, Makers, Locking, BeginsNew, Enters
<1>5. CASE BeginsEdit(r)
  BY <1>5, IdleIs DEF Same, Kin, Makers, Locking, BeginsEdit, Enters
<1>6. CASE Locks(r)
  BY <1>6, IdleIs DEF Same, Kin, Makers, Locking, Locks, Goes
<1>7. CASE Remints(r)
  BY <1>7, IdleIs DEF Same, Kin, Makers, Locking, Remints, Goes, At
<1>8. CASE Fails(r)
  BY <1>8, IdleIs DEF Same, Kin, Makers, Locking, Fails, Goes
<1>9. CASE Stops(r)
  BY <1>9, IdleIs DEF Same, Kin, Makers, Locking, Stops, At, Ends
<1>10. CASE Finds(r)
  BY <1>10, IdleIs DEF Same, Kin, Makers, Locking, Finds, Reads
<1>11. CASE Loses(r)
  BY <1>11, IdleIs DEF Same, Kin, Makers, Locking, Loses, Reads
<1>12. CASE ReadsVersion(r)
  BY <1>12, IdleIs DEF Same, Kin, Makers, Locking, ReadsVersion, Reads
<1>13. CASE ReadsRoles(r)
  BY <1>13, IdleIs DEF Same, Kin, Makers, Locking, ReadsRoles, Reads
<1>14. CASE ReadsDelete(r)
  BY <1>14, IdleIs DEF Same, Kin, Makers, Locking, ReadsDelete, Reads
<1>15. CASE ReadsEmail(r)
  BY <1>15, IdleIs DEF Same, Kin, Makers, Locking, ReadsEmail, Reads
<1>16. CASE ReadsAdmin(r)
  BY <1>16, IdleIs DEF Same, Kin, Makers, Locking, ReadsAdmin, At
<1>17. CASE ReadsMine(r)
  BY <1>17, IdleIs DEF Same, Kin, Makers, Locking, ReadsMine, At
<1>18. CASE BeginsVerify(r)
  BY <1>18, IdleIs DEF Same, Kin, Makers, Locking, BeginsVerify, Enters
<1>19. CASE RegisterCred(r) /\ Goes(r, "find")
  BY <1>19, IdleIs DEF Same, Kin, Makers, Locking, RegisterCred, Goes, At
<1>20. CASE RegisterUser(r) /\ Goes(r, "index")
  BY <1>20, IdleIs DEF Same, Kin, Makers, Locking, RegisterUser, Goes, At
<1>21. CASE WinsAddress(r)
  BY <1>21, IdleIs DEF Same, Kin, Makers, Locking, WinsAddress, Goes, At
<1>22. CASE Collects(r)
  BY <1>22, IdleIs DEF Same, Kin, Makers, Locking, Collects, At
<1>23. CASE RegisterAccept(r) /\ Goes(r, "mint")
  BY <1>23, IdleIs DEF Same, Kin, Makers, Locking, RegisterAccept, Goes, At
<1>24. CASE MintLink(r) /\ Ends(r)
  BY <1>24, IdleIs DEF Same, Kin, Makers, Locking, MintLink, Ends
<1>25. CASE VerifyCred(r) /\ Ends(r)
  BY <1>25, IdleIs DEF Same, Kin, Makers, Locking, VerifyCred, Ends, At
<1>26. CASE RolesWrite(r) /\ Ends(r)
  BY <1>26, IdleIs DEF Same, Kin, Makers, Locking, RolesWrite, Ends, At
<1>27. CASE DeleteIndex(r) /\ Goes(r, "uncred")
  BY <1>27, IdleIs DEF Same, Kin, Makers, Locking, DeleteIndex, Goes, At
<1>28. CASE Drops(r)
  BY <1>28, IdleIs DEF Same, Kin, Makers, Locking, Drops, DeleteCred, Goes, At
<1>29. CASE DeleteUser(r) /\ Ends(r)
  BY <1>29, IdleIs DEF Same, Kin, Makers, Locking, DeleteUser, Ends, At
<1>30. CASE MovesIndex(r)
  BY <1>30, IdleIs DEF Same, Kin, Makers, Locking, MovesIndex, Goes, At
<1>31. CASE Unverifies(r)
  BY <1>31, IdleIs DEF Same, Kin, Makers, Locking, Unverifies, EmailUnverify, Goes, At
<1>32. CASE EmailUser(r) /\ Goes(r, "sweep")
  BY <1>32, IdleIs DEF Same, Kin, Makers, Locking, EmailUser, Goes, At
<1>33. CASE EmailSweep(r) /\ Goes(r, "mint")
  BY <1>33, IdleIs DEF Same, Kin, Makers, Locking, EmailSweep, Goes, At
<1>34. CASE DeleteLink(r) /\ Goes(r, "unclaim")
  BY <1>34, IdleIs DEF Same, Kin, Makers, Locking, DeleteLink, Goes, At
<1>35. CASE DeleteClaim(r) /\ Goes(r, "unuser")
  BY <1>35, IdleIs DEF Same, Kin, Makers, Locking, DeleteClaim, Goes, At
<1>36. CASE MovesClaim(r)
  BY <1>36, IdleIs DEF Same, Kin, Makers, Locking, MovesClaim, Goes, At
<1>37. CASE LosesClaim(r)
  BY <1>37, IdleIs DEF Same, Kin, Makers, Locking, LosesClaim, Ends, At
<1>38. CASE AdminPilotEnsure(r) /\ Goes(r, "relist")
  BY <1>38, IdleIs DEF Same, Kin, Makers, Locking, AdminPilotEnsure, Goes, At
<1>39. CASE AdminPilotRelist(r) /\ Goes(r, "reclaim")
  BY <1>39, IdleIs DEF Same, Kin, Makers, Locking, AdminPilotRelist, Goes, At
<1>40. CASE AdminPilotReclaim(r) /\ Ends(r)
  BY <1>40, IdleIs DEF Same, Kin, Makers, Locking, AdminPilotReclaim, Ends, At
<1>41. CASE AdminPilotLink(r) /\ Ends(r)
  BY <1>41, IdleIs DEF Same, Kin, Makers, Locking, AdminPilotLink, Ends, At
<1>42. CASE Claims(r)
  BY <1>42, IdleIs DEF Same, Kin, Makers, Locking, Claims
<1>43. CASE WritePilot(r) /\ Goes(r, "list")
  BY <1>43, IdleIs DEF Same, Kin, Makers, Locking, WritePilot, Goes
<1>44. CASE Lists(r)
  BY <1>44, IdleIs DEF Same, Kin, Makers, Locking, Lists, Goes, Ends
<1>45. CASE MyPilotWrite(r) /\ Ends(r)
  BY <1>45, IdleIs DEF Same, Kin, Makers, Locking, MyPilotWrite, Ends, At
<1>46. CASE Undo(r) /\ Ends(r)
  BY <1>46, IdleIs DEF Same, Kin, Makers, Locking, Undo, Ends
<1>47. CASE Crash(r) /\ Ends(r)
  BY <1>47, IdleIs DEF Same, Kin, Makers, Locking, Crash, Ends
<1>. QED
  BY <1>1, <1>2, <1>3, <1>4, <1>5, <1>6, <1>7, <1>8, <1>9, <1>10, <1>11, <1>12, <1>13, <1>14,
     <1>15, <1>16, <1>17, <1>18, <1>19, <1>20, <1>21, <1>22, <1>23, <1>24, <1>25, <1>26, <1>27,
     <1>28, <1>29, <1>30, <1>31, <1>32, <1>33, <1>34, <1>35, <1>36, <1>37, <1>38, <1>39, <1>40,
     <1>41, <1>42, <1>43, <1>44, <1>45, <1>46, <1>47 DEF RequestStep, QuietStep, AccountStep,
     PilotStep

LEMMA OriginsKept ==
  ASSUME Rooting, NEW r \in Requests, RequestStep(r)
  PROVE  Origins'
<1>0. Types /\ Documents /\ Becomes(r) /\ Origins /\ Newcomers
  BY DocumentsAre, StepBecomes DEF Rooting
<1>. PICK q : q = req[r]
  OBVIOUS
<1>1. q.user # None /\ ~Newcomer(q) => Rooted(q.user)
  BY <1>0 DEF Origins, RequestRooted
<1>2. \A u : Rooted(u) => Rooted(u)'
  BY RootedStays
<1>3. ASSUME NEW e \in Emails, index'[e] # None PROVE Rooted(index[e])'
  <2>1. CASE index'[e] = index[e]
    BY <1>0, <1>2, <1>3, <2>1 DEF Origins
  <2>2. CASE index'[e] # index[e]
    <3>1. /\ WinsAddress(r) \/ MovesIndex(r)
          /\ index'[e] = q.user
      BY <1>0, <1>3, <2>2, Writers DEF WinsAddress, MovesIndex, DeleteIndex, Documents
    <3>2. q.user # None /\ req'[r].user = q.user /\ ~Newcomer(req'[r])
      BY <1>3, <3>1 DEF WinsAddress, MovesIndex, Goes, Same, Kin, At, Newcomer
    <3>. QED
      BY <3>1, <3>2, CallerRooted
  <2>. QED
    BY <2>1, <2>2
<1>4. ASSUME NEW n \in LinkIds, links'[n] # None PROVE Rooted(links[n].user)'
  <2>1. CASE links'[n] = links[n]
    BY <1>0, <1>2, <1>4, <2>1 DEF Origins
  <2>2. CASE BeginsVerify(r) /\ links'[n] # links[n]
    <3>. PICK m \in LinkIds : links[m] # None /\ links' = [links EXCEPT ![m].used = TRUE]
      BY <2>2 DEF BeginsVerify
    <3>0. m = n
      BY <1>0, <2>2 DEF Documents
    <3>1. links[n] \in Links /\ links'[n] = [links[n] EXCEPT !.used = TRUE]
      BY <1>0, <3>0 DEF Documents
    <3>2. links'[n].user = links[n].user /\ links[n] # None
      BY <3>1, ConstantTypes DEF Links
    <3>. QED
      BY <1>0, <1>2, <3>2 DEF Origins
  <2>3. CASE MintLink(r) /\ links'[n] # links[n]
    <3>1. links'[n].user = q.user /\ q.at = "document"
      BY <1>0, <2>3 DEF MintLink, Documents
    <3>2. q.user # None /\ ~Newcomer(q)
      BY <1>0, <3>1, RequestIs, IdleIs, ConstantTypes DEF Shaped, Steps, Newcomer, Locking
    <3>. QED
      BY <1>1, <1>2, <3>1, <3>2
  <2>4. CASE (Drops(r) \/ EmailSweep(r)) /\ links'[n] # links[n]
    BY <1>4, <2>4 DEF Drops, DeleteCred, EmailSweep, Sweep
  <2>. QED
    BY <2>1, <2>2, <2>3, <2>4, Writers
<1>5. ASSUME NEW p \in Pilots, pilot'[p] # None, pilot'[p] # pilot[p]
      PROVE  /\ pilot'[p].user = None \/ Rooted(pilot[p].user)'
             /\ \/ pilot[p] # None
                \/ /\ p = q.pilot /\ q.op \in Makers
                   /\ q.op = "adminPilot" => Rooted(q.user)
                \/ p = q.pilot /\ q.op = "editPilot"
  <2>1. q.op \in Locking \union {"myPilot"} => q.user # None /\ ~Newcomer(q)
    BY <1>0, CarriesIs, ConstantTypes DEF Newcomer, Locking
  <2>2. CASE DeleteLink(r)
    <3>1. pilot[p] # None /\ pilot'[p] = [pilot[p] EXCEPT !.user = None] /\ pilot[p] \in PilotDocs
      BY <1>0, <1>5, <2>2 DEF DeleteLink, Documents
    <3>. QED
      BY <3>1 DEF PilotDocs
  <2>3. CASE AdminPilotEnsure(r)
    <3>1. pilot'[p] = [user |-> q.user] /\ p = q.pilot /\ q.op = "adminPilot"
      BY <1>0, <1>5, <2>3 DEF AdminPilotEnsure, At, Documents
    <3>. QED
      BY <1>1, <1>2, <2>1, <3>1 DEF Locking, Makers
  <2>4. CASE WritePilot(r)
    <3>1. q.op \in Makers \union {"editPilot"} /\ p = q.pilot
      BY <1>0, <1>5, <2>4, RequestIs, IdleIs DEF WritePilot, Documents, Shaped, Steps, Makers
    <3>2. CASE q.op = "editPilot"
      BY <1>0, <1>2, <1>5, <2>4, <3>1, <3>2 DEF WritePilot, Documents, Origins, RequestRooted
    <3>3. CASE q.op # "editPilot"
      <4>1. pilot'[p].user = q.user
        BY <1>0, <1>5, <2>4, <3>1, <3>3 DEF WritePilot, Documents
      <4>2. q.op = "newPilot" => q.user = None
        BY <1>0, RequestIs DEF Shaped
      <4>. QED
        BY <1>1, <1>2, <2>1, <3>1, <3>3, <4>1, <4>2 DEF Makers, Locking
    <3>. QED
      BY <3>2, <3>3
  <2>5. CASE Undo(r)
    BY <1>0, <1>5, <2>5 DEF Undo, Documents
  <2>. QED
    BY <1>5, <2>2, <2>3, <2>4, <2>5, Writers
<1>6. ASSUME NEW p \in Pilots, pilot'[p] # None PROVE pilot'[p].user = None \/ Rooted(pilot[p].user)'
  <2>1. CASE pilot'[p] = pilot[p]
    BY <1>0, <1>2, <1>6, <2>1 DEF Origins
  <2>. QED
    BY <1>5, <1>6, <2>1
<1>7. ASSUME NEW u \in Users, pilot'[OwnPilot[u]] # None PROVE Rooted(u)'
  <2>. PICK p : p = OwnPilot[u]
    OBVIOUS
  <2>0. p \in Pilots
    BY ConstantTypes
  <2>1. CASE pilot[p] # None
    BY <1>0, <1>2, <2>1 DEF Origins
  <2>2. CASE pilot[p] = None
    <3>1. pilot'[p] # pilot[p]
      BY <1>7, <2>2
    <3>2. p = q.pilot
      BY <1>5, <1>7, <2>0, <2>2, <3>1
    <3>3. CASE q.op = "editPilot"
      BY <1>0, <1>2, <3>2, <3>3 DEF Origins, RequestRooted
    <3>4. CASE q.op \in Makers
      <4>0. Shaped(q)
        BY <1>0, RequestIs
      <4>1. q.op = "adminPilot"
        BY <3>2, <3>4, <4>0 DEF Shaped, Makers
      <4>2. Rooted(q.user)
        BY <1>5, <1>7, <2>0, <2>2, <3>1, <4>1
      <4>5. q.user \in Users /\ q.pilot = OwnPilot[q.user] /\ q.pilot = OwnPilot[u]
        BY <3>2, <4>0, <4>1, <4>2 DEF Shaped, Rooted
      <4>3. q.user = u
        BY <4>5, OwnPilots
      <4>. QED
        BY <1>2, <4>2, <4>3
    <3>. QED
      BY <1>5, <1>7, <2>0, <2>2, <3>1, <3>3, <3>4
  <2>. QED
    BY <2>1, <2>2
<1>8. ASSUME NEW s \in Requests PROVE RequestRooted(req[s])'
  <2>1. CASE s # r
    <3>1. req'[s] = req[s] /\ RequestRooted(req[s])
      BY <1>0, <2>1 DEF Becomes, Origins
    <3>2. req[s].op = "delete" => req[s].user \in Users
      BY <1>0, CarriesIs DEF Locking
    <3>3. req[s].op = "delete" /\ tomb[req[s].user] # None => tomb'[req[s].user] # None
      BY <1>0, <3>2, TombStays
    <3>. QED
      BY <1>2, <3>1, <3>3 DEF RequestRooted
  <2>2. CASE s = r
    <3>. PICK n : n = req'[r]
      OBVIOUS
    <3>1. n.user # None /\ ~Newcomer(n) => Rooted(n.user)'
      BY CallerRooted
    <3>2. ASSUME n.op = "editPilot"
          PROVE  /\ n.doc.user = None \/ Rooted(n.doc.user)'
                 /\ \A u \in Users : n.pilot = OwnPilot[u] => Rooted(u)'
      <4>1. CASE q.op = "editPilot"
        <5>1. n.doc = q.doc /\ n.pilot = q.pilot
          BY <3>2, <4>1, EditsStay, IdleIs DEF BeginsEdit, Enters
        <5>. QED
          BY <1>0, <1>2, <4>1, <5>1 DEF Origins, RequestRooted
      <4>2. CASE q.op # "editPilot"
        <5>1. BeginsEdit(r)
          BY <3>2, <4>2, EditsStay
        <5>2. /\ n.pilot \in Pilots /\ pilot[n.pilot] # None /\ n.doc = pilot[n.pilot]
          BY <1>0, <5>1 DEF BeginsEdit, Becomes, Shaped
        <5>. QED
          BY <1>0, <1>2, <5>2 DEF Origins
      <4>. QED
        BY <4>1, <4>2
    <3>3. ASSUME n.op = "register", n.at = "collect" PROVE Rooted(n.rival)'
      <4>1. Loses(r)
        BY <1>0, <3>3, NewcomerIs, PathSteps DEF Rooting, Newcomer, Finds, Reads, Goes
      <4>. QED
        BY <1>0, <1>2, <4>1, CarriesIs DEF Loses, Reads, Origins
    <3>4. ASSUME n.op = "delete", n.at \notin {"lock", "begin", "tomb"} PROVE tomb'[n.user] # None
      <4>1. \/ Retries(r) \/ DeleteTomb(r)
            \/ n.user = q.user /\ q.op = "delete" /\ q.at \notin {"lock", "begin", "tomb"}
        BY <3>4, DeletesStay
      <4>2. CASE Retries(r)
        BY <1>0, <4>2, TombStays, CarriesIs DEF Retries, At, Goes, Same, Kin, Locking
      <4>3. CASE DeleteTomb(r)
        <5>1. q.doc # None /\ q.user \in Users /\ n.user = q.user
          BY <1>0, <3>4, <4>3, CarriesIs, RequestUser, IdleIs DEF DeleteTomb, At, Carries, Locking,
            BeginsRegister, BeginsFor, BeginsMine, BeginsVerify, Collects, BeginsNew, BeginsEdit, Enters
        <5>. QED
          BY <1>0, <4>3, <5>1 DEF DeleteTomb, Documents
      <4>4. CASE n.user = q.user /\ q.op = "delete" /\ q.at \notin {"lock", "begin", "tomb"}
        BY <1>0, <4>4, TombStays, CarriesIs DEF Origins, RequestRooted, Locking
      <4>. QED
        BY <4>1, <4>2, <4>3, <4>4
    <3>. QED
      BY <2>2, <3>1, <3>2, <3>3, <3>4 DEF RequestRooted
  <2>. QED
    BY <2>1, <2>2
<1>. QED
  BY <1>3, <1>4, <1>6, <1>7, <1>8 DEF Origins

LEMMA NewcomersKept ==
  ASSUME Rooting, NEW r \in Requests, RequestStep(r)
  PROVE  Newcomers'
<1>0. Types /\ Locked /\ Documents /\ Becomes(r) /\ Origins /\ Newcomers
  BY DocumentsAre, StepBecomes DEF Rooting
<1>. PICK q : q = req[r]
  OBVIOUS
<1>. PICK n : n = req'[r]
  OBVIOUS
<1>1. ASSUME NEW s \in Requests, Newcomer(req'[s]), s # r
      PROVE  Fits(req[s])' /\ \A t \in Requests \ {s} : req'[t].user # req'[s].user
  <2>. PICK u : u = req[s].user
    OBVIOUS
  <2>1. req'[s] = req[s] /\ Newcomer(req[s]) /\ u \in Users
    BY <1>0, <1>1, CarriesIs DEF Becomes, Newcomer
  <2>2. Fits(req[s]) /\ q.user # u /\ \A t \in Requests \ {s} : req[t].user # u
    BY <1>0, <1>1, <2>1 DEF Newcomers
  <2>3. cred'[u] = cred[u] /\ user'[u] = user[u] /\ tomb'[u] = tomb[u]
    BY <1>0, <2>1, <2>2, OthersStay
  <2>4. Fits(req[s])'
    BY <2>1, <2>2, <2>3 DEF Fits
  <2>5. n.user # u
    <3>1. CASE Newcomer(n)
      BY <1>1, <2>1, <2>2, <3>1, NewcomerIs DEF Fresh
    <3>2. CASE ~Newcomer(n)
      <4>1. n.user = u => Rooted(u)'
        BY <1>0, <2>1, <3>2, CallerRooted, ConstantTypes
      <4>2. ~Rooted(u)'
        BY <2>1, <2>2, <2>3 DEF Rooted, Fits
      <4>. QED
        BY <4>1, <4>2
    <3>. QED
      BY <3>1, <3>2
  <2>. QED
    BY <1>0, <2>1, <2>2, <2>4, <2>5 DEF Becomes
<1>2. ASSUME Newcomer(n)
      PROVE  Fits(req[r])' /\ \A t \in Requests \ {r} : req'[t].user # n.user
  <2>. PICK u : u = n.user
    OBVIOUS
  <2>1. u \in Users
    BY <1>0, <1>2 DEF Becomes, Shaped, Newcomer
  <2>2. CASE BeginsRegister(r) /\ Fresh(u) /\ n.at = "cred"
    <3>1. Still
      BY <2>2 DEF BeginsRegister
    <3>. QED
      BY <1>0, <2>1, <2>2, <3>1 DEF Fits, Fresh, Becomes, Still, accounts
  <2>3. CASE /\ Newcomer(q) /\ u = q.user
             /\ RegisterCred(r) \/ Finds(r) \/ RegisterUser(r) \/ Loses(r)
    <3>1. Fits(q) /\ \A t \in Requests \ {r} : req[t].user # u
      BY <1>0, <2>3 DEF Newcomers
    <3>2. CASE RegisterCred(r)
      <4>1. n.at = "find" /\ Goes(r, "find")
        BY <1>0, <3>2, PathSteps DEF Goes
      <4>2. /\ cred'[u] # None /\ ~cred'[u].verified
            /\ user'[u] = user[u] /\ tomb'[u] = tomb[u]
        <5>. PICK c : c = [verified |-> FALSE, version |-> 0]
          OBVIOUS
        <5>1. c \in Credentials /\ ~c.verified
          BY DEF Credentials
        <5>. QED
          BY <1>0, <2>1, <2>3, <3>2, <5>1, ConstantTypes DEF RegisterCred, Documents
      <4>. QED
        BY <1>0, <2>3, <3>1, <3>2, <4>1, <4>2 DEF Fits, RegisterCred, At, Becomes
    <3>3. CASE Finds(r)
      BY <1>0, <2>3, <3>1, <3>3 DEF Fits, Finds, Reads, Becomes, Still, accounts
    <3>4. CASE RegisterUser(r)
      <4>1. n.at = "index" /\ n.doc = q.doc
        BY <1>0, <3>4, PathSteps DEF Goes, Same
      <4>. QED
        BY <1>0, <2>1, <2>3, <3>1, <3>4, <4>1 DEF Fits, RegisterUser, At, Becomes, Documents
    <3>5. CASE Loses(r)
      BY <1>0, <2>3, <3>1, <3>5 DEF Fits, Loses, Reads, Becomes, Still, accounts
    <3>. QED
      BY <2>3, <3>2, <3>3, <3>4, <3>5
  <2>. QED
    BY <1>2, <2>2, <2>3, NewcomerIs
<1>3. ASSUME NEW u \in Users, user'[u] # None, tomb'[u] = None PROVE cred'[u] # None
  <2>1. tomb[u] = None
    BY <1>0, <1>3, TombStays
  <2>2. CASE q.user # u
    BY <1>0, <1>3, <2>2, OthersStay DEF Newcomers, Live
  <2>3. CASE q.user = u /\ user[u] # None
    <3>1. cred[u] # None /\ cred[u] \in Credentials
      BY <1>0, <2>1, <2>3 DEF Newcomers, Live, Documents
    <3>2. CASE cred' = cred
      BY <3>1, <3>2
    <3>3. CASE RegisterCred(r)
      BY <1>0, <2>3, <3>3 DEF RegisterCred, At, Newcomers, Newcomer, Fits
    <3>4. CASE Collects(r)
      BY <1>0, <1>3, <2>3, <3>4 DEF Collects, Documents
    <3>5. CASE VerifyCred(r)
      <4>1. [cred[u] EXCEPT !.verified = TRUE] \in Credentials
        BY <3>1 DEF Credentials
      <4>. QED
        BY <1>0, <2>3, <3>1, <3>5, <4>1, ConstantTypes DEF VerifyCred, Documents
    <3>6. CASE Drops(r)
      BY <1>0, <2>1, <2>3, <3>6 DEF Drops, DeleteCred, At, Origins, RequestRooted
    <3>7. CASE Unverifies(r)
      <4>1. [verified |-> FALSE, version |-> cred[u].version + 1] \in Credentials
        BY <3>1 DEF Credentials
      <4>. QED
        BY <1>0, <2>3, <3>1, <3>7, <4>1, ConstantTypes DEF Unverifies, EmailUnverify, Documents
    <3>. QED
      BY <3>2, <3>3, <3>4, <3>5, <3>6, <3>7, Writers
  <2>4. CASE q.user = u /\ user[u] = None
    <3>1. Newcomer(q)
      BY <1>0, <2>1, <2>4, ConstantTypes DEF Origins, RequestRooted, Rooted
    <3>2. Fits(q)
      BY <1>0, <3>1 DEF Newcomers
    <3>3. RegisterUser(r)
      <4>1. user' # user
        BY <1>3, <2>4
      <4>2. ~Collects(r)
        BY <1>0, <1>3, <2>4 DEF Collects, Documents
      <4>. QED
        BY <3>1, <4>1, <4>2, Writers DEF Newcomer, RegisterAccept, RolesWrite, DeleteUser,
           EmailUser,
          AdminPilotLink, MyPilotWrite, At
    <3>. QED
      BY <2>4, <3>2, <3>3 DEF RegisterUser, At, Fits
  <2>. QED
    BY <2>2, <2>3, <2>4
<1>. QED
  BY <1>1, <1>2, <1>3 DEF Newcomers, Live

LEMMA RootingKept ==
  ASSUME Rooting, Step
  PROVE  Rooting'
<1>0. Types /\ Locked /\ Documents /\ Origins /\ Newcomers /\ Types' /\ Locked'
  BY DocumentsAre, TypesKept DEF Rooting
<1>1. CASE \E r \in Requests : RequestStep(r)
  BY <1>0, <1>1, OriginsKept, NewcomersKept DEF Rooting
<1>2. ASSUME UNCHANGED <<user, tomb, index, pilot, req>>,
             \A m \in LinkIds : links'[m] = links[m]
      PROVE  Origins'
  BY <1>0, <1>2 DEF Origins, RequestRooted, Rooted
<1>3. ASSUME NEW u \in Users, AdminVerify(u) \/ Bump(u)
      PROVE  Newcomers' /\ Origins'
  <2>1. /\ UNCHANGED <<user, tomb, index, pilot, req, links>>
        /\ cred[u] # None /\ cred[u] \in Credentials
    BY <1>0, <1>3 DEF AdminVerify, Bump, pilots, mails, Documents
  <2>. PICK c : c = cred[u]
    OBVIOUS
  <2>. PICK version : version = c.version + 1
    OBVIOUS
  <2>2. version \in Nat
    BY <2>1 DEF Credentials
  <2>3. /\ [c EXCEPT !.verified = TRUE] \in Credentials
        /\ [c EXCEPT !.version = version] \in Credentials
        /\ [c EXCEPT !.version = version].verified = c.verified
    BY <2>1, <2>2 DEF Credentials
  <2>4. /\ \A v \in Users : v # u => cred'[v] = cred[v]
        /\ cred'[u] # None
        /\ cred'[u].verified => c.verified \/ AdminVerify(u)
    BY <1>0, <1>3, <2>3, ConstantTypes DEF AdminVerify, Bump, Documents
  <2>5. AdminVerify(u) => Rooted(u)
    BY <1>0, ConstantTypes DEF AdminVerify, Indexed, Origins
  <2>6. ASSUME NEW s \in Requests, Newcomer(req[s]) PROVE Fits(req[s])'
    <3>1. Fits(req[s]) /\ req[s].user \in Users
      BY <1>0, <2>6, CarriesIs DEF Newcomers, Newcomer
    <3>2. CASE req[s].user # u
      BY <2>1, <2>4, <3>1, <3>2 DEF Fits
    <3>3. CASE req[s].user = u
      BY <2>1, <2>4, <2>5, <2>6, <3>1, <3>3 DEF Fits, Rooted
    <3>. QED
      BY <3>2, <3>3
  <2>7. Newcomers'
    BY <1>0, <2>1, <2>4, <2>6 DEF Newcomers, Live
  <2>. QED
    BY <1>2, <2>1, <2>7
<1>4. CASE UNCHANGED vars
  BY <1>0, <1>2, <1>4 DEF vars, accounts, pilots, mails, Newcomers, Fits, Live, Rooting
<1>. QED
  BY <1>0, <1>1, <1>3, <1>4 DEF Step, Rooting

LEMMA RootingAtFirst ==
  ASSUME Init
  PROVE  Rooting
<1>1. Types /\ Locked
  BY InitIs
<1>2. \A r \in Requests : req[r] = Idle
  BY DEF Init
<1>3. \A r \in Requests : ~Newcomer(req[r]) /\ req[r].user = None /\ req[r].op = "none"
  BY <1>2, IdleIs DEF Newcomer
<1>. PICK present \in Members, admins \in SUBSET Users :
       /\ cred = [u \in Users |-> IF u \in present THEN [verified |-> TRUE, version |-> 0] ELSE None]
       /\ user = [u \in Users |->
                    IF u \in present
                    THEN [email |-> AddressOf[u], admin |-> u \in admins, pilot |-> None] ELSE None]
       /\ index = [e \in Emails |-> IF \E u \in present : AddressOf[u] = e
                                    THEN CHOOSE u \in present : AddressOf[u] = e ELSE None]
  BY DEF Init
<1>4. present \subseteq Users
  BY AccountsAssumption
<1>5. \A u \in Users : [email |-> AddressOf[u], admin |-> u \in admins, pilot |-> None] # None
  <2>1. \A u \in Users : [email |-> AddressOf[u], admin |-> u \in admins, pilot |-> None] \in Records
    BY ConstantTypes DEF Records
  <2>. QED
    BY <2>1, ConstantTypes
<1>6. [verified |-> TRUE, version |-> 0] # None
  <2>1. [verified |-> TRUE, version |-> 0] \in Credentials
    BY DEF Credentials
  <2>. QED
    BY <2>1, ConstantTypes
<1>7. \A u \in present : user[u] # None /\ Rooted(u)
  BY <1>3, <1>4, <1>5 DEF Rooted
<1>8. \A e \in Emails : index[e] # None => index[e] \in present
  OBVIOUS
<1>9. Origins
  BY <1>3, <1>7, <1>8, ConstantTypes DEF Origins, RequestRooted, Init
<1>10. Newcomers
  BY <1>3, <1>6 DEF Newcomers, Live
<1>. QED
  BY <1>1, <1>9, <1>10 DEF Rooting

-----------------------------------------------------------------------------
(* An administrator remains.                                               *)

(* The request passed assertNotLastAdmin, and is about to demote or delete. *)
Threat(q) ==
  \/ q.op = "roles" /\ q.at = "write" /\ q.version = 0
  \/ q.op = "delete" /\ q.at = "tomb"

AdminStays ==
  lost \intersect Users = {} =>
    /\ \E a \in Users : IsAdmin(a)
    /\ \A r \in Requests : Threat(req[r]) => \E a \in Users \ {req[r].user} : IsAdmin(a)

LEMMA ThreatIs ==
  ASSUME NEW r \in Requests, RequestStep(r), Threat(req'[r])
  PROVE  ReadsRoles(r) \/ ReadsDelete(r)
<1>1. CASE BeginsRegister(r)
  BY <1>1, IdleIs DEF Threat, Same, Kin, Makers, Locking, BeginsRegister, Enters
<1>2. CASE BeginsFor(r)
  BY <1>2, IdleIs DEF Threat, Same, Kin, Makers, Locking, BeginsFor, Enters
<1>3. CASE BeginsMine(r)
  BY <1>3, IdleIs DEF Threat, Same, Kin, Makers, Locking, BeginsMine, Enters
<1>4. CASE BeginsNew(r)
  BY <1>4, IdleIs DEF Threat, Same, Kin, Makers, Locking, BeginsNew, Enters
<1>5. CASE BeginsEdit(r)
  BY <1>5, IdleIs DEF Threat, Same, Kin, Makers, Locking, BeginsEdit, Enters
<1>6. CASE Locks(r)
  BY <1>6, IdleIs DEF Threat, Same, Kin, Makers, Locking, Locks, Goes
<1>7. CASE Remints(r)
  BY <1>7, IdleIs DEF Threat, Same, Kin, Makers, Locking, Remints, Goes, At
<1>8. CASE Fails(r)
  BY <1>8, IdleIs DEF Threat, Same, Kin, Makers, Locking, Fails, Goes
<1>9. CASE Retries(r)
  BY <1>9, IdleIs DEF Threat, Same, Kin, Makers, Locking, Retries, Goes, At
<1>10. CASE Stops(r)
  BY <1>10, IdleIs DEF Threat, Same, Kin, Makers, Locking, Stops, At, Ends
<1>11. CASE Finds(r)
  BY <1>11, IdleIs DEF Threat, Same, Kin, Makers, Locking, Finds, Reads
<1>12. CASE Loses(r)
  BY <1>12, IdleIs DEF Threat, Same, Kin, Makers, Locking, Loses, Reads
<1>13. CASE ReadsVersion(r)
  BY <1>13, IdleIs DEF Threat, Same, Kin, Makers, Locking, ReadsVersion, Reads
<1>14. CASE ReadsEmail(r)
  BY <1>14, IdleIs DEF Threat, Same, Kin, Makers, Locking, ReadsEmail, Reads
<1>15. CASE ReadsAdmin(r)
  BY <1>15, IdleIs DEF Threat, Same, Kin, Makers, Locking, ReadsAdmin, At
<1>16. CASE ReadsMine(r)
  BY <1>16, IdleIs DEF Threat, Same, Kin, Makers, Locking, ReadsMine, At
<1>17. CASE BeginsVerify(r)
  BY <1>17, IdleIs DEF Threat, Same, Kin, Makers, Locking, BeginsVerify, Enters
<1>18. CASE RegisterCred(r) /\ Goes(r, "find")
  BY <1>18, IdleIs DEF Threat, Same, Kin, Makers, Locking, RegisterCred, Goes, At
<1>19. CASE RegisterUser(r) /\ Goes(r, "index")
  BY <1>19, IdleIs DEF Threat, Same, Kin, Makers, Locking, RegisterUser, Goes, At
<1>20. CASE WinsAddress(r)
  BY <1>20, IdleIs DEF Threat, Same, Kin, Makers, Locking, WinsAddress, Goes, At
<1>21. CASE Collects(r)
  BY <1>21, IdleIs DEF Threat, Same, Kin, Makers, Locking, Collects, At
<1>22. CASE RegisterAccept(r) /\ Goes(r, "mint")
  BY <1>22, IdleIs DEF Threat, Same, Kin, Makers, Locking, RegisterAccept, Goes, At
<1>23. CASE MintLink(r) /\ Ends(r)
  BY <1>23, IdleIs DEF Threat, Same, Kin, Makers, Locking, MintLink, Ends
<1>24. CASE VerifyCred(r) /\ Ends(r)
  BY <1>24, IdleIs DEF Threat, Same, Kin, Makers, Locking, VerifyCred, Ends, At
<1>25. CASE RolesWrite(r) /\ Ends(r)
  BY <1>25, IdleIs DEF Threat, Same, Kin, Makers, Locking, RolesWrite, Ends, At
<1>26. CASE DeleteTomb(r) /\ Goes(r, "unindex")
  BY <1>26, IdleIs DEF Threat, Same, Kin, Makers, Locking, DeleteTomb, Goes, At
<1>27. CASE DeleteIndex(r) /\ Goes(r, "uncred")
  BY <1>27, IdleIs DEF Threat, Same, Kin, Makers, Locking, DeleteIndex, Goes, At
<1>28. CASE Drops(r)
  BY <1>28, IdleIs DEF Threat, Same, Kin, Makers, Locking, Drops, DeleteCred, Goes, At
<1>29. CASE DeleteUser(r) /\ Ends(r)
  BY <1>29, IdleIs DEF Threat, Same, Kin, Makers, Locking, DeleteUser, Ends, At
<1>30. CASE MovesIndex(r)
  BY <1>30, IdleIs DEF Threat, Same, Kin, Makers, Locking, MovesIndex, Goes, At
<1>31. CASE Unverifies(r)
  BY <1>31, IdleIs DEF Threat, Same, Kin, Makers, Locking, Unverifies, EmailUnverify, Goes, At
<1>32. CASE EmailUser(r) /\ Goes(r, "sweep")
  BY <1>32, IdleIs DEF Threat, Same, Kin, Makers, Locking, EmailUser, Goes, At
<1>33. CASE EmailSweep(r) /\ Goes(r, "mint")
  BY <1>33, IdleIs DEF Threat, Same, Kin, Makers, Locking, EmailSweep, Goes, At
<1>34. CASE DeleteLink(r) /\ Goes(r, "unclaim")
  BY <1>34, IdleIs DEF Threat, Same, Kin, Makers, Locking, DeleteLink, Goes, At
<1>35. CASE DeleteClaim(r) /\ Goes(r, "unuser")
  BY <1>35, IdleIs DEF Threat, Same, Kin, Makers, Locking, DeleteClaim, Goes, At
<1>36. CASE MovesClaim(r)
  BY <1>36, IdleIs DEF Threat, Same, Kin, Makers, Locking, MovesClaim, Goes, At
<1>37. CASE LosesClaim(r)
  BY <1>37, IdleIs DEF Threat, Same, Kin, Makers, Locking, LosesClaim, Ends, At
<1>38. CASE AdminPilotEnsure(r) /\ Goes(r, "relist")
  BY <1>38, IdleIs DEF Threat, Same, Kin, Makers, Locking, AdminPilotEnsure, Goes, At
<1>39. CASE AdminPilotRelist(r) /\ Goes(r, "reclaim")
  BY <1>39, IdleIs DEF Threat, Same, Kin, Makers, Locking, AdminPilotRelist, Goes, At
<1>40. CASE AdminPilotReclaim(r) /\ Ends(r)
  BY <1>40, IdleIs DEF Threat, Same, Kin, Makers, Locking, AdminPilotReclaim, Ends, At
<1>41. CASE AdminPilotLink(r) /\ Ends(r)
  BY <1>41, IdleIs DEF Threat, Same, Kin, Makers, Locking, AdminPilotLink, Ends, At
<1>42. CASE Claims(r)
  BY <1>42, IdleIs DEF Threat, Same, Kin, Makers, Locking, Claims
<1>43. CASE WritePilot(r) /\ Goes(r, "list")
  BY <1>43, IdleIs DEF Threat, Same, Kin, Makers, Locking, WritePilot, Goes
<1>44. CASE Lists(r)
  BY <1>44, IdleIs DEF Threat, Same, Kin, Makers, Locking, Lists, Goes, Ends
<1>45. CASE MyPilotWrite(r) /\ Ends(r)
  BY <1>45, IdleIs DEF Threat, Same, Kin, Makers, Locking, MyPilotWrite, Ends, At
<1>46. CASE Undo(r) /\ Ends(r)
  BY <1>46, IdleIs DEF Threat, Same, Kin, Makers, Locking, Undo, Ends
<1>47. CASE Crash(r) /\ Ends(r)
  BY <1>47, IdleIs DEF Threat, Same, Kin, Makers, Locking, Crash, Ends
<1>. QED
  BY <1>1, <1>2, <1>3, <1>4, <1>5, <1>6, <1>7, <1>8, <1>9, <1>10, <1>11, <1>12, <1>13, <1>14,
     <1>15, <1>16, <1>17, <1>18, <1>19, <1>20, <1>21, <1>22, <1>23, <1>24, <1>25, <1>26, <1>27,
     <1>28, <1>29, <1>30, <1>31, <1>32, <1>33, <1>34, <1>35, <1>36, <1>37, <1>38, <1>39, <1>40,
     <1>41, <1>42, <1>43, <1>44, <1>45, <1>46, <1>47 DEF RequestStep, QuietStep, AccountStep,
     PilotStep

(* Only a threat that is carried out takes the role from anybody.          *)
LEMMA AdminStep ==
  ASSUME Rooting, NEW r \in Requests, RequestStep(r), lost' \intersect Users = {},
         NEW u \in Users, IsAdmin(u), ~IsAdmin(u)'
  PROVE  req[r].user = u /\ Threat(req[r]) /\ Holds(req[r])
<1>0. Types /\ Documents /\ Origins /\ Newcomers
  BY DocumentsAre DEF Rooting
<1>. PICK q : q = req[r]
  OBVIOUS
<1>1. user[u] \in Records /\ user[u].admin /\ tomb[u] = None
  BY <1>0 DEF IsAdmin, Live, Documents
<1>2. q.user = u
  BY <1>0, OthersStay DEF IsAdmin, Live
<1>3. \A doc \in Records : doc # None
  BY ConstantTypes
<1>4. CASE DeleteTomb(r)
  BY <1>2, <1>4 DEF DeleteTomb, At, Threat, Holds, Locking
<1>5. CASE RolesWrite(r)
  <2>1. /\ q.op = "roles" /\ q.at = "write" /\ Carries(q) /\ lost' = lost \union WrittenOver(r)
        /\ user'[u] \in Records /\ tomb' = tomb
        /\ q.version = 1 => user'[u].admin
        /\ q.version = 2 => user'[u].admin = q.doc.admin
    BY <1>0, <1>2, <1>5, RolesWriteIs DEF At
  <2>2. CASE q.version = 0
    BY <1>2, <2>1, <2>2 DEF Threat, Holds, Locking
  <2>3. CASE q.version \notin {0, 1, 2}
    BY <1>0, <2>1, <2>3, RequestIs DEF Shaped
  <2>4. CASE q.version \in {1, 2}
    <3>1. user[u] = q.doc
      BY <1>2, <2>1 DEF WrittenOver
    <3>2. user'[u].admin
      BY <1>1, <2>1, <2>4, <3>1
    <3>. QED
      BY <1>1, <1>3, <2>1, <3>2 DEF IsAdmin, Live
  <2>. QED
    BY <2>2, <2>3, <2>4
<1>6. ASSUME Carries(q), lost' = lost \union WrittenOver(r) PROVE user[u] = q.doc
  BY <1>2, <1>6 DEF WrittenOver
<1>7. CASE tomb' = tomb /\ ~RolesWrite(r)
  <2>1. user'[u] # None => ~user'[u].admin
    BY <1>1, <1>7 DEF IsAdmin, Live
  <2>2. ~(user' = user)
    BY <1>1, <1>3, <2>1
  <2>3. CASE RegisterUser(r) \/ Collects(r)
    <3>1. Newcomer(q)
      BY <2>3 DEF RegisterUser, Collects, At, Newcomer
    <3>2. user[u] = None \/ (user[u] = q.doc /\ ~q.doc.admin)
      BY <1>0, <1>2, <2>3, <3>1, RequestIs DEF Newcomers, Fits, RegisterUser, Collects, At, Shaped,
        Carries
    <3>. QED
      BY <1>1, <1>3, <3>2
  <2>4. CASE RegisterAccept(r)
    <3>1. user[u] = q.doc
      BY <1>6, <2>4 DEF RegisterAccept, At, Carries
    <3>. QED
      BY <1>0, <1>1, <1>2, <2>1, <2>4, <3>1, <1>3 DEF RegisterAccept, Documents
  <2>5. CASE DeleteUser(r)
    BY <1>0, <1>1, <1>2, <2>5 DEF DeleteUser, At, Origins, RequestRooted
  <2>6. CASE EmailUser(r)
    <3>1. user[u] = q.doc /\ q.email \in Emails
      BY <1>0, <1>6, <2>6, CarriesIs DEF EmailUser, At, Carries
    <3>. PICK doc : doc = [q.doc EXCEPT !.email = q.email]
      OBVIOUS
    <3>2. doc \in Records /\ doc.admin = user[u].admin
      BY <1>1, <3>1 DEF Records
    <3>3. user'[u] = doc
      BY <1>0, <1>2, <2>6 DEF EmailUser, Documents
    <3>. QED
      BY <1>1, <1>3, <2>1, <3>2, <3>3
  <2>7. CASE MyPilotWrite(r)
    <3>1. user[u] = q.doc /\ q.pilot \in Pilots
      BY <1>0, <1>6, <2>7, CarriesIs DEF MyPilotWrite, At, Carries, Makers
    <3>. PICK doc : doc = [q.doc EXCEPT !.pilot = q.pilot]
      OBVIOUS
    <3>2. doc \in Records /\ doc.admin = user[u].admin
      BY <1>1, <3>1 DEF Records
    <3>3. user'[u] = doc
      BY <1>0, <1>2, <2>7 DEF MyPilotWrite, Documents
    <3>. QED
      BY <1>1, <1>3, <2>1, <3>2, <3>3
  <2>8. CASE AdminPilotLink(r)
    <3>1. q.pilot \in Pilots
      BY <1>0, <2>8, CarriesIs DEF AdminPilotLink, At, Makers
    <3>. PICK doc : doc = [user[u] EXCEPT !.pilot = q.pilot]
      OBVIOUS
    <3>2. doc \in Records /\ doc.admin = user[u].admin
      BY <1>1, <3>1 DEF Records
    <3>3. user'[u] = doc \/ user'[u] = user[u]
      BY <1>0, <1>2, <2>8 DEF AdminPilotLink, Documents
    <3>. QED
      BY <1>1, <1>3, <2>1, <3>2, <3>3
  <2>. QED
    BY <1>7, <2>2, <2>3, <2>4, <2>5, <2>6, <2>7, <2>8, Writers
<1>. QED
  BY <1>4, <1>5, <1>7, Writers

LEMMA AdminStaysKept ==
  ASSUME Rooting, AdminStays, Step
  PROVE  AdminStays'
<1>0. Types /\ Locked /\ Documents
  BY DocumentsAre DEF Rooting
<1>1. ASSUME NEW r \in Requests, RequestStep(r), lost' \intersect Users = {}
      PROVE  /\ \E a \in Users : IsAdmin(a)'
             /\ \A s \in Requests : Threat(req'[s]) => \E a \in Users \ {req'[s].user} : IsAdmin(a)'
  <2>1. Becomes(r) /\ lost \intersect Users = {}
    BY <1>1, StepBecomes, Writers
  <2>2. /\ \E a \in Users : IsAdmin(a)
        /\ \A s \in Requests : Threat(req[s]) => \E a \in Users \ {req[s].user} : IsAdmin(a)
    BY <2>1 DEF AdminStays
  <2>3. CASE Threat(req[r]) /\ Holds(req[r])
    <3>. PICK a \in Users : a # req[r].user /\ IsAdmin(a)
      BY <2>2, <2>3
    <3>1. IsAdmin(a)'
      BY <1>1, AdminStep
    <3>2. ASSUME NEW s \in Requests, Threat(req'[s]) PROVE FALSE
      <4>1. CASE s = r
        BY <1>1, <2>3, <3>2, <4>1, ThreatIs DEF ReadsRoles, ReadsDelete, Reads, Threat
      <4>2. CASE s # r
        <5>1. req'[s] = req[s] /\ Holds(req[s])
          BY <2>1, <3>2, <4>2 DEF Becomes, Threat, Holds, Locking
        <5>. QED
          BY <1>0, <2>3, <4>2, <5>1 DEF Locked
      <4>. QED
        BY <4>1, <4>2
    <3>. QED
      BY <3>1, <3>2
  <2>4. CASE ~(Threat(req[r]) /\ Holds(req[r]))
    <3>1. \A a \in Users : IsAdmin(a) => IsAdmin(a)'
      BY <1>1, <2>4, AdminStep
    <3>2. ASSUME NEW s \in Requests, Threat(req'[s])
          PROVE  \E a \in Users \ {req'[s].user} : IsAdmin(a)'
      <4>1. CASE s # r
        BY <2>1, <2>2, <3>1, <3>2, <4>1 DEF Becomes
      <4>2. CASE s = r
        <5>. PICK u : u = req[r].user
          OBVIOUS
        <5>1. ReadsRoles(r) \/ ReadsDelete(r)
          BY <1>1, <3>2, <4>2, ThreatIs
        <5>2. /\ req'[r].user = u /\ u \in Users
              /\ user[u].admin => AnotherAdmin(u)
          BY <1>0, <3>2, <4>2, <5>1, CarriesIs DEF ReadsRoles, ReadsDelete, Reads, Kin, Threat,
             Locking
        <5>3. CASE user[u].admin
          <6>. PICK a \in Indexed \ {u} : tomb[a] = None /\ user[a] # None /\ user[a].admin
            BY <5>2, <5>3 DEF AnotherAdmin
          <6>1. a \in Users /\ IsAdmin(a)
            BY DEF Indexed, IsAdmin, Live
          <6>. QED
            BY <3>1, <4>2, <5>2, <6>1
        <5>4. CASE ~user[u].admin
          BY <2>2, <3>1, <4>2, <5>2, <5>4 DEF IsAdmin
        <5>. QED
          BY <5>3, <5>4
      <4>. QED
        BY <4>1, <4>2
    <3>. QED
      BY <2>2, <3>1, <3>2
  <2>. QED
    BY <2>3, <2>4
<1>2. CASE UNCHANGED <<user, tomb, req, lost>>
  BY <1>2 DEF AdminStays, IsAdmin, Live
<1>3. ASSUME NEW u \in Users, AdminVerify(u) \/ Bump(u) PROVE AdminStays'
  BY <1>2, <1>3 DEF AdminVerify, Bump, history
<1>4. CASE UNCHANGED vars
  BY <1>2, <1>4 DEF vars, accounts, history
<1>. QED
  BY <1>1, <1>3, <1>4 DEF Step, AdminStays

LEMMA RootingHolds ==
  Spec => []Rooting
<1>1. Init => Rooting
  BY RootingAtFirst
<1>2. Rooting /\ [Next]_vars => Rooting'
  BY StepIs, RootingKept DEF Step, Rooting
<1>. QED
  BY <1>1, <1>2, PTL DEF Spec

(* Some account that is not deleted is an administrator, unless a record   *)
(* was written over as it had been read before: of two requests that       *)
(* demote or delete one another's last rival, the lock lets one look after *)
(* the other has written (assertNotLastAdmin, accountMutation.ts:64).      *)
THEOREM AdminStaysThere ==
  Spec => []AdminRemains
<1>1. Init => AdminStays
  <2>. SUFFICES ASSUME Init PROVE AdminStays
    OBVIOUS
  <2>. PICK present \in Members, admins \in SUBSET Users :
         /\ FirstAdmin \in admins /\ admins \subseteq present
         /\ user = [u \in Users |->
                      IF u \in present
                      THEN [email |-> AddressOf[u], admin |-> u \in admins, pilot |-> None] ELSE None]
    BY DEF Init
  <2>1. FirstAdmin \in Users /\ FirstAdmin \in present /\ tomb[FirstAdmin] = None
    BY AccountsAssumption DEF Init
  <2>. PICK record : record = [email |-> AddressOf[FirstAdmin], admin |-> FirstAdmin \in admins, pilot |-> None]
    OBVIOUS
  <2>2. record \in Records /\ record.admin
    BY <2>1, ConstantTypes DEF Records
  <2>3. IsAdmin(FirstAdmin)
    BY <2>1, <2>2, ConstantTypes DEF IsAdmin, Live
  <2>4. \A r \in Requests : ~Threat(req[r])
    BY IdleIs DEF Init, Threat
  <2>. QED
    BY <2>1, <2>3, <2>4 DEF AdminStays
<1>2. Rooting /\ AdminStays /\ [Next]_vars => AdminStays'
  <2>. SUFFICES ASSUME Rooting, AdminStays, [Next]_vars PROVE AdminStays'
    OBVIOUS
  <2>1. Step
    BY StepIs DEF Step, Rooting
  <2>. QED
    BY <2>1, AdminStaysKept
<1>3. AdminStays => AdminRemains
  BY DEF AdminStays, AdminRemains
<1>. QED
  BY <1>1, <1>2, <1>3, RootingHolds, PTL DEF Spec

-----------------------------------------------------------------------------
(* An account has its address.                                             *)

LEMMA SoundBefore ==
  ASSUME NEW r \in Requests, RequestStep(r), NEW u, Sound(u)'
  PROVE  Sound(u)
BY Writers DEF Sound

LEMMA RootedIsNoNewcomer ==
  ASSUME Rooting, NEW u, Rooted(u), NEW s \in Requests, Newcomer(req[s])
  PROVE  req[s].user # u
BY DEF Rooting, Newcomers, Fits, Rooted

(* What a step makes of the record of an account that stays sound.         *)
LEMMA RecordStep ==
  ASSUME Rooting, NEW r \in Requests, RequestStep(r), NEW u \in Users, Rooted(u), Sound(u)',
         tomb'[u] = None \/ (user[u] # None /\ ~DeleteUser(r))
  PROVE  /\ user[u] \in Records /\ user'[u] \in Records
         /\ \/ user'[u].email = user[u].email
            \/ EmailUser(r) /\ req[r].user = u /\ user'[u].email = req[r].email
         /\ \/ user'[u].pilot = user[u].pilot
            \/ u \in relinked'
            \/ /\ MyPilotWrite(r) \/ AdminPilotLink(r)
               /\ req[r].user = u /\ user'[u].pilot = req[r].pilot
               /\ AdminPilotLink(r) => user[u].pilot \in {None, req[r].pilot}
<1>0. Types /\ Documents /\ Origins /\ Newcomers
  BY DocumentsAre DEF Rooting
<1>. PICK q : q = req[r]
  OBVIOUS
<1>1. user[u] \in Records /\ (tomb[u] = None \/ ~DeleteUser(r))
  BY <1>0, TombStays DEF Rooted, Documents
<1>2. CASE user'[u] = user[u]
  BY <1>1, <1>2
<1>3. CASE user'[u] # user[u]
  <2>1. q.user = u
    BY <1>0, <1>3, OthersStay
  <2>2. ~Newcomer(q)
    BY <2>1, RootedIsNoNewcomer
  <2>3. ~RegisterUser(r) /\ ~Collects(r) /\ ~DeleteUser(r)
    BY <1>0, <1>1, <2>1, <2>2 DEF RegisterUser, Collects, DeleteUser, At, Newcomer, Origins,
       RequestRooted
  <2>4. Carries(q) /\ lost' = lost \union WrittenOver(r) => user[u] = q.doc
    BY <2>1 DEF WrittenOver, Sound
  <2>5. CASE RegisterAccept(r)
    BY <1>0, <1>3, <2>1, <2>4, <2>5 DEF RegisterAccept, At, Carries, Documents
  <2>6. CASE RolesWrite(r)
    <3>1. /\ Carries(q) /\ lost' = lost \union WrittenOver(r) /\ user'[u] \in Records
          /\ user'[u].email = q.doc.email
          /\ user'[u].pilot = q.doc.pilot \/ u \in relinked'
      BY <1>0, <2>1, <2>6, RolesWriteIs
    <3>. QED
      BY <1>1, <2>4, <3>1
  <2>7. CASE EmailUser(r)
    <3>1. user[u] = q.doc /\ q.email \in Emails
      BY <1>0, <2>4, <2>7, CarriesIs DEF EmailUser, At, Carries
    <3>. PICK doc : doc = [q.doc EXCEPT !.email = q.email]
      OBVIOUS
    <3>2. doc \in Records /\ doc.email = q.email /\ doc.pilot = user[u].pilot
      BY <1>1, <3>1 DEF Records
    <3>. QED
      BY <1>0, <1>1, <2>1, <2>7, <3>2 DEF EmailUser, Documents
  <2>8. CASE MyPilotWrite(r)
    <3>1. user[u] = q.doc /\ q.pilot \in Pilots
      BY <1>0, <2>4, <2>8, CarriesIs DEF MyPilotWrite, At, Carries, Makers
    <3>. PICK doc : doc = [q.doc EXCEPT !.pilot = q.pilot]
      OBVIOUS
    <3>2. doc \in Records /\ doc.email = user[u].email /\ doc.pilot = q.pilot
      BY <1>1, <3>1 DEF Records
    <3>3. user'[u] = doc /\ ~AdminPilotLink(r)
      BY <1>0, <2>1, <2>8 DEF MyPilotWrite, AdminPilotLink, At, Documents
    <3>. QED
      BY <1>1, <2>1, <2>8, <3>2, <3>3
  <2>9. CASE AdminPilotLink(r)
    <3>1. q.pilot \in Pilots
      BY <1>0, <2>9, CarriesIs DEF AdminPilotLink, At, Makers
    <3>. PICK doc : doc = [user[u] EXCEPT !.pilot = q.pilot]
      OBVIOUS
    <3>2. doc \in Records /\ doc.email = user[u].email /\ doc.pilot = q.pilot
      BY <1>1, <3>1 DEF Records
    <3>3. user'[u] = doc /\ user[u].pilot \in {None, q.pilot}
      BY <1>0, <1>3, <2>1, <2>9 DEF AdminPilotLink, Documents
    <3>. QED
      BY <1>1, <2>1, <2>9, <3>2, <3>3
  <2>. QED
    BY <1>3, <2>3, <2>5, <2>6, <2>7, <2>8, <2>9, Writers
<1>. QED
  BY <1>2, <1>3

(* An account made for good that is there now was so before, or has just   *)
(* won its address.                                                        *)
LEMMA SettledBefore ==
  ASSUME Rooting, NEW r \in Requests, RequestStep(r), NEW u \in Users, Live(u)', Rooted(u)', Sound(u)'
  PROVE  (Rooted(u) /\ Live(u)) \/ (WinsAddress(r) /\ req[r].user = u /\ Newcomer(req[r]))
<1>0. Types /\ Documents /\ Origins /\ Newcomers /\ Becomes(r)
  BY DocumentsAre, StepBecomes DEF Rooting
<1>1. tomb[u] = None
  BY <1>0, TombStays DEF Live
<1>2. CASE Rooted(u)
  BY <1>1, <1>2 DEF Rooted, Live
<1>3. CASE ~Rooted(u) /\ \E s \in Requests : Newcomer(req[s]) /\ req[s].user = u
  <2>. PICK s \in Requests : Newcomer(req[s]) /\ req[s].user = u
    BY <1>3
  <2>1. s = r
    <3>1. s # r => req'[s] = req[s]
      BY <1>0 DEF Becomes
    <3>. QED
      BY <1>1, <3>1 DEF Rooted, Live
  <2>2. ~Newcomer(req'[r]) \/ req'[r].user # u
    BY DEF Rooted, Live
  <2>3. ~Newcomer(req'[r])
    BY <2>1, <2>2, NewcomerIs, IdleIs DEF BeginsRegister, Enters, Newcomer
  <2>4. ~Collects(r)
    BY <1>0, <2>1 DEF Collects, Documents, Live
  <2>5. ~Crash(r)
    BY <2>1, ConstantTypes DEF Crash, Sound
  <2>. QED
    BY <2>1, <2>3, <2>4, <2>5, NewcomerEnds
<1>4. CASE ~Rooted(u) /\ \A s \in Requests : Newcomer(req[s]) => req[s].user # u
  <2>1. user[u] = None
    BY <1>4 DEF Rooted
  <2>2. user'[u] # None
    BY DEF Live
  <2>3. req[r].user = u
    BY <1>0, <2>1, <2>2, OthersStay
  <2>. QED
    BY <1>0, <1>4, <2>3, ConstantTypes DEF Origins, RequestRooted
<1>. QED
  BY <1>2, <1>3, <1>4

(* A change of address that has taken the index entry, not yet the record. *)
Moving(q) == q.op = "email" /\ q.at \in {"unverify", "claim", "user"}
Changing(q) == q.op = "email" /\ q.at \in {"index", "unverify", "claim", "user"}

Addressed ==
  /\ \A u \in Users : Live(u) /\ Rooted(u) /\ Sound(u) =>
       /\ \A r \in Requests : Moving(req[r]) /\ req[r].user = u =>
            \A e \in Emails : index[e] = u <=> e = req[r].email
       /\ (\A r \in Requests : Moving(req[r]) => req[r].user # u) =>
            \A e \in Emails : index[e] = u <=> e = user[u].email
  /\ \A r \in Requests : Changing(req[r]) /\ Sound(req[r].user) =>
       user[req[r].user] # None /\ user[req[r].user].email = req[r].doc.email

LEMMA ChangingIs ==
  ASSUME NEW r \in Requests, RequestStep(r), Changing(req'[r])
  PROVE  \/ ReadsEmail(r)
         \/ /\ Changing(req[r]) /\ req'[r].doc = req[r].doc
            /\ req'[r].user = req[r].user /\ req'[r].email = req[r].email
            /\ Moving(req'[r]) /\ ~MovesIndex(r) => Moving(req[r])
<1>1. CASE BeginsRegister(r)
  BY <1>1, IdleIs DEF Same, Kin, Changing, Moving, Locking, Makers, BeginsRegister, Enters
<1>2. CASE BeginsFor(r)
  BY <1>2, IdleIs DEF Same, Kin, Changing, Moving, Locking, Makers, BeginsFor, Enters
<1>3. CASE BeginsMine(r)
  BY <1>3, IdleIs DEF Same, Kin, Changing, Moving, Locking, Makers, BeginsMine, Enters
<1>4. CASE BeginsNew(r)
  BY <1>4, IdleIs DEF Same, Kin, Changing, Moving, Locking, Makers, BeginsNew, Enters
<1>5. CASE BeginsEdit(r)
  BY <1>5, IdleIs DEF Same, Kin, Changing, Moving, Locking, Makers, BeginsEdit, Enters
<1>6. CASE Locks(r)
  BY <1>6, IdleIs DEF Same, Kin, Changing, Moving, Locking, Makers, Locks, Goes
<1>7. CASE Remints(r)
  BY <1>7, IdleIs DEF Same, Kin, Changing, Moving, Locking, Makers, Remints, Goes, At
<1>8. CASE Fails(r)
  BY <1>8, IdleIs DEF Same, Kin, Changing, Moving, Locking, Makers, Fails, Goes
<1>9. CASE Retries(r)
  BY <1>9, IdleIs DEF Same, Kin, Changing, Moving, Locking, Makers, Retries, Goes, At
<1>10. CASE Stops(r)
  BY <1>10, IdleIs DEF Same, Kin, Changing, Moving, Locking, Makers, Stops, At, Ends
<1>11. CASE Finds(r)
  BY <1>11, IdleIs DEF Same, Kin, Changing, Moving, Locking, Makers, Finds, Reads
<1>12. CASE Loses(r)
  BY <1>12, IdleIs DEF Same, Kin, Changing, Moving, Locking, Makers, Loses, Reads
<1>13. CASE ReadsVersion(r)
  BY <1>13, IdleIs DEF Same, Kin, Changing, Moving, Locking, Makers, ReadsVersion, Reads
<1>14. CASE ReadsRoles(r)
  BY <1>14, IdleIs DEF Same, Kin, Changing, Moving, Locking, Makers, ReadsRoles, Reads
<1>15. CASE ReadsDelete(r)
  BY <1>15, IdleIs DEF Same, Kin, Changing, Moving, Locking, Makers, ReadsDelete, Reads
<1>16. CASE ReadsAdmin(r)
  BY <1>16, IdleIs DEF Same, Kin, Changing, Moving, Locking, Makers, ReadsAdmin, At
<1>17. CASE ReadsMine(r)
  BY <1>17, IdleIs DEF Same, Kin, Changing, Moving, Locking, Makers, ReadsMine, At
<1>18. CASE BeginsVerify(r)
  BY <1>18, IdleIs DEF Same, Kin, Changing, Moving, Locking, Makers, BeginsVerify, Enters
<1>19. CASE RegisterCred(r) /\ Goes(r, "find")
  BY <1>19, IdleIs DEF Same, Kin, Changing, Moving, Locking, Makers, RegisterCred, Goes, At
<1>20. CASE RegisterUser(r) /\ Goes(r, "index")
  BY <1>20, IdleIs DEF Same, Kin, Changing, Moving, Locking, Makers, RegisterUser, Goes, At
<1>21. CASE WinsAddress(r)
  BY <1>21, IdleIs DEF Same, Kin, Changing, Moving, Locking, Makers, WinsAddress, Goes, At
<1>22. CASE Collects(r)
  BY <1>22, IdleIs DEF Same, Kin, Changing, Moving, Locking, Makers, Collects, At
<1>23. CASE RegisterAccept(r) /\ Goes(r, "mint")
  BY <1>23, IdleIs DEF Same, Kin, Changing, Moving, Locking, Makers, RegisterAccept, Goes, At
<1>24. CASE MintLink(r) /\ Ends(r)
  BY <1>24, IdleIs DEF Same, Kin, Changing, Moving, Locking, Makers, MintLink, Ends
<1>25. CASE VerifyCred(r) /\ Ends(r)
  BY <1>25, IdleIs DEF Same, Kin, Changing, Moving, Locking, Makers, VerifyCred, Ends, At
<1>26. CASE RolesWrite(r) /\ Ends(r)
  BY <1>26, IdleIs DEF Same, Kin, Changing, Moving, Locking, Makers, RolesWrite, Ends, At
<1>27. CASE DeleteTomb(r) /\ Goes(r, "unindex")
  BY <1>27, IdleIs DEF Same, Kin, Changing, Moving, Locking, Makers, DeleteTomb, Goes, At
<1>28. CASE DeleteIndex(r) /\ Goes(r, "uncred")
  BY <1>28, IdleIs DEF Same, Kin, Changing, Moving, Locking, Makers, DeleteIndex, Goes, At
<1>29. CASE Drops(r)
  BY <1>29, IdleIs DEF Same, Kin, Changing, Moving, Locking, Makers, Drops, DeleteCred, Goes, At
<1>30. CASE DeleteUser(r) /\ Ends(r)
  BY <1>30, IdleIs DEF Same, Kin, Changing, Moving, Locking, Makers, DeleteUser, Ends, At
<1>31. CASE MovesIndex(r)
  BY <1>31, IdleIs DEF Same, Kin, Changing, Moving, Locking, Makers, MovesIndex, Goes, At
<1>32. CASE Unverifies(r)
  BY <1>32, IdleIs DEF Same, Kin, Changing, Moving, Locking, Makers, Unverifies, EmailUnverify,
     Goes, At
<1>33. CASE EmailUser(r) /\ Goes(r, "sweep")
  BY <1>33, IdleIs DEF Same, Kin, Changing, Moving, Locking, Makers, EmailUser, Goes, At
<1>34. CASE EmailSweep(r) /\ Goes(r, "mint")
  BY <1>34, IdleIs DEF Same, Kin, Changing, Moving, Locking, Makers, EmailSweep, Goes, At
<1>35. CASE DeleteLink(r) /\ Goes(r, "unclaim")
  BY <1>35, IdleIs DEF Same, Kin, Changing, Moving, Locking, Makers, DeleteLink, Goes, At
<1>36. CASE DeleteClaim(r) /\ Goes(r, "unuser")
  BY <1>36, IdleIs DEF Same, Kin, Changing, Moving, Locking, Makers, DeleteClaim, Goes, At
<1>37. CASE MovesClaim(r)
  BY <1>37, IdleIs DEF Same, Kin, Changing, Moving, Locking, Makers, MovesClaim, Goes, At
<1>38. CASE LosesClaim(r)
  BY <1>38, IdleIs DEF Same, Kin, Changing, Moving, Locking, Makers, LosesClaim, Ends, At
<1>39. CASE AdminPilotEnsure(r) /\ Goes(r, "relist")
  BY <1>39, IdleIs DEF Same, Kin, Changing, Moving, Locking, Makers, AdminPilotEnsure, Goes, At
<1>40. CASE AdminPilotRelist(r) /\ Goes(r, "reclaim")
  BY <1>40, IdleIs DEF Same, Kin, Changing, Moving, Locking, Makers, AdminPilotRelist, Goes, At
<1>41. CASE AdminPilotReclaim(r) /\ Ends(r)
  BY <1>41, IdleIs DEF Same, Kin, Changing, Moving, Locking, Makers, AdminPilotReclaim, Ends, At
<1>42. CASE AdminPilotLink(r) /\ Ends(r)
  BY <1>42, IdleIs DEF Same, Kin, Changing, Moving, Locking, Makers, AdminPilotLink, Ends, At
<1>43. CASE Claims(r)
  BY <1>43, IdleIs DEF Same, Kin, Changing, Moving, Locking, Makers, Claims
<1>44. CASE WritePilot(r) /\ Goes(r, "list")
  BY <1>44, IdleIs DEF Same, Kin, Changing, Moving, Locking, Makers, WritePilot, Goes
<1>45. CASE Lists(r)
  BY <1>45, IdleIs DEF Same, Kin, Changing, Moving, Locking, Makers, Lists, Goes, Ends
<1>46. CASE MyPilotWrite(r) /\ Ends(r)
  BY <1>46, IdleIs DEF Same, Kin, Changing, Moving, Locking, Makers, MyPilotWrite, Ends, At
<1>47. CASE Undo(r) /\ Ends(r)
  BY <1>47, IdleIs DEF Same, Kin, Changing, Moving, Locking, Makers, Undo, Ends
<1>48. CASE Crash(r) /\ Ends(r)
  BY <1>48, IdleIs DEF Same, Kin, Changing, Moving, Locking, Makers, Crash, Ends
<1>. QED
  BY <1>1, <1>2, <1>3, <1>4, <1>5, <1>6, <1>7, <1>8, <1>9, <1>10, <1>11, <1>12, <1>13, <1>14,
     <1>15, <1>16, <1>17, <1>18, <1>19, <1>20, <1>21, <1>22, <1>23, <1>24, <1>25, <1>26, <1>27,
     <1>28, <1>29, <1>30, <1>31, <1>32, <1>33, <1>34, <1>35, <1>36, <1>37, <1>38, <1>39, <1>40,
     <1>41, <1>42, <1>43, <1>44, <1>45, <1>46, <1>47, <1>48 DEF RequestStep, QuietStep,
     AccountStep, PilotStep

LEMMA MovingEnds ==
  ASSUME NEW r \in Requests, RequestStep(r), Moving(req[r]), ~Moving(req'[r])
  PROVE  EmailUser(r) \/ req[r].user \in torn' \union {None}
<1>1. CASE BeginsRegister(r)
  BY <1>1, IdleIs DEF Same, Kin, Moving, Locking, Makers, BeginsRegister, Enters
<1>2. CASE BeginsFor(r)
  BY <1>2, IdleIs DEF Same, Kin, Moving, Locking, Makers, BeginsFor, Enters
<1>3. CASE BeginsMine(r)
  BY <1>3, IdleIs DEF Same, Kin, Moving, Locking, Makers, BeginsMine, Enters
<1>4. CASE BeginsNew(r)
  BY <1>4, IdleIs DEF Same, Kin, Moving, Locking, Makers, BeginsNew, Enters
<1>5. CASE BeginsEdit(r)
  BY <1>5, IdleIs DEF Same, Kin, Moving, Locking, Makers, BeginsEdit, Enters
<1>6. CASE Locks(r)
  BY <1>6, IdleIs DEF Same, Kin, Moving, Locking, Makers, Locks, Goes
<1>7. CASE Remints(r)
  BY <1>7, IdleIs DEF Same, Kin, Moving, Locking, Makers, Remints, Goes, At
<1>8. CASE Fails(r)
  BY <1>8, IdleIs DEF Same, Kin, Moving, Locking, Makers, Fails, Goes
<1>9. CASE Retries(r)
  BY <1>9, IdleIs DEF Same, Kin, Moving, Locking, Makers, Retries, Goes, At
<1>10. CASE Stops(r)
  BY <1>10, IdleIs DEF Same, Kin, Moving, Locking, Makers, Stops, At, Ends
<1>11. CASE Finds(r)
  BY <1>11, IdleIs DEF Same, Kin, Moving, Locking, Makers, Finds, Reads
<1>12. CASE Loses(r)
  BY <1>12, IdleIs DEF Same, Kin, Moving, Locking, Makers, Loses, Reads
<1>13. CASE ReadsVersion(r)
  BY <1>13, IdleIs DEF Same, Kin, Moving, Locking, Makers, ReadsVersion, Reads
<1>14. CASE ReadsRoles(r)
  BY <1>14, IdleIs DEF Same, Kin, Moving, Locking, Makers, ReadsRoles, Reads
<1>15. CASE ReadsDelete(r)
  BY <1>15, IdleIs DEF Same, Kin, Moving, Locking, Makers, ReadsDelete, Reads
<1>16. CASE ReadsEmail(r)
  BY <1>16, IdleIs DEF Same, Kin, Moving, Locking, Makers, ReadsEmail, Reads
<1>17. CASE ReadsAdmin(r)
  BY <1>17, IdleIs DEF Same, Kin, Moving, Locking, Makers, ReadsAdmin, At
<1>18. CASE ReadsMine(r)
  BY <1>18, IdleIs DEF Same, Kin, Moving, Locking, Makers, ReadsMine, At
<1>19. CASE BeginsVerify(r)
  BY <1>19, IdleIs DEF Same, Kin, Moving, Locking, Makers, BeginsVerify, Enters
<1>20. CASE RegisterCred(r) /\ Goes(r, "find")
  BY <1>20, IdleIs DEF Same, Kin, Moving, Locking, Makers, RegisterCred, Goes, At
<1>21. CASE RegisterUser(r) /\ Goes(r, "index")
  BY <1>21, IdleIs DEF Same, Kin, Moving, Locking, Makers, RegisterUser, Goes, At
<1>22. CASE WinsAddress(r)
  BY <1>22, IdleIs DEF Same, Kin, Moving, Locking, Makers, WinsAddress, Goes, At
<1>23. CASE Collects(r)
  BY <1>23, IdleIs DEF Same, Kin, Moving, Locking, Makers, Collects, At
<1>24. CASE RegisterAccept(r) /\ Goes(r, "mint")
  BY <1>24, IdleIs DEF Same, Kin, Moving, Locking, Makers, RegisterAccept, Goes, At
<1>25. CASE MintLink(r) /\ Ends(r)
  BY <1>25, IdleIs DEF Same, Kin, Moving, Locking, Makers, MintLink, Ends
<1>26. CASE VerifyCred(r) /\ Ends(r)
  BY <1>26, IdleIs DEF Same, Kin, Moving, Locking, Makers, VerifyCred, Ends, At
<1>27. CASE RolesWrite(r) /\ Ends(r)
  BY <1>27, IdleIs DEF Same, Kin, Moving, Locking, Makers, RolesWrite, Ends, At
<1>28. CASE DeleteTomb(r) /\ Goes(r, "unindex")
  BY <1>28, IdleIs DEF Same, Kin, Moving, Locking, Makers, DeleteTomb, Goes, At
<1>29. CASE DeleteIndex(r) /\ Goes(r, "uncred")
  BY <1>29, IdleIs DEF Same, Kin, Moving, Locking, Makers, DeleteIndex, Goes, At
<1>30. CASE Drops(r)
  BY <1>30, IdleIs DEF Same, Kin, Moving, Locking, Makers, Drops, DeleteCred, Goes, At
<1>31. CASE DeleteUser(r) /\ Ends(r)
  BY <1>31, IdleIs DEF Same, Kin, Moving, Locking, Makers, DeleteUser, Ends, At
<1>32. CASE MovesIndex(r)
  BY <1>32, IdleIs DEF Same, Kin, Moving, Locking, Makers, MovesIndex, Goes, At
<1>33. CASE Unverifies(r)
  BY <1>33, IdleIs DEF Same, Kin, Moving, Locking, Makers, Unverifies, EmailUnverify, Goes, At
<1>34. CASE EmailUser(r) /\ Goes(r, "sweep")
  BY <1>34, IdleIs DEF Same, Kin, Moving, Locking, Makers, EmailUser, Goes, At
<1>35. CASE EmailSweep(r) /\ Goes(r, "mint")
  BY <1>35, IdleIs DEF Same, Kin, Moving, Locking, Makers, EmailSweep, Goes, At
<1>36. CASE DeleteLink(r) /\ Goes(r, "unclaim")
  BY <1>36, IdleIs DEF Same, Kin, Moving, Locking, Makers, DeleteLink, Goes, At
<1>37. CASE DeleteClaim(r) /\ Goes(r, "unuser")
  BY <1>37, IdleIs DEF Same, Kin, Moving, Locking, Makers, DeleteClaim, Goes, At
<1>38. CASE MovesClaim(r)
  BY <1>38, IdleIs DEF Same, Kin, Moving, Locking, Makers, MovesClaim, Goes, At
<1>39. CASE LosesClaim(r)
  BY <1>39, IdleIs DEF Same, Kin, Moving, Locking, Makers, LosesClaim, Ends, At
<1>40. CASE AdminPilotEnsure(r) /\ Goes(r, "relist")
  BY <1>40, IdleIs DEF Same, Kin, Moving, Locking, Makers, AdminPilotEnsure, Goes, At
<1>41. CASE AdminPilotRelist(r) /\ Goes(r, "reclaim")
  BY <1>41, IdleIs DEF Same, Kin, Moving, Locking, Makers, AdminPilotRelist, Goes, At
<1>42. CASE AdminPilotReclaim(r) /\ Ends(r)
  BY <1>42, IdleIs DEF Same, Kin, Moving, Locking, Makers, AdminPilotReclaim, Ends, At
<1>43. CASE AdminPilotLink(r) /\ Ends(r)
  BY <1>43, IdleIs DEF Same, Kin, Moving, Locking, Makers, AdminPilotLink, Ends, At
<1>44. CASE Claims(r)
  BY <1>44, IdleIs DEF Same, Kin, Moving, Locking, Makers, Claims
<1>45. CASE WritePilot(r) /\ Goes(r, "list")
  BY <1>45, IdleIs DEF Same, Kin, Moving, Locking, Makers, WritePilot, Goes
<1>46. CASE Lists(r)
  BY <1>46, IdleIs DEF Same, Kin, Moving, Locking, Makers, Lists, Goes, Ends
<1>47. CASE MyPilotWrite(r) /\ Ends(r)
  BY <1>47, IdleIs DEF Same, Kin, Moving, Locking, Makers, MyPilotWrite, Ends, At
<1>48. CASE Undo(r) /\ Ends(r)
  BY <1>48, IdleIs DEF Same, Kin, Moving, Locking, Makers, Undo, Ends
<1>49. CASE Crash(r) /\ Ends(r)
  BY <1>49, IdleIs DEF Same, Kin, Moving, Locking, Makers, Crash, Ends
<1>. QED
  BY <1>1, <1>2, <1>3, <1>4, <1>5, <1>6, <1>7, <1>8, <1>9, <1>10, <1>11, <1>12, <1>13, <1>14,
     <1>15, <1>16, <1>17, <1>18, <1>19, <1>20, <1>21, <1>22, <1>23, <1>24, <1>25, <1>26, <1>27,
     <1>28, <1>29, <1>30, <1>31, <1>32, <1>33, <1>34, <1>35, <1>36, <1>37, <1>38, <1>39, <1>40,
     <1>41, <1>42, <1>43, <1>44, <1>45, <1>46, <1>47, <1>48, <1>49 DEF RequestStep, QuietStep,
     AccountStep, PilotStep

LEMMA HoldsOnce ==
  ASSUME Rooting, NEW r \in Requests, NEW s \in Requests, Holds(req[r]), Holds(req[s])
  PROVE  r = s
BY DEF Rooting, Locked

LEMMA ChangingKept ==
  ASSUME Rooting, Addressed, NEW r \in Requests, RequestStep(r),
         NEW s \in Requests, Changing(req'[s]), NEW u, u = req'[s].user, Sound(u)'
  PROVE  user'[u] # None /\ user'[u].email = req'[s].doc.email
<1>0. Types /\ Documents /\ Origins /\ Newcomers /\ Becomes(r) /\ Sound(u)
  BY DocumentsAre, StepBecomes, SoundBefore DEF Rooting
<1>1. CASE s = r /\ ReadsEmail(r)
  <2>1. req'[r].doc \in Records
    BY <1>0, <1>1 DEF Becomes, Shaped, Carries, Changing
  <2>2. u = req[r].user
    BY <1>1 DEF ReadsEmail, Reads, Kin
  <2>. QED
    BY <1>1, <2>1, <2>2, ConstantTypes DEF ReadsEmail, Reads, Still, accounts
<1>2. CASE ~(s = r /\ ReadsEmail(r))
  <2>1. Changing(req[s]) /\ req'[s].doc = req[s].doc /\ req'[s].user = req[s].user
    BY <1>0, <1>2, ChangingIs DEF Becomes
  <2>2. user[u] # None /\ user[u].email = req[s].doc.email
    BY <1>0, <2>1 DEF Addressed
  <2>3. u \in Users /\ Rooted(u) /\ Holds(req[s])
    BY <1>0, <2>1, CarriesIs, ConstantTypes DEF Changing, Locking, Origins, RequestRooted,
       Newcomer, Holds
  <2>4. ~DeleteUser(r)
    BY <2>1, <2>3, HoldsOnce DEF DeleteUser, At, Changing, Holds, Locking
  <2>5. ~EmailUser(r)
    <3>1. SUFFICES ASSUME EmailUser(r) PROVE FALSE
      OBVIOUS
    <3>2. s = r
      BY <2>3, <3>1, HoldsOnce DEF EmailUser, At, Holds, Locking
    <3>3. req'[r].at = "sweep"
      BY <1>0, <3>1, RequestIs DEF EmailUser, Goto, Process
    <3>. QED
      BY <3>2, <3>3 DEF Changing
  <2>6. user'[u] \in Records /\ user'[u].email = user[u].email
    BY <2>2, <2>3, <2>4, <2>5, RecordStep
  <2>. QED
    BY <2>1, <2>2, <2>6, ConstantTypes
<1>. QED
  BY <1>1, <1>2

(* The entries of an account, whatever step is made.                       *)
LEMMA EntriesKept ==
  ASSUME Rooting, Addressed, NEW r \in Requests, RequestStep(r),
         NEW u \in Users, Live(u)', Rooted(u)', Sound(u)'
  PROVE  /\ \A s \in Requests : Moving(req'[s]) /\ req'[s].user = u =>
              \A e \in Emails : index'[e] = u <=> e = req'[s].email
         /\ (\A s \in Requests : Moving(req'[s]) => req'[s].user # u) =>
              \A e \in Emails : index'[e] = u <=> e = user'[u].email
<1>0. Types /\ Documents /\ Origins /\ Newcomers /\ Becomes(r) /\ Sound(u)
  BY DocumentsAre, StepBecomes, SoundBefore DEF Rooting
<1>1. CASE WinsAddress(r) /\ req[r].user = u /\ Newcomer(req[r])
  <2>1. user[u] = req[r].doc /\ req[r].doc.email = req[r].email /\ req[r].email \in Emails
    <3>1. Shaped(req[r])
      BY <1>0 DEF Types
    <3>. QED
      BY <1>0, <1>1, <3>1 DEF WinsAddress, At, Newcomers, Fits, Shaped, Carries
  <2>2. \A e \in Emails : index[e] # u
    BY <1>0, <1>1, RootedIsNoNewcomer, ConstantTypes DEF Origins
  <2>3. \A s \in Requests : Moving(req'[s]) => req'[s].user # u
    BY <1>0, <1>1 DEF Newcomers, Becomes, WinsAddress, Goes, Same, Kin, At, Moving
  <2>4. \A e \in Emails : index'[e] = u <=> e = user'[u].email
    BY <1>0, <1>1, <2>1, <2>2 DEF WinsAddress, Documents
  <2>. QED
    BY <2>3, <2>4
<1>2. CASE Rooted(u) /\ Live(u)
  <2>0. /\ \A s \in Requests : Moving(req[s]) /\ req[s].user = u =>
             \A e \in Emails : index[e] = u <=> e = req[s].email
        /\ (\A s \in Requests : Moving(req[s]) => req[s].user # u) =>
             \A e \in Emails : index[e] = u <=> e = user[u].email
    BY <1>0, <1>2 DEF Addressed
  <2>1. CASE ~MovesIndex(r) /\ \A e \in Emails : index'[e] = u <=> index[e] = u
    <3>1. ASSUME NEW s \in Requests, Moving(req'[s]), req'[s].user = u
          PROVE  \A e \in Emails : index'[e] = u <=> e = req'[s].email
      <4>1. s = r => ~ReadsEmail(r)
        BY <3>1 DEF Moving, ReadsEmail, Reads
      <4>2. Moving(req[s]) /\ req[s].user = u /\ req'[s].email = req[s].email
        BY <1>0, <2>1, <3>1, <4>1, ChangingIs DEF Becomes, Moving, Changing
      <4>. QED
        BY <2>0, <2>1, <4>2
    <3>2. ASSUME \A s \in Requests : Moving(req'[s]) => req'[s].user # u
          PROVE  \A e \in Emails : index'[e] = u <=> e = user'[u].email
      <4>1. CASE \A s \in Requests : Moving(req[s]) => req[s].user # u
        <5>1. ~(EmailUser(r) /\ req[r].user = u)
          BY <4>1 DEF EmailUser, At, Moving
        <5>2. user'[u].email = user[u].email
          BY <1>2, <5>1, RecordStep DEF Live
        <5>. QED
          BY <2>0, <2>1, <4>1, <5>2
      <4>2. CASE \E s \in Requests : Moving(req[s]) /\ req[s].user = u
        <5>. PICK s \in Requests : Moving(req[s]) /\ req[s].user = u
          BY <4>2
        <5>1. s = r
          BY <1>0, <3>2 DEF Becomes
        <5>2. ~Moving(req'[r])
          BY <3>2, <5>1, ChangingIs DEF Moving, Changing, ReadsEmail, Reads
        <5>3. EmailUser(r)
          BY <5>1, <5>2, MovingEnds, ConstantTypes DEF Sound
        <5>4. req[r].doc \in Records
          BY <1>0, <5>3, CarriesIs DEF EmailUser, At, Carries
        <5>5. user'[u].email = req[r].email
          BY <1>0, <5>1, <5>3, <5>4 DEF EmailUser, Documents, Records
        <5>. QED
          BY <2>0, <2>1, <5>1, <5>5
      <4>. QED
        BY <4>1, <4>2
    <3>. QED
      BY <3>1, <3>2
  <2>2. CASE WinsAddress(r)
    <3>1. req[r].user # u
      BY <1>2, <2>2, RootedIsNoNewcomer DEF WinsAddress, At, Newcomer
    <3>2. req[r].email \in Emails /\ ~MovesIndex(r)
      BY <1>0, <2>2, CarriesIs DEF WinsAddress, MovesIndex, At
    <3>3. \A e \in Emails : index'[e] = u <=> index[e] = u
      BY <1>0, <2>2, <3>1, <3>2, ConstantTypes DEF WinsAddress, Documents
    <3>. QED
      BY <2>1, <3>2, <3>3
  <2>3. CASE DeleteIndex(r)
    <3>1. req[r].user # u
      BY <1>0, <1>2, <2>3 DEF DeleteIndex, At, Live, Origins, RequestRooted
    <3>2. ~MovesIndex(r)
      BY <2>3 DEF DeleteIndex, MovesIndex, At
    <3>3. \A e \in Emails : index'[e] = u <=> index[e] = u
      BY <1>0, <2>3, <3>1, ConstantTypes DEF DeleteIndex, Documents
    <3>. QED
      BY <2>1, <3>2, <3>3
  <2>4. CASE MovesIndex(r) /\ req[r].user = u
    <3>1. Holds(req[r]) /\ Carries(req[r]) /\ Changing(req[r]) /\ ~Moving(req[r])
      BY <2>4 DEF MovesIndex, At, Holds, Locking, Carries, Changing, Moving
    <3>2. req[r].email \in Emails /\ req[r].doc.email \in Emails
      BY <1>0, <2>4, <3>1, CarriesIs DEF MovesIndex, At
    <3>3. \A s \in Requests : Moving(req[s]) => s = r
      BY <3>1, HoldsOnce DEF Moving, Holds, Locking
    <3>4. \A e \in Emails : index[e] = u <=> e = req[r].doc.email
      BY <1>0, <2>0, <2>4, <3>1, <3>3 DEF Addressed
    <3>5. \A e \in Emails : index'[e] = u <=> e = req[r].email
      BY <1>0, <2>4, <3>2, <3>4, ConstantTypes DEF MovesIndex, Documents
    <3>6. Moving(req'[r]) /\ req'[r].user = u /\ req'[r].email = req[r].email
      BY <2>4 DEF MovesIndex, Goes, Same, Kin, At, Moving
    <3>7. \A s \in Requests : Moving(req'[s]) => s = r
      BY <1>0, <3>1, <3>3 DEF Becomes
    <3>. QED
      BY <3>5, <3>6, <3>7
  <2>5. CASE MovesIndex(r) /\ req[r].user # u
    <3>1. Carries(req[r])
      BY <2>5 DEF MovesIndex, At, Carries
    <3>2. req[r].email \in Emails /\ req[r].doc.email \in Emails
      BY <1>0, <2>5, <3>1, CarriesIs DEF MovesIndex, At
    <3>3. index[req[r].doc.email] # u
      BY <2>5, ConstantTypes DEF MovesIndex, Sound
    <3>4. \A e \in Emails : index'[e] = u <=> index[e] = u
      BY <1>0, <2>5, <3>2, <3>3, ConstantTypes DEF MovesIndex, Documents
    <3>5. \A s \in Requests : Moving(req'[s]) /\ req'[s].user = u =>
            Moving(req[s]) /\ req[s].user = u /\ req'[s].email = req[s].email
      BY <1>0, <2>5 DEF MovesIndex, Goes, Same, Kin, Becomes
    <3>6. \A s \in Requests : Moving(req[s]) /\ req[s].user = u => Moving(req'[s]) /\ req'[s].user = u
      BY <1>0, <2>5 DEF Becomes
    <3>7. user' = user
      BY <2>5 DEF MovesIndex
    <3>. QED
      BY <2>0, <3>4, <3>5, <3>6, <3>7
  <2>6. CASE index' = index /\ ~MovesIndex(r)
    BY <2>1, <2>6
  <2>. QED
    BY <2>2, <2>3, <2>4, <2>5, <2>6, Writers
<1>. QED
  BY <1>1, <1>2, SettledBefore

LEMMA AddressedKept ==
  ASSUME Rooting, Addressed, Step
  PROVE  Addressed'
<1>1. CASE \E r \in Requests : RequestStep(r)
  <2>. PICK r \in Requests : RequestStep(r)
    BY <1>1
  <2>1. ASSUME NEW u \in Users, Live(u)', Rooted(u)', Sound(u)'
        PROVE  /\ \A s \in Requests : Moving(req'[s]) /\ req'[s].user = u =>
                    \A e \in Emails : index'[e] = u <=> e = req'[s].email
               /\ (\A s \in Requests : Moving(req'[s]) => req'[s].user # u) =>
                    \A e \in Emails : index'[e] = u <=> e = user'[u].email
    BY <2>1, EntriesKept
  <2>2. ASSUME NEW s \in Requests, Changing(req'[s]), Sound(req[s].user)'
        PROVE  user'[req'[s].user] # None /\ user'[req'[s].user].email = req'[s].doc.email
    <3>. PICK u : u = req'[s].user
      OBVIOUS
    <3>1. Sound(u)'
      BY <2>2 DEF Sound
    <3>. QED
      BY <2>2, <3>1, ChangingKept
  <2>. QED
    BY <2>1, <2>2 DEF Addressed, Moving, Changing
<1>2. CASE UNCHANGED <<index, user, tomb, req, lost>> /\ torn \subseteq torn'
  BY <1>2 DEF Addressed, Live, Sound, Rooted, Newcomer, Moving, Changing
<1>3. ASSUME NEW u \in Users, AdminVerify(u) \/ Bump(u) PROVE Addressed'
  BY <1>2, <1>3 DEF AdminVerify, Bump, history
<1>4. CASE UNCHANGED vars
  BY <1>2, <1>4 DEF vars, accounts, history
<1>. QED
  BY <1>1, <1>3, <1>4 DEF Step

(* An account has its address, and no other, after registrations and       *)
(* changes of address raced for the same one: whoever wrote the entry of   *)
(* an address under the lease of the index found it free or its own        *)
(* (userIndex.ts), and a change of address holds the lock from its read of *)
(* the record to its write.                                                *)
THEOREM EachHasItsAddress ==
  Spec => []OneAddress
<1>1. Init => Addressed
  <2>. SUFFICES ASSUME Init PROVE Addressed
    OBVIOUS
  <2>. PICK present \in Members, admins \in SUBSET Users :
         /\ user = [u \in Users |->
                      IF u \in present
                      THEN [email |-> AddressOf[u], admin |-> u \in admins, pilot |-> None] ELSE None]
         /\ index = [e \in Emails |-> IF \E u \in present : AddressOf[u] = e
                                      THEN CHOOSE u \in present : AddressOf[u] = e ELSE None]
    BY DEF Init
  <2>1. \A r \in Requests : ~Moving(req[r]) /\ ~Changing(req[r])
    BY IdleIs DEF Init, Moving, Changing
  <2>2. present \subseteq Users /\ \A u, v \in present : AddressOf[u] = AddressOf[v] => u = v
    BY AccountsAssumption
  <2>3. ASSUME NEW u \in Users, Live(u), NEW e \in Emails PROVE index[e] = u <=> e = user[u].email
    <3>1. u \in present /\ user[u].email = AddressOf[u]
      BY <2>3 DEF Live
    <3>2. index[e] = u => AddressOf[u] = e
      BY ConstantTypes
    <3>3. AddressOf[u] = e => index[e] = u
      <4>1. SUFFICES ASSUME AddressOf[u] = e PROVE index[e] = u
        OBVIOUS
      <4>. PICK v : v = CHOOSE w \in present : AddressOf[w] = e
        OBVIOUS
      <4>2. v \in present /\ AddressOf[v] = e /\ index[e] = v
        BY <3>1, <4>1
      <4>. QED
        BY <2>2, <3>1, <4>1, <4>2
    <3>. QED
      BY <3>1, <3>2, <3>3
  <2>. QED
    BY <2>1, <2>3 DEF Addressed
<1>2. Rooting /\ Addressed /\ [Next]_vars => Addressed'
  <2>. SUFFICES ASSUME Rooting, Addressed, [Next]_vars PROVE Addressed'
    OBVIOUS
  <2>1. Step
    BY StepIs DEF Step, Rooting
  <2>. QED
    BY <2>1, AddressedKept
<1>3. Addressed => OneAddress
  BY DEF Addressed, OneAddress, Rooted, Live, Resting, Moving, Newcomer
<1>. QED
  BY <1>1, <1>2, <1>3, RootingHolds, PTL DEF Spec

-----------------------------------------------------------------------------
(* The link mailed last.                                                   *)

LEMMA MailsNext ==
  ASSUME NEW r \in Requests, RequestStep(r), req'[r].op = "email", req'[r].at = "document"
  PROVE  ReadsVersion(r)
<1>1. CASE BeginsRegister(r)
  BY <1>1, IdleIs DEF Same, Kin, Locking, Makers, BeginsRegister, Enters
<1>2. CASE BeginsFor(r)
  BY <1>2, IdleIs DEF Same, Kin, Locking, Makers, BeginsFor, Enters
<1>3. CASE BeginsMine(r)
  BY <1>3, IdleIs DEF Same, Kin, Locking, Makers, BeginsMine, Enters
<1>4. CASE BeginsNew(r)
  BY <1>4, IdleIs DEF Same, Kin, Locking, Makers, BeginsNew, Enters
<1>5. CASE BeginsEdit(r)
  BY <1>5, IdleIs DEF Same, Kin, Locking, Makers, BeginsEdit, Enters
<1>6. CASE Locks(r)
  BY <1>6, IdleIs DEF Same, Kin, Locking, Makers, Locks, Goes
<1>7. CASE Remints(r)
  BY <1>7, IdleIs DEF Same, Kin, Locking, Makers, Remints, Goes, At
<1>8. CASE Fails(r)
  BY <1>8, IdleIs DEF Same, Kin, Locking, Makers, Fails, Goes
<1>9. CASE Retries(r)
  BY <1>9, IdleIs DEF Same, Kin, Locking, Makers, Retries, Goes, At
<1>10. CASE Stops(r)
  BY <1>10, IdleIs DEF Same, Kin, Locking, Makers, Stops, At, Ends
<1>11. CASE Finds(r)
  BY <1>11, IdleIs DEF Same, Kin, Locking, Makers, Finds, Reads
<1>12. CASE Loses(r)
  BY <1>12, IdleIs DEF Same, Kin, Locking, Makers, Loses, Reads
<1>13. CASE ReadsRoles(r)
  BY <1>13, IdleIs DEF Same, Kin, Locking, Makers, ReadsRoles, Reads
<1>14. CASE ReadsDelete(r)
  BY <1>14, IdleIs DEF Same, Kin, Locking, Makers, ReadsDelete, Reads
<1>15. CASE ReadsEmail(r)
  BY <1>15, IdleIs DEF Same, Kin, Locking, Makers, ReadsEmail, Reads
<1>16. CASE ReadsAdmin(r)
  BY <1>16, IdleIs DEF Same, Kin, Locking, Makers, ReadsAdmin, At
<1>17. CASE ReadsMine(r)
  BY <1>17, IdleIs DEF Same, Kin, Locking, Makers, ReadsMine, At
<1>18. CASE BeginsVerify(r)
  BY <1>18, IdleIs DEF Same, Kin, Locking, Makers, BeginsVerify, Enters
<1>19. CASE RegisterCred(r) /\ Goes(r, "find")
  BY <1>19, IdleIs DEF Same, Kin, Locking, Makers, RegisterCred, Goes, At
<1>20. CASE RegisterUser(r) /\ Goes(r, "index")
  BY <1>20, IdleIs DEF Same, Kin, Locking, Makers, RegisterUser, Goes, At
<1>21. CASE WinsAddress(r)
  BY <1>21, IdleIs DEF Same, Kin, Locking, Makers, WinsAddress, Goes, At
<1>22. CASE Collects(r)
  BY <1>22, IdleIs DEF Same, Kin, Locking, Makers, Collects, At
<1>23. CASE RegisterAccept(r) /\ Goes(r, "mint")
  BY <1>23, IdleIs DEF Same, Kin, Locking, Makers, RegisterAccept, Goes, At
<1>24. CASE MintLink(r) /\ Ends(r)
  BY <1>24, IdleIs DEF Same, Kin, Locking, Makers, MintLink, Ends
<1>25. CASE VerifyCred(r) /\ Ends(r)
  BY <1>25, IdleIs DEF Same, Kin, Locking, Makers, VerifyCred, Ends, At
<1>26. CASE RolesWrite(r) /\ Ends(r)
  BY <1>26, IdleIs DEF Same, Kin, Locking, Makers, RolesWrite, Ends, At
<1>27. CASE DeleteTomb(r) /\ Goes(r, "unindex")
  BY <1>27, IdleIs DEF Same, Kin, Locking, Makers, DeleteTomb, Goes, At
<1>28. CASE DeleteIndex(r) /\ Goes(r, "uncred")
  BY <1>28, IdleIs DEF Same, Kin, Locking, Makers, DeleteIndex, Goes, At
<1>29. CASE Drops(r)
  BY <1>29, IdleIs DEF Same, Kin, Locking, Makers, Drops, DeleteCred, Goes, At
<1>30. CASE DeleteUser(r) /\ Ends(r)
  BY <1>30, IdleIs DEF Same, Kin, Locking, Makers, DeleteUser, Ends, At
<1>31. CASE MovesIndex(r)
  BY <1>31, IdleIs DEF Same, Kin, Locking, Makers, MovesIndex, Goes, At
<1>32. CASE Unverifies(r)
  BY <1>32, IdleIs DEF Same, Kin, Locking, Makers, Unverifies, EmailUnverify, Goes, At
<1>33. CASE EmailUser(r) /\ Goes(r, "sweep")
  BY <1>33, IdleIs DEF Same, Kin, Locking, Makers, EmailUser, Goes, At
<1>34. CASE EmailSweep(r) /\ Goes(r, "mint")
  BY <1>34, IdleIs DEF Same, Kin, Locking, Makers, EmailSweep, Goes, At
<1>35. CASE DeleteLink(r) /\ Goes(r, "unclaim")
  BY <1>35, IdleIs DEF Same, Kin, Locking, Makers, DeleteLink, Goes, At
<1>36. CASE DeleteClaim(r) /\ Goes(r, "unuser")
  BY <1>36, IdleIs DEF Same, Kin, Locking, Makers, DeleteClaim, Goes, At
<1>37. CASE MovesClaim(r)
  BY <1>37, IdleIs DEF Same, Kin, Locking, Makers, MovesClaim, Goes, At
<1>38. CASE LosesClaim(r)
  BY <1>38, IdleIs DEF Same, Kin, Locking, Makers, LosesClaim, Ends, At
<1>39. CASE AdminPilotEnsure(r) /\ Goes(r, "relist")
  BY <1>39, IdleIs DEF Same, Kin, Locking, Makers, AdminPilotEnsure, Goes, At
<1>40. CASE AdminPilotRelist(r) /\ Goes(r, "reclaim")
  BY <1>40, IdleIs DEF Same, Kin, Locking, Makers, AdminPilotRelist, Goes, At
<1>41. CASE AdminPilotReclaim(r) /\ Ends(r)
  BY <1>41, IdleIs DEF Same, Kin, Locking, Makers, AdminPilotReclaim, Ends, At
<1>42. CASE AdminPilotLink(r) /\ Ends(r)
  BY <1>42, IdleIs DEF Same, Kin, Locking, Makers, AdminPilotLink, Ends, At
<1>43. CASE Claims(r)
  BY <1>43, IdleIs DEF Same, Kin, Locking, Makers, Claims
<1>44. CASE WritePilot(r) /\ Goes(r, "list")
  BY <1>44, IdleIs DEF Same, Kin, Locking, Makers, WritePilot, Goes
<1>45. CASE Lists(r)
  BY <1>45, IdleIs DEF Same, Kin, Locking, Makers, Lists, Goes, Ends
<1>46. CASE MyPilotWrite(r) /\ Ends(r)
  BY <1>46, IdleIs DEF Same, Kin, Locking, Makers, MyPilotWrite, Ends, At
<1>47. CASE Undo(r) /\ Ends(r)
  BY <1>47, IdleIs DEF Same, Kin, Locking, Makers, Undo, Ends
<1>48. CASE Crash(r) /\ Ends(r)
  BY <1>48, IdleIs DEF Same, Kin, Locking, Makers, Crash, Ends
<1>. QED
  BY <1>1, <1>2, <1>3, <1>4, <1>5, <1>6, <1>7, <1>8, <1>9, <1>10, <1>11, <1>12, <1>13, <1>14,
     <1>15, <1>16, <1>17, <1>18, <1>19, <1>20, <1>21, <1>22, <1>23, <1>24, <1>25, <1>26, <1>27,
     <1>28, <1>29, <1>30, <1>31, <1>32, <1>33, <1>34, <1>35, <1>36, <1>37, <1>38, <1>39, <1>40,
     <1>41, <1>42, <1>43, <1>44, <1>45, <1>46, <1>47, <1>48 DEF RequestStep, QuietStep,
     AccountStep, PilotStep

(* The link that was mailed is there, and an account that a change of      *)
(* address is about to mail one has the credentials it read.               *)
Works(u) ==
  mailed[u] # NoLink =>
    /\ links[mailed[u]] # None /\ links[mailed[u]].user = u /\ cred[u] # None
    /\ Sound(u) => links[mailed[u]].used \/ links[mailed[u]].version = cred[u].version
Mails(q) ==
  q.op = "email" /\ q.at = "document" =>
    cred[q.user] # None /\ (Sound(q.user) => cred[q.user].version = q.version)
Mailing ==
  /\ \A u \in Users : Works(u)
  /\ \A r \in Requests : Mails(req[r])

(* What a step makes of the credentials of an account.                     *)
LEMMA CredStep ==
  ASSUME Rooting, NEW r \in Requests, RequestStep(r), NEW u \in Users, Rooted(u)
  PROVE  \/ cred'[u] = cred[u]
         \/ cred[u] # None /\ cred'[u] # None /\ cred'[u].version = cred[u].version
         \/ (Drops(r) \/ Unverifies(r)) /\ req[r].user = u
<1>0. Types /\ Documents
  BY DocumentsAre DEF Rooting
<1>1. CASE req[r].user # u
  BY <1>0, <1>1, OthersStay
<1>2. CASE req[r].user = u
  <2>1. ~RegisterCred(r) /\ ~Collects(r)
    BY <1>2, RootedIsNoNewcomer DEF RegisterCred, Collects, At, Newcomer
  <2>2. CASE VerifyCred(r)
    <3>1. CASE cred' = cred
      BY <3>1
    <3>2. CASE cred[u] # None /\ cred' = [cred EXCEPT ![u].verified = TRUE]
      <4>. PICK next : next = [cred[u] EXCEPT !.verified = TRUE]
        OBVIOUS
      <4>1. cred[u] \in Credentials
        BY <1>0, <3>2 DEF Documents
      <4>2. next \in Credentials /\ next.version = cred[u].version
        BY <4>1 DEF Credentials
      <4>3. cred'[u] = next
        BY <1>0, <3>2 DEF Documents
      <4>. QED
        BY <3>2, <4>2, <4>3, ConstantTypes
    <3>. QED
      BY <1>2, <2>2, <3>1, <3>2 DEF VerifyCred
  <2>. QED
    BY <1>2, <2>1, <2>2, Writers
<1>. QED
  BY <1>1, <1>2

LEMMA WorksKept ==
  ASSUME Rooting, Mailing, NEW r \in Requests, RequestStep(r), NEW u \in Users
  PROVE  Works(u)'
<1>0. Types /\ Documents /\ Origins /\ Becomes(r) /\ Works(u) /\ (Sound(u)' => Sound(u))
  BY DocumentsAre, StepBecomes, SoundBefore DEF Rooting, Mailing
<1>1. SUFFICES ASSUME mailed'[u] # NoLink PROVE Works(u)'
  BY DEF Works
<1>2. CASE MintLink(r) /\ mailed'[u] # mailed[u]
  <2>1. req[r].user = u
    BY <1>0, <1>2, OthersStay
  <2>2. At(r, "email", "document") /\ cred' = cred
    BY <1>0, <1>2 DEF MintLink, At, accounts
  <2>3. cred[u] # None /\ (Sound(u) => cred[u].version = req[r].version)
    BY <2>1, <2>2 DEF Mailing, Mails, At
  <2>. PICK n \in LinkIds :
         /\ links[n] = None
         /\ links' = [links EXCEPT ![n] = [user |-> req[r].user, version |-> req[r].version,
                                           used |-> FALSE]]
         /\ mailed' = IF req[r].op = "email" THEN [mailed EXCEPT ![req[r].user] = n] ELSE mailed
    BY <1>2 DEF MintLink
  <2>. PICK link : link = [user |-> req[r].user, version |-> req[r].version, used |-> FALSE]
    OBVIOUS
  <2>4. link \in Links /\ link.user = u /\ link.version = req[r].version
    BY <1>0, <2>1, RequestIs DEF Links
  <2>5. mailed'[u] = n /\ links'[n] = link
    BY <1>0, <2>1, <2>2 DEF Documents, At
  <2>. QED
    BY <1>0, <2>2, <2>3, <2>4, <2>5, ConstantTypes DEF Works
<1>3. CASE mailed'[u] = mailed[u]
  <2>. PICK n : n = mailed[u]
    OBVIOUS
  <2>1. n \in LinkIds /\ links[n] # None /\ links[n].user = u /\ Rooted(u)
    BY <1>0, <1>1, <1>3 DEF Documents, Works, Origins
  <2>2. ~((Drops(r) \/ EmailSweep(r) \/ Unverifies(r)) /\ req[r].user = u)
    BY <1>0, <1>1 DEF Drops, DeleteCred, EmailSweep, Unverifies, EmailUnverify, Sweep, Documents
  <2>3. \/ cred'[u] = cred[u]
        \/ cred[u] # None /\ cred'[u] # None /\ cred'[u].version = cred[u].version
    BY <2>1, <2>2, CredStep
  <2>4. /\ links'[n] # None /\ links'[n].user = u /\ links'[n].version = links[n].version
        /\ links[n].used => links'[n].used
    <3>1. CASE links' = links
      BY <2>1, <3>1
    <3>2. CASE BeginsVerify(r)
      <4>. PICK m \in LinkIds : links' = [links EXCEPT ![m].used = TRUE]
        BY <3>2 DEF BeginsVerify
      <4>. PICK link : link = [links[n] EXCEPT !.used = TRUE]
        OBVIOUS
      <4>1. links[n] \in Links
        BY <1>0, <2>1 DEF Documents
      <4>2. link \in Links /\ link.user = u /\ link.version = links[n].version /\ link.used
        BY <2>1, <4>1 DEF Links
      <4>3. links'[n] = IF m = n THEN link ELSE links[n]
        BY <1>0, <2>1 DEF Documents
      <4>. QED
        BY <2>1, <4>2, <4>3, ConstantTypes
    <3>3. CASE MintLink(r)
      BY <1>0, <2>1, <3>3 DEF MintLink, Documents
    <3>4. CASE Drops(r) \/ EmailSweep(r)
      <4>1. req[r].user # u
        BY <2>2, <3>4
      <4>2. links'[n] = links[n]
        BY <2>1, <3>4, <4>1 DEF Drops, DeleteCred, EmailSweep, Sweep
      <4>. QED
        BY <2>1, <4>2
    <3>. QED
      BY <3>1, <3>2, <3>3, <3>4, Writers
  <2>. QED
    BY <1>0, <1>1, <1>3, <2>3, <2>4 DEF Works
<1>4. CASE mailed'[u] # mailed[u] /\ ~MintLink(r)
  <2>1. req[r].user = u /\ (Drops(r) \/ EmailSweep(r) \/ Unverifies(r))
    BY <1>0, <1>4, OthersStay, Writers
  <2>. QED
    BY <1>0, <1>1, <2>1 DEF Drops, DeleteCred, EmailSweep, Unverifies, EmailUnverify, Sweep,
       Documents
<1>. QED
  BY <1>2, <1>3, <1>4

LEMMA MailsKept ==
  ASSUME Rooting, Mailing, NEW r \in Requests, RequestStep(r),
         NEW s \in Requests, req'[s].op = "email", req'[s].at = "document", NEW u, u = req'[s].user
  PROVE  cred'[u] # None /\ (Sound(u)' => cred'[u].version = req'[s].version)
<1>0. Types /\ Documents /\ Origins /\ Becomes(r) /\ (Sound(u)' => Sound(u))
  BY DocumentsAre, StepBecomes, SoundBefore DEF Rooting
<1>1. CASE s = r
  <2>1. ReadsVersion(r)
    BY <1>1, MailsNext
  <2>. QED
    BY <1>1, <2>1 DEF ReadsVersion, Reads, Kin, Still, accounts
<1>2. CASE s # r
  <2>1. req'[s] = req[s]
    BY <1>0, <1>2 DEF Becomes
  <2>2. cred[u] # None /\ (Sound(u) => cred[u].version = req[s].version)
    BY <2>1 DEF Mailing, Mails
  <2>3. u \in Users /\ Rooted(u) /\ Holds(req[s])
    BY <1>0, <2>1, CarriesIs, ConstantTypes DEF Locking, Origins, RequestRooted, Newcomer, Holds
  <2>4. ~Drops(r) /\ ~Unverifies(r)
    BY <1>2, <2>3, HoldsOnce DEF Drops, DeleteCred, Unverifies, EmailUnverify, At, Holds, Locking
  <2>. QED
    BY <1>0, <2>1, <2>2, <2>3, <2>4, CredStep
<1>. QED
  BY <1>1, <1>2

LEMMA MailingKept ==
  ASSUME Rooting, Mailing, Step
  PROVE  Mailing'
<1>0. Types /\ Documents /\ Origins
  BY DocumentsAre DEF Rooting
<1>1. CASE \E r \in Requests : RequestStep(r)
  <2>. PICK r \in Requests : RequestStep(r)
    BY <1>1
  <2>1. ASSUME NEW u \in Users PROVE Works(u)'
    BY WorksKept
  <2>2. ASSUME NEW s \in Requests PROVE Mails(req[s])'
    <3>1. SUFFICES ASSUME req'[s].op = "email", req'[s].at = "document" PROVE Mails(req[s])'
      BY DEF Mails
    <3>. PICK u : u = req'[s].user
      OBVIOUS
    <3>2. cred'[u] # None /\ (Sound(u)' => cred'[u].version = req'[s].version)
      BY <3>1, MailsKept
    <3>. QED
      BY <3>2 DEF Mails, Sound
  <2>. QED
    BY <2>1, <2>2 DEF Mailing
<1>2. ASSUME NEW v \in Users, AdminVerify(v) PROVE Mailing'
  <2>. PICK next : next = [cred[v] EXCEPT !.verified = TRUE]
    OBVIOUS
  <2>1. cred[v] \in Credentials
    BY <1>0, <1>2 DEF Documents, AdminVerify
  <2>2. next \in Credentials /\ next.version = cred[v].version
    BY <2>1 DEF Credentials
  <2>3. cred' = [cred EXCEPT ![v] = next] /\ UNCHANGED <<mails, req, torn, lost>>
    BY <1>2 DEF AdminVerify, history
  <2>4. ASSUME NEW u \in Users PROVE cred[u] # None =>
                                       cred'[u] # None /\ cred'[u].version = cred[u].version
    BY <1>0, <2>2, <2>3, ConstantTypes DEF Documents
  <2>5. \A u \in Users : Works(u)'
    BY <2>3, <2>4 DEF Mailing, Works, Sound, mails
  <2>6. \A s \in Requests : req[s].op = "email" => req[s].user \in Users
    BY <1>0, CarriesIs DEF Locking
  <2>7. \A s \in Requests : Mails(req[s])'
    BY <2>3, <2>4, <2>6 DEF Mailing, Mails, Sound
  <2>. QED
    BY <2>5, <2>7 DEF Mailing
<1>3. ASSUME NEW v \in Users, Bump(v) PROVE Mailing'
  <2>1. cred[v] \in Credentials /\ UNCHANGED <<links, req, lost>> /\ torn \subseteq torn'
    BY <1>0, <1>3 DEF Documents, Bump
  <2>. PICK later : later = cred[v].version + 1
    OBVIOUS
  <2>. PICK next : next = [cred[v] EXCEPT !.version = later]
    OBVIOUS
  <2>2. later \in Nat
    BY <2>1 DEF Credentials
  <2>3. next \in Credentials
    BY <2>1, <2>2 DEF Credentials
  <2>4. cred' = [cred EXCEPT ![v] = next] /\ mailed' = [mailed EXCEPT ![v] = NoLink]
    BY <1>3 DEF Bump
  <2>5. \A u \in Users : (u # v => cred'[u] = cred[u]) /\ (cred[u] # None => cred'[u] # None)
    BY <1>0, <2>3, <2>4, ConstantTypes DEF Documents
  <2>6. \A u \in Users : mailed'[u] = IF u = v THEN NoLink ELSE mailed[u]
    BY <1>0, <2>4 DEF Documents
  <2>7. \A u \in Users : Works(u)'
    BY <2>1, <2>5, <2>6 DEF Mailing, Works, Sound
  <2>8. ASSUME NEW s \in Requests, req[s].op = "email", req[s].at = "document" PROVE Mails(req[s])'
    <3>. PICK u : u = req[s].user
      OBVIOUS
    <3>1. u \in Users /\ cred[u] # None /\ (Sound(u) => cred[u].version = req[s].version)
      BY <1>0, <2>8, CarriesIs DEF Mailing, Mails, Locking
    <3>2. u = v => u \in torn'
      BY <1>3, <2>8 DEF Bump, At
    <3>3. req' = req
      BY <2>1
    <3>. QED
      BY <2>1, <2>5, <3>1, <3>2, <3>3 DEF Mails, Sound
  <2>9. \A s \in Requests : Mails(req[s])'
    BY <2>1, <2>8 DEF Mails
  <2>. QED
    BY <2>7, <2>9 DEF Mailing
<1>4. CASE UNCHANGED vars
  BY <1>4 DEF vars, accounts, mails, history, Mailing, Works, Mails, Sound
<1>. QED
  BY <1>1, <1>2, <1>3, <1>4 DEF Step

(* The link a change of address mailed last can be used, until a logout or *)
(* a reset of the password voids it: the credentials are read for the link *)
(* after the change has taken them away (admin.ts:533-536), and the sweep  *)
(* of older links comes before it.                                         *)
THEOREM TheLinkMailedWorks ==
  Spec => []MailedLinkWorks
<1>1. Init => Mailing
  BY IdleIs DEF Init, Mailing, Works, Mails
<1>2. Rooting /\ Mailing /\ [Next]_vars => Mailing'
  <2>. SUFFICES ASSUME Rooting, Mailing, [Next]_vars PROVE Mailing'
    OBVIOUS
  <2>1. Step
    BY StepIs DEF Step, Rooting
  <2>. QED
    BY <2>1, MailingKept
<1>3. Mailing => MailedLinkWorks
  BY DEF Mailing, Works, MailedLinkWorks
<1>. QED
  BY <1>1, <1>2, <1>3, RootingHolds, PTL DEF Spec

-----------------------------------------------------------------------------
(* A claim is backed by a pilot.                                           *)

(* What a request knows of a record, it knew, or has read now.              *)
LEMMA DocStep ==
  ASSUME NEW r \in Requests, RequestStep(r)
  PROVE  \/ req'[r].doc \in {req[r].doc, None}
         \/ req[r].op \in Locking \union {"myPilot"} /\ req'[r].doc = user[req[r].user]
         \/ Finds(r) \/ BeginsEdit(r)
<1>1. CASE BeginsRegister(r)
  BY <1>1, IdleIs DEF BeginsRegister, Enters, Same, Kin, Locking, Makers
<1>2. CASE BeginsFor(r)
  BY <1>2, IdleIs DEF BeginsFor, Enters, Same, Kin, Locking, Makers
<1>3. CASE BeginsMine(r)
  BY <1>3, IdleIs DEF BeginsMine, Enters, Same, Kin, Locking, Makers
<1>4. CASE BeginsNew(r)
  BY <1>4, IdleIs DEF BeginsNew, Enters, Same, Kin, Locking, Makers
<1>5. CASE Locks(r)
  BY <1>5, IdleIs DEF Locks, Goes, Same, Kin, Locking, Makers
<1>6. CASE Remints(r)
  BY <1>6, IdleIs DEF Remints, Goes, At, Same, Kin, Locking, Makers
<1>7. CASE Fails(r)
  BY <1>7, IdleIs DEF Fails, Goes, Same, Kin, Locking, Makers
<1>8. CASE Retries(r)
  BY <1>8, IdleIs DEF Retries, Goes, At, Same, Kin, Locking, Makers
<1>9. CASE Stops(r)
  BY <1>9, IdleIs DEF Stops, At, Ends, Same, Kin, Locking, Makers
<1>10. CASE Loses(r)
  BY <1>10, IdleIs DEF Loses, Reads, Same, Kin, Locking, Makers
<1>11. CASE ReadsVersion(r)
  BY <1>11, IdleIs DEF ReadsVersion, Reads, Same, Kin, Locking, Makers
<1>12. CASE ReadsRoles(r)
  BY <1>12, IdleIs DEF ReadsRoles, Reads, Same, Kin, Locking, Makers
<1>13. CASE ReadsDelete(r)
  BY <1>13, IdleIs DEF ReadsDelete, Reads, Same, Kin, Locking, Makers
<1>14. CASE ReadsEmail(r)
  BY <1>14, IdleIs DEF ReadsEmail, Reads, Same, Kin, Locking, Makers
<1>15. CASE ReadsAdmin(r)
  BY <1>15, IdleIs DEF ReadsAdmin, At, Same, Kin, Locking, Makers
<1>16. CASE ReadsMine(r)
  BY <1>16, IdleIs DEF ReadsMine, At, Same, Kin, Locking, Makers
<1>17. CASE BeginsVerify(r)
  BY <1>17, IdleIs DEF BeginsVerify, Enters, Same, Kin, Locking, Makers
<1>18. CASE RegisterCred(r) /\ Goes(r, "find")
  BY <1>18, IdleIs DEF RegisterCred, Goes, At, Same, Kin, Locking, Makers
<1>19. CASE RegisterUser(r) /\ Goes(r, "index")
  BY <1>19, IdleIs DEF RegisterUser, Goes, At, Same, Kin, Locking, Makers
<1>20. CASE WinsAddress(r)
  BY <1>20, IdleIs DEF WinsAddress, Goes, At, Same, Kin, Locking, Makers
<1>21. CASE Collects(r)
  BY <1>21, IdleIs DEF Collects, At, Same, Kin, Locking, Makers
<1>22. CASE RegisterAccept(r) /\ Goes(r, "mint")
  BY <1>22, IdleIs DEF RegisterAccept, Goes, At, Same, Kin, Locking, Makers
<1>23. CASE MintLink(r) /\ Ends(r)
  BY <1>23, IdleIs DEF MintLink, Ends, Same, Kin, Locking, Makers
<1>24. CASE VerifyCred(r) /\ Ends(r)
  BY <1>24, IdleIs DEF VerifyCred, Ends, At, Same, Kin, Locking, Makers
<1>25. CASE RolesWrite(r) /\ Ends(r)
  BY <1>25, IdleIs DEF RolesWrite, Ends, At, Same, Kin, Locking, Makers
<1>26. CASE DeleteTomb(r) /\ Goes(r, "unindex")
  BY <1>26, IdleIs DEF DeleteTomb, Goes, At, Same, Kin, Locking, Makers
<1>27. CASE DeleteIndex(r) /\ Goes(r, "uncred")
  BY <1>27, IdleIs DEF DeleteIndex, Goes, At, Same, Kin, Locking, Makers
<1>28. CASE Drops(r)
  BY <1>28, IdleIs DEF Drops, DeleteCred, Goes, At, Same, Kin, Locking, Makers
<1>29. CASE DeleteUser(r) /\ Ends(r)
  BY <1>29, IdleIs DEF DeleteUser, Ends, At, Same, Kin, Locking, Makers
<1>30. CASE MovesIndex(r)
  BY <1>30, IdleIs DEF MovesIndex, Goes, At, Same, Kin, Locking, Makers
<1>31. CASE Unverifies(r)
  BY <1>31, IdleIs DEF Unverifies, EmailUnverify, Goes, At, Same, Kin, Locking, Makers
<1>32. CASE EmailUser(r) /\ Goes(r, "sweep")
  BY <1>32, IdleIs DEF EmailUser, Goes, At, Same, Kin, Locking, Makers
<1>33. CASE EmailSweep(r) /\ Goes(r, "mint")
  BY <1>33, IdleIs DEF EmailSweep, Goes, At, Same, Kin, Locking, Makers
<1>34. CASE DeleteLink(r) /\ Goes(r, "unclaim")
  BY <1>34, IdleIs DEF DeleteLink, Goes, At, Same, Kin, Locking, Makers
<1>35. CASE DeleteClaim(r) /\ Goes(r, "unuser")
  BY <1>35, IdleIs DEF DeleteClaim, Goes, At, Same, Kin, Locking, Makers
<1>36. CASE MovesClaim(r)
  BY <1>36, IdleIs DEF MovesClaim, Goes, At, Same, Kin, Locking, Makers
<1>37. CASE LosesClaim(r)
  BY <1>37, IdleIs DEF LosesClaim, Ends, At, Same, Kin, Locking, Makers
<1>38. CASE AdminPilotEnsure(r) /\ Goes(r, "relist")
  BY <1>38, IdleIs DEF AdminPilotEnsure, Goes, At, Same, Kin, Locking, Makers
<1>39. CASE AdminPilotRelist(r) /\ Goes(r, "reclaim")
  BY <1>39, IdleIs DEF AdminPilotRelist, Goes, At, Same, Kin, Locking, Makers
<1>40. CASE AdminPilotReclaim(r) /\ Ends(r)
  BY <1>40, IdleIs DEF AdminPilotReclaim, Ends, At, Same, Kin, Locking, Makers
<1>41. CASE AdminPilotLink(r) /\ Ends(r)
  BY <1>41, IdleIs DEF AdminPilotLink, Ends, At, Same, Kin, Locking, Makers
<1>42. CASE Claims(r)
  BY <1>42, IdleIs DEF Claims, Same, Kin, Locking, Makers
<1>43. CASE WritePilot(r) /\ Goes(r, "list")
  BY <1>43, IdleIs DEF WritePilot, Goes, Same, Kin, Locking, Makers
<1>44. CASE Lists(r)
  BY <1>44, IdleIs DEF Lists, Goes, Ends, Same, Kin, Locking, Makers
<1>45. CASE MyPilotWrite(r) /\ Ends(r)
  BY <1>45, IdleIs DEF MyPilotWrite, Ends, At, Same, Kin, Locking, Makers
<1>46. CASE Undo(r) /\ Ends(r)
  BY <1>46, IdleIs DEF Undo, Ends, Same, Kin, Locking, Makers
<1>47. CASE Crash(r) /\ Ends(r)
  BY <1>47, IdleIs DEF Crash, Ends, Same, Kin, Locking, Makers
<1>. QED
  BY <1>1, <1>2, <1>3, <1>4, <1>5, <1>6, <1>7, <1>8, <1>9, <1>10, <1>11, <1>12, <1>13, <1>14,
     <1>15, <1>16, <1>17, <1>18, <1>19, <1>20, <1>21, <1>22, <1>23, <1>24, <1>25, <1>26, <1>27,
     <1>28, <1>29, <1>30, <1>31, <1>32, <1>33, <1>34, <1>35, <1>36, <1>37, <1>38, <1>39, <1>40,
     <1>41, <1>42, <1>43, <1>44, <1>45, <1>46, <1>47 DEF RequestStep, QuietStep, AccountStep,
     PilotStep

(* The ways of a request that makes or edits a pilot.                      *)
LEMMA MakerStep ==
  ASSUME NEW r \in Requests, RequestStep(r), req'[r].op \in Makers \union {"editPilot"}
  PROVE  \/ req'[r].op = "adminPilot" /\ req'[r].at = "lock" /\ BeginsFor(r)
         \/ BeginsMine(r) \/ BeginsNew(r) \/ BeginsEdit(r)
         \/ /\ req'[r].op = req[r].op /\ req'[r].user = req[r].user /\ req'[r].pilot = req[r].pilot
            /\ \/ Locks(r) \/ ReadsAdmin(r) \/ ReadsMine(r) \/ Fails(r) \/ Claims(r)
               \/ AdminPilotEnsure(r) /\ Goes(r, "relist")
               \/ AdminPilotRelist(r) /\ Goes(r, "reclaim")
               \/ WritePilot(r) /\ Goes(r, "list")
               \/ Lists(r) /\ Goes(r, "link")
<1>1. CASE BeginsRegister(r)
  BY <1>1, IdleIs DEF BeginsRegister, Enters, Same, Kin, Locking, Makers
<1>2. CASE BeginsFor(r)
  BY <1>2, IdleIs DEF BeginsFor, Enters, Same, Kin, Locking, Makers
<1>3. CASE BeginsMine(r)
  BY <1>3, IdleIs DEF BeginsMine, Enters, Same, Kin, Locking, Makers
<1>4. CASE BeginsNew(r)
  BY <1>4, IdleIs DEF BeginsNew, Enters, Same, Kin, Locking, Makers
<1>5. CASE BeginsEdit(r)
  BY <1>5, IdleIs DEF BeginsEdit, Enters, Same, Kin, Locking, Makers
<1>6. CASE Locks(r)
  BY <1>6, IdleIs DEF Locks, Goes, Same, Kin, Locking, Makers
<1>7. CASE Remints(r)
  BY <1>7, IdleIs DEF Remints, Goes, At, Same, Kin, Locking, Makers
<1>8. CASE Fails(r)
  BY <1>8, IdleIs DEF Fails, Goes, Same, Kin, Locking, Makers
<1>9. CASE Retries(r)
  BY <1>9, IdleIs DEF Retries, Goes, At, Same, Kin, Locking, Makers
<1>10. CASE Stops(r)
  BY <1>10, IdleIs DEF Stops, At, Ends, Same, Kin, Locking, Makers
<1>11. CASE Finds(r)
  BY <1>11, IdleIs DEF Finds, Reads, Same, Kin, Locking, Makers
<1>12. CASE Loses(r)
  BY <1>12, IdleIs DEF Loses, Reads, Same, Kin, Locking, Makers
<1>13. CASE ReadsVersion(r)
  BY <1>13, IdleIs DEF ReadsVersion, Reads, Same, Kin, Locking, Makers
<1>14. CASE ReadsRoles(r)
  BY <1>14, IdleIs DEF ReadsRoles, Reads, Same, Kin, Locking, Makers
<1>15. CASE ReadsDelete(r)
  BY <1>15, IdleIs DEF ReadsDelete, Reads, Same, Kin, Locking, Makers
<1>16. CASE ReadsEmail(r)
  BY <1>16, IdleIs DEF ReadsEmail, Reads, Same, Kin, Locking, Makers
<1>17. CASE ReadsAdmin(r)
  BY <1>17, IdleIs DEF ReadsAdmin, At, Same, Kin, Locking, Makers
<1>18. CASE ReadsMine(r)
  BY <1>18, IdleIs DEF ReadsMine, At, Same, Kin, Locking, Makers
<1>19. CASE BeginsVerify(r)
  BY <1>19, IdleIs DEF BeginsVerify, Enters, Same, Kin, Locking, Makers
<1>20. CASE RegisterCred(r) /\ Goes(r, "find")
  BY <1>20, IdleIs DEF RegisterCred, Goes, At, Same, Kin, Locking, Makers
<1>21. CASE RegisterUser(r) /\ Goes(r, "index")
  BY <1>21, IdleIs DEF RegisterUser, Goes, At, Same, Kin, Locking, Makers
<1>22. CASE WinsAddress(r)
  BY <1>22, IdleIs DEF WinsAddress, Goes, At, Same, Kin, Locking, Makers
<1>23. CASE Collects(r)
  BY <1>23, IdleIs DEF Collects, At, Same, Kin, Locking, Makers
<1>24. CASE RegisterAccept(r) /\ Goes(r, "mint")
  BY <1>24, IdleIs DEF RegisterAccept, Goes, At, Same, Kin, Locking, Makers
<1>25. CASE MintLink(r) /\ Ends(r)
  BY <1>25, IdleIs DEF MintLink, Ends, Same, Kin, Locking, Makers
<1>26. CASE VerifyCred(r) /\ Ends(r)
  BY <1>26, IdleIs DEF VerifyCred, Ends, At, Same, Kin, Locking, Makers
<1>27. CASE RolesWrite(r) /\ Ends(r)
  BY <1>27, IdleIs DEF RolesWrite, Ends, At, Same, Kin, Locking, Makers
<1>28. CASE DeleteTomb(r) /\ Goes(r, "unindex")
  BY <1>28, IdleIs DEF DeleteTomb, Goes, At, Same, Kin, Locking, Makers
<1>29. CASE DeleteIndex(r) /\ Goes(r, "uncred")
  BY <1>29, IdleIs DEF DeleteIndex, Goes, At, Same, Kin, Locking, Makers
<1>30. CASE Drops(r)
  BY <1>30, IdleIs DEF Drops, DeleteCred, Goes, At, Same, Kin, Locking, Makers
<1>31. CASE DeleteUser(r) /\ Ends(r)
  BY <1>31, IdleIs DEF DeleteUser, Ends, At, Same, Kin, Locking, Makers
<1>32. CASE MovesIndex(r)
  BY <1>32, IdleIs DEF MovesIndex, Goes, At, Same, Kin, Locking, Makers
<1>33. CASE Unverifies(r)
  BY <1>33, IdleIs DEF Unverifies, EmailUnverify, Goes, At, Same, Kin, Locking, Makers
<1>34. CASE EmailUser(r) /\ Goes(r, "sweep")
  BY <1>34, IdleIs DEF EmailUser, Goes, At, Same, Kin, Locking, Makers
<1>35. CASE EmailSweep(r) /\ Goes(r, "mint")
  BY <1>35, IdleIs DEF EmailSweep, Goes, At, Same, Kin, Locking, Makers
<1>36. CASE DeleteLink(r) /\ Goes(r, "unclaim")
  BY <1>36, IdleIs DEF DeleteLink, Goes, At, Same, Kin, Locking, Makers
<1>37. CASE DeleteClaim(r) /\ Goes(r, "unuser")
  BY <1>37, IdleIs DEF DeleteClaim, Goes, At, Same, Kin, Locking, Makers
<1>38. CASE MovesClaim(r)
  BY <1>38, IdleIs DEF MovesClaim, Goes, At, Same, Kin, Locking, Makers
<1>39. CASE LosesClaim(r)
  BY <1>39, IdleIs DEF LosesClaim, Ends, At, Same, Kin, Locking, Makers
<1>40. CASE AdminPilotEnsure(r) /\ Goes(r, "relist")
  BY <1>40, IdleIs DEF AdminPilotEnsure, Goes, At, Same, Kin, Locking, Makers
<1>41. CASE AdminPilotRelist(r) /\ Goes(r, "reclaim")
  BY <1>41, IdleIs DEF AdminPilotRelist, Goes, At, Same, Kin, Locking, Makers
<1>42. CASE AdminPilotReclaim(r) /\ Ends(r)
  BY <1>42, IdleIs DEF AdminPilotReclaim, Ends, At, Same, Kin, Locking, Makers
<1>43. CASE AdminPilotLink(r) /\ Ends(r)
  BY <1>43, IdleIs DEF AdminPilotLink, Ends, At, Same, Kin, Locking, Makers
<1>44. CASE Claims(r)
  BY <1>44, IdleIs DEF Claims, Same, Kin, Locking, Makers
<1>45. CASE WritePilot(r) /\ Goes(r, "list")
  BY <1>45, IdleIs DEF WritePilot, Goes, Same, Kin, Locking, Makers
<1>46. CASE Lists(r)
  BY <1>46, IdleIs DEF Lists, Goes, Ends, Same, Kin, Locking, Makers
<1>47. CASE MyPilotWrite(r) /\ Ends(r)
  BY <1>47, IdleIs DEF MyPilotWrite, Ends, At, Same, Kin, Locking, Makers
<1>48. CASE Undo(r) /\ Ends(r)
  BY <1>48, IdleIs DEF Undo, Ends, Same, Kin, Locking, Makers
<1>49. CASE Crash(r) /\ Ends(r)
  BY <1>49, IdleIs DEF Crash, Ends, Same, Kin, Locking, Makers
<1>. QED
  BY <1>1, <1>2, <1>3, <1>4, <1>5, <1>6, <1>7, <1>8, <1>9, <1>10, <1>11, <1>12, <1>13, <1>14,
     <1>15, <1>16, <1>17, <1>18, <1>19, <1>20, <1>21, <1>22, <1>23, <1>24, <1>25, <1>26, <1>27,
     <1>28, <1>29, <1>30, <1>31, <1>32, <1>33, <1>34, <1>35, <1>36, <1>37, <1>38, <1>39, <1>40,
     <1>41, <1>42, <1>43, <1>44, <1>45, <1>46, <1>47, <1>48, <1>49 DEF RequestStep, QuietStep,
     AccountStep, PilotStep

Made(q) == q.op \in Makers /\ q.at \in {"pilot", "list", "link", "write", "undo"}

LEMMA MadeEnds ==
  ASSUME NEW r \in Requests, RequestStep(r), Made(req[r]), ~Made(req'[r])
  PROVE  \/ Undo(r) \/ Crash(r) \/ MyPilotWrite(r)
         \/ AdminPilotLink(r) \/ (Lists(r) /\ req[r].op = "newPilot")
<1>1. CASE BeginsRegister(r)
  BY <1>1, IdleIs DEF BeginsRegister, Enters, Same, Kin, Locking, Makers, Made
<1>2. CASE BeginsFor(r)
  BY <1>2, IdleIs DEF BeginsFor, Enters, Same, Kin, Locking, Makers, Made
<1>3. CASE BeginsMine(r)
  BY <1>3, IdleIs DEF BeginsMine, Enters, Same, Kin, Locking, Makers, Made
<1>4. CASE BeginsNew(r)
  BY <1>4, IdleIs DEF BeginsNew, Enters, Same, Kin, Locking, Makers, Made
<1>5. CASE BeginsEdit(r)
  BY <1>5, IdleIs DEF BeginsEdit, Enters, Same, Kin, Locking, Makers, Made
<1>6. CASE Locks(r)
  BY <1>6, IdleIs DEF Locks, Goes, Same, Kin, Locking, Makers, Made
<1>7. CASE Remints(r)
  BY <1>7, IdleIs DEF Remints, Goes, At, Same, Kin, Locking, Makers, Made
<1>8. CASE Fails(r)
  BY <1>8, IdleIs DEF Fails, Goes, Same, Kin, Locking, Makers, Made
<1>9. CASE Retries(r)
  BY <1>9, IdleIs DEF Retries, Goes, At, Same, Kin, Locking, Makers, Made
<1>10. CASE Stops(r)
  BY <1>10, IdleIs DEF Stops, At, Ends, Same, Kin, Locking, Makers, Made
<1>11. CASE Finds(r)
  BY <1>11, IdleIs DEF Finds, Reads, Same, Kin, Locking, Makers, Made
<1>12. CASE Loses(r)
  BY <1>12, IdleIs DEF Loses, Reads, Same, Kin, Locking, Makers, Made
<1>13. CASE ReadsVersion(r)
  BY <1>13, IdleIs DEF ReadsVersion, Reads, Same, Kin, Locking, Makers, Made
<1>14. CASE ReadsRoles(r)
  BY <1>14, IdleIs DEF ReadsRoles, Reads, Same, Kin, Locking, Makers, Made
<1>15. CASE ReadsDelete(r)
  BY <1>15, IdleIs DEF ReadsDelete, Reads, Same, Kin, Locking, Makers, Made
<1>16. CASE ReadsEmail(r)
  BY <1>16, IdleIs DEF ReadsEmail, Reads, Same, Kin, Locking, Makers, Made
<1>17. CASE ReadsAdmin(r)
  BY <1>17, IdleIs DEF ReadsAdmin, At, Same, Kin, Locking, Makers, Made
<1>18. CASE ReadsMine(r)
  BY <1>18, IdleIs DEF ReadsMine, At, Same, Kin, Locking, Makers, Made
<1>19. CASE BeginsVerify(r)
  BY <1>19, IdleIs DEF BeginsVerify, Enters, Same, Kin, Locking, Makers, Made
<1>20. CASE RegisterCred(r) /\ Goes(r, "find")
  BY <1>20, IdleIs DEF RegisterCred, Goes, At, Same, Kin, Locking, Makers, Made
<1>21. CASE RegisterUser(r) /\ Goes(r, "index")
  BY <1>21, IdleIs DEF RegisterUser, Goes, At, Same, Kin, Locking, Makers, Made
<1>22. CASE WinsAddress(r)
  BY <1>22, IdleIs DEF WinsAddress, Goes, At, Same, Kin, Locking, Makers, Made
<1>23. CASE Collects(r)
  BY <1>23, IdleIs DEF Collects, At, Same, Kin, Locking, Makers, Made
<1>24. CASE RegisterAccept(r) /\ Goes(r, "mint")
  BY <1>24, IdleIs DEF RegisterAccept, Goes, At, Same, Kin, Locking, Makers, Made
<1>25. CASE MintLink(r) /\ Ends(r)
  BY <1>25, IdleIs DEF MintLink, Ends, Same, Kin, Locking, Makers, Made
<1>26. CASE VerifyCred(r) /\ Ends(r)
  BY <1>26, IdleIs DEF VerifyCred, Ends, At, Same, Kin, Locking, Makers, Made
<1>27. CASE RolesWrite(r) /\ Ends(r)
  BY <1>27, IdleIs DEF RolesWrite, Ends, At, Same, Kin, Locking, Makers, Made
<1>28. CASE DeleteTomb(r) /\ Goes(r, "unindex")
  BY <1>28, IdleIs DEF DeleteTomb, Goes, At, Same, Kin, Locking, Makers, Made
<1>29. CASE DeleteIndex(r) /\ Goes(r, "uncred")
  BY <1>29, IdleIs DEF DeleteIndex, Goes, At, Same, Kin, Locking, Makers, Made
<1>30. CASE Drops(r)
  BY <1>30, IdleIs DEF Drops, DeleteCred, Goes, At, Same, Kin, Locking, Makers, Made
<1>31. CASE DeleteUser(r) /\ Ends(r)
  BY <1>31, IdleIs DEF DeleteUser, Ends, At, Same, Kin, Locking, Makers, Made
<1>32. CASE MovesIndex(r)
  BY <1>32, IdleIs DEF MovesIndex, Goes, At, Same, Kin, Locking, Makers, Made
<1>33. CASE Unverifies(r)
  BY <1>33, IdleIs DEF Unverifies, EmailUnverify, Goes, At, Same, Kin, Locking, Makers, Made
<1>34. CASE EmailUser(r) /\ Goes(r, "sweep")
  BY <1>34, IdleIs DEF EmailUser, Goes, At, Same, Kin, Locking, Makers, Made
<1>35. CASE EmailSweep(r) /\ Goes(r, "mint")
  BY <1>35, IdleIs DEF EmailSweep, Goes, At, Same, Kin, Locking, Makers, Made
<1>36. CASE DeleteLink(r) /\ Goes(r, "unclaim")
  BY <1>36, IdleIs DEF DeleteLink, Goes, At, Same, Kin, Locking, Makers, Made
<1>37. CASE DeleteClaim(r) /\ Goes(r, "unuser")
  BY <1>37, IdleIs DEF DeleteClaim, Goes, At, Same, Kin, Locking, Makers, Made
<1>38. CASE MovesClaim(r)
  BY <1>38, IdleIs DEF MovesClaim, Goes, At, Same, Kin, Locking, Makers, Made
<1>39. CASE LosesClaim(r)
  BY <1>39, IdleIs DEF LosesClaim, Ends, At, Same, Kin, Locking, Makers, Made
<1>40. CASE AdminPilotEnsure(r) /\ Goes(r, "relist")
  BY <1>40, IdleIs DEF AdminPilotEnsure, Goes, At, Same, Kin, Locking, Makers, Made
<1>41. CASE AdminPilotRelist(r) /\ Goes(r, "reclaim")
  BY <1>41, IdleIs DEF AdminPilotRelist, Goes, At, Same, Kin, Locking, Makers, Made
<1>42. CASE AdminPilotReclaim(r) /\ Ends(r)
  BY <1>42, IdleIs DEF AdminPilotReclaim, Ends, At, Same, Kin, Locking, Makers, Made
<1>43. CASE Claims(r)
  BY <1>43, IdleIs DEF Claims, Same, Kin, Locking, Makers, Made
<1>44. CASE WritePilot(r) /\ Goes(r, "list")
  BY <1>44, IdleIs DEF WritePilot, Goes, Same, Kin, Locking, Makers, Made
<1>45. CASE Lists(r)
  BY <1>45, IdleIs DEF Lists, Goes, Ends, Same, Kin, Locking, Makers, Made
<1>. QED
  BY <1>1, <1>2, <1>3, <1>4, <1>5, <1>6, <1>7, <1>8, <1>9, <1>10, <1>11, <1>12, <1>13, <1>14,
     <1>15, <1>16, <1>17, <1>18, <1>19, <1>20, <1>21, <1>22, <1>23, <1>24, <1>25, <1>26, <1>27,
     <1>28, <1>29, <1>30, <1>31, <1>32, <1>33, <1>34, <1>35, <1>36, <1>37, <1>38, <1>39, <1>40,
     <1>41, <1>42, <1>43, <1>44, <1>45 DEF RequestStep, QuietStep, AccountStep, PilotStep

(* The pilot of a record was there, was read, or is the one a request      *)
(* links.                                                                  *)
(* An administrator names the pilot of u by hand.                          *)
Relinks(r, u) ==
  /\ RolesWrite(r) /\ req[r].user = u /\ u \in relinked'
  /\ Nameable(user'[u].pilot) /\ (user'[u].pilot # None => user'[u].pilot \in torn')

LEMMA RecordNext ==
  ASSUME Types, NEW r \in Requests, RequestStep(r), NEW u \in Users, user'[u] # None
  PROVE  \/ user[u] # None /\ user'[u].pilot = user[u].pilot
         \/ req[r].user = u /\ Carries(req[r]) /\ user'[u].pilot = req[r].doc.pilot
         \/ Relinks(r, u)
         \/ /\ AdminPilotLink(r) \/ MyPilotWrite(r)
            /\ req[r].user = u /\ user'[u].pilot = req[r].pilot
<1>0. Documents
  BY DocumentsAre
<1>. PICK q : q = req[r]
  OBVIOUS
<1>1. SUFFICES ASSUME user'[u] # user[u]
               PROVE  \/ Carries(q) /\ user'[u].pilot = q.doc.pilot
                      \/ Relinks(r, u)
                      \/ (AdminPilotLink(r) \/ MyPilotWrite(r)) /\ user'[u].pilot = q.pilot
  BY OthersStay
<1>2. q.user = u
  BY <1>1, OthersStay
<1>3. CASE RegisterUser(r) \/ RegisterAccept(r)
  BY <1>0, <1>2, <1>3 DEF RegisterUser, RegisterAccept, At, Carries, Documents
<1>4. CASE Collects(r) \/ DeleteUser(r)
  BY <1>0, <1>2, <1>4 DEF Collects, DeleteUser, Documents
<1>5. CASE RolesWrite(r)
  BY <1>2, <1>5, RolesWriteIs DEF Relinks
<1>6. CASE EmailUser(r)
  <2>1. Carries(q) /\ user'[u] = [q.doc EXCEPT !.email = q.email]
    BY <1>0, <1>2, <1>6 DEF EmailUser, At, Carries, Documents
  <2>2. q.doc \in Records
    BY <2>1, CarriesIs
  <2>. QED
    BY <2>1, <2>2 DEF Records
<1>7. CASE MyPilotWrite(r)
  <2>1. Carries(q) /\ user'[u] = [q.doc EXCEPT !.pilot = q.pilot]
    BY <1>0, <1>2, <1>7 DEF MyPilotWrite, At, Carries, Documents
  <2>2. q.doc \in Records
    BY <2>1, CarriesIs
  <2>. QED
    BY <1>7, <2>1, <2>2 DEF Records
<1>8. CASE AdminPilotLink(r)
  <2>1. user[u] # None /\ user'[u] = [user[u] EXCEPT !.pilot = q.pilot]
    BY <1>0, <1>1, <1>2, <1>8 DEF AdminPilotLink, Documents
  <2>2. user[u] \in Records
    BY <1>0, <2>1 DEF Documents
  <2>. QED
    BY <1>8, <2>1, <2>2 DEF Records
<1>. QED
  BY <1>1, <1>3, <1>4, <1>5, <1>6, <1>7, <1>8, Writers

(* What names a pilot, named it before, read its claim, or links it.       *)
LEMMA NamedNext ==
  ASSUME Types, NEW r \in Requests, RequestStep(r), NEW p \in Pilots, Named(p)'
  PROVE  \/ Named(p)
         \/ Finds(r) /\ claims[req[r].email] = p /\ pilot[p] # None
         \/ RolesWrite(r) /\ p \in Linkable /\ p \in torn'
         \/ (AdminPilotLink(r) \/ MyPilotWrite(r)) /\ req[r].pilot = p
<1>0. Documents /\ Becomes(r)
  BY DocumentsAre, StepBecomes
<1>. PICK q : q = req[r]
  OBVIOUS
<1>1. Carries(q) /\ q.doc.pilot = p => Named(p)
  BY CarriesIs DEF Named
<1>2. \A u \in Users : user[u] # None /\ user[u].pilot = p => Named(p)
  BY DEF Named
<1>3. ASSUME NEW u \in Users, tomb'[u] # None, tomb'[u].pilot = p PROVE Named(p)
  <2>1. CASE tomb'[u] = tomb[u]
    BY <1>3, <2>1 DEF Named
  <2>2. CASE tomb'[u] # tomb[u]
    <3>1. DeleteTomb(r)
      BY <2>2, Writers
    <3>2. Carries(q) /\ tomb'[u] = q.doc
      BY <1>0, <2>2, <3>1 DEF DeleteTomb, At, Carries, Documents
    <3>. QED
      BY <1>1, <1>3, <3>2
  <2>. QED
    BY <2>1, <2>2
<1>4. ASSUME NEW u \in Users, user'[u] # None, user'[u].pilot = p, user'[u] # user[u]
      PROVE  \/ Named(p) \/ (RolesWrite(r) /\ p \in Linkable /\ p \in torn')
             \/ (AdminPilotLink(r) \/ MyPilotWrite(r)) /\ req[r].pilot = p
  BY <1>1, <1>2, <1>4, RecordNext, ConstantTypes DEF Relinks, Nameable
<1>5. ASSUME NEW s \in Requests, req'[s].doc \in Records, req'[s].doc.pilot = p
      PROVE  Named(p) \/ (Finds(r) /\ claims[req[r].email] = p /\ pilot[p] # None)
  <2>1. CASE req'[s].doc = req[s].doc
    BY <1>5, <2>1 DEF Named
  <2>2. CASE req'[s].doc # req[s].doc
    <3>1. s = r
      BY <1>0, <2>2 DEF Becomes
    <3>2. req'[r].doc # None
      BY <1>5, <3>1, ConstantTypes
    <3>3. ~BeginsEdit(r)
      <4>1. SUFFICES ASSUME BeginsEdit(r) PROVE FALSE
        OBVIOUS
      <4>2. req'[r].doc \in PilotDocs
        BY <1>0, <4>1 DEF BeginsEdit, Becomes, Shaped
      <4>. QED
        BY <1>5, <3>1, <4>2 DEF PilotDocs, Records
    <3>4. CASE q.op \in Locking \union {"myPilot"} /\ req'[r].doc = user[q.user]
      <4>1. q.user \in Users
        BY <3>4, CarriesIs
      <4>. QED
        BY <1>2, <1>5, <3>1, <3>2, <3>4, <4>1
    <3>5. CASE Finds(r)
      BY <1>5, <3>1, <3>5, ConstantTypes DEF Finds
    <3>. QED
      BY <2>2, <3>1, <3>2, <3>3, <3>4, <3>5, DocStep
  <2>. QED
    BY <2>1, <2>2
<1>6. \/ \E u \in Users : tomb'[u] # None /\ tomb'[u].pilot = p
      \/ \E u \in Users : user'[u] # None /\ user'[u].pilot = p
      \/ \E s \in Requests : req'[s].doc \in Records /\ req'[s].doc.pilot = p
  BY DEF Named
<1>. QED
  BY <1>2, <1>3, <1>4, <1>5, <1>6

LEMMA ClaimsNext ==
  ASSUME Types, NEW r \in Requests, RequestStep(r), NEW e \in Emails, NEW p \in Pilots, claims'[e] = p
  PROVE  \/ claims[e] = p
         \/ AdminPilotReclaim(r) /\ req[r].pilot = p
         \/ Claims(r) /\ req[r].pilot = p
         \/ MovesClaim(r) /\ Named(p) /\ req[r].doc.pilot = p
<1>0. Documents
  BY DocumentsAre
<1>1. CASE DeleteClaim(r)
  BY <1>0, <1>1, ConstantTypes DEF DeleteClaim, Documents
<1>2. CASE MovesClaim(r)
  <2>1. Carries(req[r])
    BY <1>2 DEF MovesClaim, At, Carries
  <2>2. req[r].doc \in Records
    BY <2>1, CarriesIs
  <2>3. claims[e] = p \/ req[r].doc.pilot = p
    BY <1>0, <1>2, ConstantTypes DEF MovesClaim, Documents
  <2>. QED
    BY <1>2, <2>2, <2>3 DEF Named
<1>3. CASE AdminPilotReclaim(r)
  BY <1>0, <1>3, ConstantTypes DEF AdminPilotReclaim, Documents
<1>4. CASE Claims(r)
  BY <1>0, <1>4, ConstantTypes DEF Claims, Documents
<1>5. CASE Undo(r)
  BY <1>0, <1>5, ConstantTypes DEF Undo, Documents
<1>. QED
  BY <1>1, <1>2, <1>3, <1>4, <1>5, Writers

(* The blob and the entry of a pilot go when a request that made it fails, *)
(* and not without a trace when others know of it.                         *)
LEMMA PilotStays ==
  ASSUME Types, NEW r \in Requests, RequestStep(r), NEW p \in Pilots
  PROVE  /\ pilot[p] # None =>
              \/ pilot'[p] # None
              \/ Undo(r) /\ req[r].op \in {"myPilot", "newPilot"} /\ req[r].pilot = p
         /\ pilot[p] = None =>
              pilot'[p] = None \/ ((AdminPilotEnsure(r) \/ WritePilot(r)) /\ req[r].pilot = p)
         /\ p \in listed =>
              \/ p \in listed'
              \/ Undo(r) /\ req[r].op = "myPilot" /\ req[r].pilot = p
         /\ p \notin listed =>
              p \notin listed' \/ ((AdminPilotRelist(r) \/ Lists(r)) /\ req[r].pilot = p)
<1>0. Documents /\ Shaped(req[r])
  BY DocumentsAre, RequestIs
<1>1. /\ pilot[p] # None =>
           pilot'[p] # None \/ (Undo(r) /\ req[r].op \in {"myPilot", "newPilot"} /\ req[r].pilot = p)
      /\ pilot[p] = None =>
           pilot'[p] = None \/ ((AdminPilotEnsure(r) \/ WritePilot(r)) /\ req[r].pilot = p)
  <2>1. CASE pilot' = pilot
    BY <2>1
  <2>2. CASE DeleteLink(r)
    <3>1. \A d \in PilotDocs : [d EXCEPT !.user = None] \in PilotDocs
      BY DEF PilotDocs
    <3>. PICK m : m = tomb[req[r].user].pilot
      OBVIOUS
    <3>2. pilot' = IF pilot[m] # None THEN [pilot EXCEPT ![m].user = None] ELSE pilot
      BY <2>2 DEF DeleteLink
    <3>3. CASE m = p /\ pilot[p] # None
      BY <1>0, <3>1, <3>2, <3>3, ConstantTypes DEF Documents
    <3>4. CASE ~(m = p /\ pilot[p] # None)
      BY <1>0, <3>2, <3>4 DEF Documents
    <3>. QED
      BY <3>3, <3>4
  <2>3. CASE AdminPilotEnsure(r)
    BY <1>0, <2>3 DEF AdminPilotEnsure, Documents
  <2>4. CASE WritePilot(r)
    <3>. PICK doc : doc = IF req[r].op = "editPilot" THEN req[r].doc ELSE [user |-> req[r].user]
      OBVIOUS
    <3>1. doc \in PilotDocs
      BY <1>0, CarriesIs DEF PilotDocs
    <3>2. pilot' = [pilot EXCEPT ![req[r].pilot] = doc]
      BY <2>4 DEF WritePilot
    <3>. QED
      BY <1>0, <2>4, <3>1, <3>2, ConstantTypes DEF Documents
  <2>5. CASE Undo(r)
    <3>1. req[r].op \in {"myPilot", "newPilot", "editPilot"}
      BY <1>0, <2>5, IdleIs DEF Undo, Shaped, Steps
    <3>. QED
      BY <1>0, <2>5, <3>1 DEF Undo, Documents
  <2>. QED
    BY <2>1, <2>2, <2>3, <2>4, <2>5, Writers
<1>2. /\ p \in listed => p \in listed' \/ (Undo(r) /\ req[r].op = "myPilot" /\ req[r].pilot = p)
      /\ p \notin listed =>
           p \notin listed' \/ ((AdminPilotRelist(r) \/ Lists(r)) /\ req[r].pilot = p)
  BY Writers DEF AdminPilotRelist, Lists, Undo
<1>. QED
  BY <1>1, <1>2

There(p) == pilot[p] # None /\ p \in listed

LEMMA ThereStays ==
  ASSUME Types, NEW r \in Requests, RequestStep(r), NEW p \in Pilots, There(p), p \notin torn'
  PROVE  There(p)'
<1>1. p \in listed
  BY DEF There
<1>2. ~(Undo(r) /\ req[r].op \in {"myPilot", "newPilot"} /\ req[r].pilot = p)
  BY <1>1 DEF Undo, Known
<1>. QED
  BY <1>2, PilotStays DEF There

LEMMA CarriesNext ==
  ASSUME NEW r \in Requests, RequestStep(r), Carries(req'[r])
  PROVE  \/ Finds(r) /\ req'[r].user = req[r].user
         \/ /\ req'[r].user = req[r].user
            /\ \/ req'[r].doc = user[req[r].user]
               \/ Carries(req[r]) /\ req'[r].doc = req[r].doc
<1>1. CASE BeginsRegister(r)
  BY <1>1, IdleIs DEF BeginsRegister, Enters, Same, Kin, Locking, Makers, Carries
<1>2. CASE BeginsFor(r)
  BY <1>2, IdleIs DEF BeginsFor, Enters, Same, Kin, Locking, Makers, Carries
<1>3. CASE BeginsMine(r)
  BY <1>3, IdleIs DEF BeginsMine, Enters, Same, Kin, Locking, Makers, Carries
<1>4. CASE BeginsNew(r)
  BY <1>4, IdleIs DEF BeginsNew, Enters, Same, Kin, Locking, Makers, Carries
<1>5. CASE BeginsEdit(r)
  BY <1>5, IdleIs DEF BeginsEdit, Enters, Same, Kin, Locking, Makers, Carries
<1>6. CASE Locks(r)
  BY <1>6, IdleIs DEF Locks, Goes, Same, Kin, Locking, Makers, Carries
<1>7. CASE Remints(r)
  BY <1>7, IdleIs DEF Remints, Goes, At, Same, Kin, Locking, Makers, Carries
<1>8. CASE Fails(r)
  BY <1>8, IdleIs DEF Fails, Goes, Same, Kin, Locking, Makers, Carries
<1>9. CASE Retries(r)
  BY <1>9, IdleIs DEF Retries, Goes, At, Same, Kin, Locking, Makers, Carries
<1>10. CASE Stops(r)
  BY <1>10, IdleIs DEF Stops, At, Ends, Same, Kin, Locking, Makers, Carries
<1>11. CASE Finds(r)
  BY <1>11, IdleIs DEF Finds, Reads, Same, Kin, Locking, Makers, Carries
<1>12. CASE Loses(r)
  BY <1>12, IdleIs DEF Loses, Reads, Same, Kin, Locking, Makers, Carries
<1>13. CASE ReadsVersion(r)
  BY <1>13, IdleIs DEF ReadsVersion, Reads, Same, Kin, Locking, Makers, Carries
<1>14. CASE ReadsRoles(r)
  BY <1>14, IdleIs DEF ReadsRoles, Reads, Same, Kin, Locking, Makers, Carries
<1>15. CASE ReadsDelete(r)
  BY <1>15, IdleIs DEF ReadsDelete, Reads, Same, Kin, Locking, Makers, Carries
<1>16. CASE ReadsEmail(r)
  BY <1>16, IdleIs DEF ReadsEmail, Reads, Same, Kin, Locking, Makers, Carries
<1>17. CASE ReadsAdmin(r)
  BY <1>17, IdleIs DEF ReadsAdmin, At, Same, Kin, Locking, Makers, Carries
<1>18. CASE ReadsMine(r)
  BY <1>18, IdleIs DEF ReadsMine, At, Same, Kin, Locking, Makers, Carries
<1>19. CASE BeginsVerify(r)
  BY <1>19, IdleIs DEF BeginsVerify, Enters, Same, Kin, Locking, Makers, Carries
<1>20. CASE RegisterCred(r) /\ Goes(r, "find")
  BY <1>20, IdleIs DEF RegisterCred, Goes, At, Same, Kin, Locking, Makers, Carries
<1>21. CASE RegisterUser(r) /\ Goes(r, "index")
  BY <1>21, IdleIs DEF RegisterUser, Goes, At, Same, Kin, Locking, Makers, Carries
<1>22. CASE WinsAddress(r)
  BY <1>22, IdleIs DEF WinsAddress, Goes, At, Same, Kin, Locking, Makers, Carries
<1>23. CASE Collects(r)
  BY <1>23, IdleIs DEF Collects, At, Same, Kin, Locking, Makers, Carries
<1>24. CASE RegisterAccept(r) /\ Goes(r, "mint")
  BY <1>24, IdleIs DEF RegisterAccept, Goes, At, Same, Kin, Locking, Makers, Carries
<1>25. CASE MintLink(r) /\ Ends(r)
  BY <1>25, IdleIs DEF MintLink, Ends, Same, Kin, Locking, Makers, Carries
<1>26. CASE VerifyCred(r) /\ Ends(r)
  BY <1>26, IdleIs DEF VerifyCred, Ends, At, Same, Kin, Locking, Makers, Carries
<1>27. CASE RolesWrite(r) /\ Ends(r)
  BY <1>27, IdleIs DEF RolesWrite, Ends, At, Same, Kin, Locking, Makers, Carries
<1>28. CASE DeleteTomb(r) /\ Goes(r, "unindex")
  BY <1>28, IdleIs DEF DeleteTomb, Goes, At, Same, Kin, Locking, Makers, Carries
<1>29. CASE DeleteIndex(r) /\ Goes(r, "uncred")
  BY <1>29, IdleIs DEF DeleteIndex, Goes, At, Same, Kin, Locking, Makers, Carries
<1>30. CASE Drops(r)
  BY <1>30, IdleIs DEF Drops, DeleteCred, Goes, At, Same, Kin, Locking, Makers, Carries
<1>31. CASE DeleteUser(r) /\ Ends(r)
  BY <1>31, IdleIs DEF DeleteUser, Ends, At, Same, Kin, Locking, Makers, Carries
<1>32. CASE MovesIndex(r)
  BY <1>32, IdleIs DEF MovesIndex, Goes, At, Same, Kin, Locking, Makers, Carries
<1>33. CASE Unverifies(r)
  BY <1>33, IdleIs DEF Unverifies, EmailUnverify, Goes, At, Same, Kin, Locking, Makers, Carries
<1>34. CASE EmailUser(r) /\ Goes(r, "sweep")
  BY <1>34, IdleIs DEF EmailUser, Goes, At, Same, Kin, Locking, Makers, Carries
<1>35. CASE EmailSweep(r) /\ Goes(r, "mint")
  BY <1>35, IdleIs DEF EmailSweep, Goes, At, Same, Kin, Locking, Makers, Carries
<1>36. CASE DeleteLink(r) /\ Goes(r, "unclaim")
  BY <1>36, IdleIs DEF DeleteLink, Goes, At, Same, Kin, Locking, Makers, Carries
<1>37. CASE DeleteClaim(r) /\ Goes(r, "unuser")
  BY <1>37, IdleIs DEF DeleteClaim, Goes, At, Same, Kin, Locking, Makers, Carries
<1>38. CASE MovesClaim(r)
  BY <1>38, IdleIs DEF MovesClaim, Goes, At, Same, Kin, Locking, Makers, Carries
<1>39. CASE LosesClaim(r)
  BY <1>39, IdleIs DEF LosesClaim, Ends, At, Same, Kin, Locking, Makers, Carries
<1>40. CASE AdminPilotEnsure(r) /\ Goes(r, "relist")
  BY <1>40, IdleIs DEF AdminPilotEnsure, Goes, At, Same, Kin, Locking, Makers, Carries
<1>41. CASE AdminPilotRelist(r) /\ Goes(r, "reclaim")
  BY <1>41, IdleIs DEF AdminPilotRelist, Goes, At, Same, Kin, Locking, Makers, Carries
<1>42. CASE AdminPilotReclaim(r) /\ Ends(r)
  BY <1>42, IdleIs DEF AdminPilotReclaim, Ends, At, Same, Kin, Locking, Makers, Carries
<1>43. CASE AdminPilotLink(r) /\ Ends(r)
  BY <1>43, IdleIs DEF AdminPilotLink, Ends, At, Same, Kin, Locking, Makers, Carries
<1>44. CASE Claims(r)
  BY <1>44, IdleIs DEF Claims, Same, Kin, Locking, Makers, Carries
<1>45. CASE WritePilot(r) /\ Goes(r, "list")
  BY <1>45, IdleIs DEF WritePilot, Goes, Same, Kin, Locking, Makers, Carries
<1>46. CASE Lists(r)
  BY <1>46, IdleIs DEF Lists, Goes, Ends, Same, Kin, Locking, Makers, Carries
<1>47. CASE MyPilotWrite(r) /\ Ends(r)
  BY <1>47, IdleIs DEF MyPilotWrite, Ends, At, Same, Kin, Locking, Makers, Carries
<1>48. CASE Undo(r) /\ Ends(r)
  BY <1>48, IdleIs DEF Undo, Ends, Same, Kin, Locking, Makers, Carries
<1>49. CASE Crash(r) /\ Ends(r)
  BY <1>49, IdleIs DEF Crash, Ends, Same, Kin, Locking, Makers, Carries
<1>. QED
  BY <1>1, <1>2, <1>3, <1>4, <1>5, <1>6, <1>7, <1>8, <1>9, <1>10, <1>11, <1>12, <1>13, <1>14,
     <1>15, <1>16, <1>17, <1>18, <1>19, <1>20, <1>21, <1>22, <1>23, <1>24, <1>25, <1>26, <1>27,
     <1>28, <1>29, <1>30, <1>31, <1>32, <1>33, <1>34, <1>35, <1>36, <1>37, <1>38, <1>39, <1>40,
     <1>41, <1>42, <1>43, <1>44, <1>45, <1>46, <1>47, <1>48, <1>49 DEF RequestStep, QuietStep,
     AccountStep, PilotStep

-----------------------------------------------------------------------------
(* How far a request has come with its pilot.                              *)

(* The record of u names the pilot, or what will be written there.         *)
Linked(u, p) ==
  \/ user[u] # None /\ user[u].pilot = p
  \/ \E r \in Requests : Carries(req[r]) /\ req[r].user = u /\ req[r].doc.pilot = p

(* Until it is listed, nobody else knows of a pilot that is made, and an   *)
(* edit is all that may happen to it after that.                           *)
Alone(r) ==
  LET p == req[r].pilot
      at == req[r].at
  IN req[r].op \in {"myPilot", "newPilot"} =>
       /\ at = "claim" => ~Named(p) /\ \A e \in Emails : claims[e] # p
       /\ at \in {"claim", "pilot"} => pilot[p] = None
       /\ at \in {"claim", "pilot", "list"} =>
            p \notin listed /\ \A s \in Requests \ {r} : req[s].pilot # p
       /\ \A s \in Requests \ {r} : req[s].pilot = p => req[s].op = "editPilot"

Staged(q) ==
  /\ q.op \in Makers /\ q.at \in {"list", "link", "write"} => pilot[q.pilot] # None
  /\ q.op \in Makers /\ q.at \in {"link", "write", "reclaim"} => q.pilot \in listed
  /\ q.op = "adminPilot" /\ q.at \in {"relist", "reclaim"} => pilot[q.pilot] # None
  /\ q.op = "adminPilot" /\ q.at = "ensure" /\ q.user \notin relinked => pilot[q.pilot] # None
  /\ q.op = "editPilot" =>
       /\ Sound(q.pilot) => There(q.pilot)
       /\ (\E u \in Users : OwnPilot[u] = q.pilot) => pilot[q.pilot] # None

(* A pilot that a record names, or an address is claimed for, is there, or *)
(* is being made; one made by an administrator stays.                      *)
Backed(p) ==
  Sound(p) /\ (Named(p) \/ \E e \in Emails : claims[e] = p) =>
    There(p) \/ \E r \in Requests : Made(req[r]) /\ req[r].pilot = p

Staging ==
  /\ \A r \in Requests : Alone(r) /\ Staged(req[r])
  /\ \A u \in Users \ relinked : Linked(u, OwnPilot[u]) => pilot[OwnPilot[u]] # None
  /\ \A p \in Pilots : Backed(p)

(* What a request has come to, it keeps while another steps.               *)
LEMMA MadeStays ==
  ASSUME Types, Staging, NEW r \in Requests, RequestStep(r), NEW s \in Requests,
         s # r \/ ~Undo(r), req[s].op \in Makers, NEW p, p = req[s].pilot
  PROVE  (pilot[p] # None => pilot'[p] # None) /\ (p \in listed => p \in listed')
<1>1. p \in Pilots
  BY CarriesIs
<1>2. CASE Undo(r) /\ req[r].op \in {"myPilot", "newPilot"} /\ req[r].pilot = p
  <2>1. s # r
    BY <1>2
  <2>2. req[s].op = "editPilot"
    BY <1>2, <2>1 DEF Staging, Alone
  <2>. QED
    BY <2>2 DEF Makers
<1>3. CASE ~(Undo(r) /\ req[r].op \in {"myPilot", "newPilot"} /\ req[r].pilot = p)
  BY <1>1, <1>3, PilotStays
<1>. QED
  BY <1>2, <1>3

LEMMA OwnStays ==
  ASSUME Types, NEW r \in Requests, RequestStep(r), NEW u \in Users, pilot[OwnPilot[u]] # None
  PROVE  pilot'[OwnPilot[u]] # None
<1>1. OwnPilot[u] \in Pilots /\ Shaped(req[r])
  BY RequestIs, ConstantTypes
<1>. QED
  BY <1>1, PilotStays DEF Shaped

LEMMA AloneKept ==
  ASSUME Types, Staging, NEW r \in Requests, RequestStep(r), NEW s \in Requests
  PROVE  Alone(s)'
<1>0. Documents /\ Becomes(r) /\ Shaped(req[r]) /\ Shaped(req[s])
  BY DocumentsAre, StepBecomes, RequestIs
<1>. PICK p : p = req'[s].pilot
  OBVIOUS
<1>. PICK at : at = req'[s].at
  OBVIOUS
<1>1. SUFFICES ASSUME req'[s].op \in {"myPilot", "newPilot"}
               PROVE  /\ at = "claim" => ~Named(p)' /\ \A e \in Emails : claims'[e] # p
                      /\ at \in {"claim", "pilot"} => pilot'[p] = None
                      /\ at \in {"claim", "pilot", "list"} =>
                           p \notin listed' /\ \A t \in Requests \ {s} : req'[t].pilot # p
                      /\ \A t \in Requests \ {s} : req'[t].pilot = p => req'[t].op = "editPilot"
  BY DEF Alone, Named
<1>2. Shaped(req'[s])
  BY <1>0 DEF Becomes
<1>3. p \in Pilots /\ p # None /\ \A u \in Users : OwnPilot[u] # p
  BY <1>1, <1>2, ConstantTypes DEF Shaped
<1>4. ASSUME ~Named(p), \A e \in Emails : claims[e] # p, req[r].pilot # p,
             p \notin Linkable \/ ~RolesWrite(r)
      PROVE  ~Named(p)' /\ \A e \in Emails : claims'[e] # p
  <2>1. ~Named(p)'
    BY <1>0, <1>3, <1>4, NamedNext, CarriesIs DEF Finds, Reads
  <2>. QED
    BY <1>3, <1>4, <2>1, ClaimsNext
<1>5. CASE s = r /\ (BeginsMine(r) \/ BeginsNew(r))
  <2>1. UnusedPilot(p) /\ Still
    BY <1>5 DEF BeginsMine, BeginsNew
  <2>2. /\ ~Named(p) /\ pilot[p] = None /\ p \notin listed
        /\ (\A e \in Emails : claims[e] # p) /\ \A t \in Requests : req[t].pilot # p
    BY <2>1 DEF UnusedPilot
  <2>3. \A t \in Requests \ {s} : req'[t].pilot # p
    BY <1>0, <1>5, <2>2 DEF Becomes
  <2>4. pilot' = pilot /\ listed' = listed
    BY <2>1 DEF Still, pilots
  <2>5. ~RolesWrite(r)
    BY <1>5, IdleIs DEF BeginsMine, BeginsNew, Enters, RolesWrite, At
  <2>. QED
    BY <1>4, <2>2, <2>3, <2>4, <2>5
<1>6. CASE s = r /\ ~BeginsMine(r) /\ ~BeginsNew(r)
  <2>1. /\ req'[r].op = req[r].op /\ req'[r].pilot = req[r].pilot
        /\ \/ Claims(r) \/ (WritePilot(r) /\ Goes(r, "list")) \/ Goes(r, "link") \/ ReadsMine(r) \/ Fails(r)
    BY <1>1, <1>6, MakerStep DEF Makers, BeginsFor, BeginsEdit, Locks, Locking, ReadsAdmin,
       AdminPilotEnsure, AdminPilotRelist, At
  <2>2. \A t \in Requests \ {r} : req'[t] = req[t]
    BY <1>0 DEF Becomes
  <2>3. Alone(r)
    BY DEF Staging
  <2>4. CASE Claims(r)
    BY <1>1, <1>6, <2>1, <2>2, <2>3, <2>4 DEF Claims, Alone
  <2>5. CASE WritePilot(r) /\ Goes(r, "list")
    BY <1>1, <1>6, <2>1, <2>2, <2>3, <2>5 DEF WritePilot, Goes, Alone
  <2>6. CASE Goes(r, "link") \/ ReadsMine(r) \/ Fails(r)
    BY <1>1, <1>6, <2>1, <2>2, <2>3, <2>6 DEF Goes, ReadsMine, Fails, Alone
  <2>. QED
    BY <2>1, <2>4, <2>5, <2>6
<1>7. CASE s # r
  <2>1. req'[s] = req[s]
    BY <1>0, <1>7 DEF Becomes
  <2>2. /\ at = "claim" => ~Named(p) /\ \A e \in Emails : claims[e] # p
        /\ at \in {"claim", "pilot"} => pilot[p] = None
        /\ at \in {"claim", "pilot", "list"} => p \notin listed /\ \A t \in Requests \ {s} : req[t].pilot # p
        /\ \A t \in Requests \ {s} : req[t].pilot = p => req[t].op = "editPilot"
    BY <1>1, <2>1 DEF Staging, Alone
  <2>3. ASSUME req'[r].pilot = p
        PROVE  req'[r].op = "editPilot" /\ (req[r].pilot = p \/ p \in listed)
    <3>1. req'[r].op \in Makers \union {"editPilot"}
      BY <1>0, <1>3, <2>3 DEF Becomes, Shaped
    <3>2. req'[r].op # "adminPilot"
      <4>1. SUFFICES ASSUME req'[r].op = "adminPilot" PROVE FALSE
        OBVIOUS
      <4>2. req'[r].user \in Users /\ req'[r].pilot = OwnPilot[req'[r].user]
        BY <1>0, <4>1 DEF Becomes, Shaped, Locking
      <4>. QED
        BY <1>3, <2>3, <4>2
    <3>3. ~BeginsMine(r) /\ ~BeginsNew(r)
      BY <2>1, <2>3 DEF BeginsMine, BeginsNew, UnusedPilot
    <3>4. CASE BeginsEdit(r)
      BY <2>3, <3>4 DEF BeginsEdit
    <3>5. CASE req'[r].op = req[r].op /\ req'[r].pilot = req[r].pilot
      BY <1>7, <2>2, <2>3, <3>5
    <3>. QED
      BY <3>1, <3>2, <3>3, <3>4, <3>5, MakerStep
  <2>4. \A t \in Requests \ {s} : req'[t].pilot = p => req'[t].op = "editPilot"
    BY <1>0, <2>2, <2>3 DEF Becomes
  <2>5. CASE at \in {"claim", "pilot", "list"}
    <3>1. req[r].pilot # p /\ p \notin listed /\ p \notin Linkable
      BY <1>1, <1>7, <2>1, <2>2, <2>5 DEF Linkable
    <3>2. p \notin listed' /\ \A t \in Requests \ {s} : req'[t].pilot # p
      BY <1>0, <1>3, <2>2, <2>3, <2>5, <3>1, PilotStays DEF Becomes
    <3>3. at \in {"claim", "pilot"} => pilot'[p] = None
      BY <1>3, <2>2, <3>1, PilotStays
    <3>. QED
      BY <1>4, <2>2, <2>4, <3>1, <3>2, <3>3
  <2>. QED
    BY <2>4, <2>5
<1>. QED
  BY <1>5, <1>6, <1>7

LEMMA StagedKept ==
  ASSUME Types, Staging, NEW r \in Requests, RequestStep(r), NEW s \in Requests,
         NEW q, q = req'[s], NEW p, p = q.pilot
  PROVE  /\ q.op \in Makers /\ q.at \in {"list", "link", "write"} => pilot'[p] # None
         /\ q.op \in Makers /\ q.at \in {"link", "write", "reclaim"} => p \in listed'
         /\ q.op = "adminPilot" /\ q.at \in {"relist", "reclaim"} => pilot'[p] # None
         /\ q.op = "adminPilot" /\ q.at = "ensure" /\ q.user \notin relinked' => pilot'[p] # None
         /\ q.op = "editPilot" => /\ Sound(p)' => There(p)'
                                  /\ (\E u \in Users : OwnPilot[u] = p) => pilot'[p] # None
<1>0. Documents /\ Becomes(r) /\ Shaped(req[r]) /\ Staged(req[s]) /\ relinked \subseteq relinked'
  BY DocumentsAre, StepBecomes, RequestIs, Writers DEF Staging
<1>1. ASSUME q.op = "editPilot", req[s].op = "editPilot", req[s].pilot = p
      PROVE  /\ Sound(p)' => There(p)'
             /\ (\E u \in Users : OwnPilot[u] = p) => pilot'[p] # None
  <2>1. p \in Pilots /\ (Sound(p)' => Sound(p) /\ p \notin torn')
    BY <1>1, CarriesIs, SoundBefore DEF Sound
  <2>2. Sound(p) => There(p)
    BY <1>0, <1>1 DEF Staged
  <2>3. (\E u \in Users : OwnPilot[u] = p) => pilot[p] # None
    BY <1>0, <1>1 DEF Staged
  <2>. QED
    BY <2>1, <2>2, <2>3, ThereStays, OwnStays
<1>2. CASE s # r
  <2>1. q = req[s]
    BY <1>0, <1>2 DEF Becomes
  <2>2. q.op \in Makers => (pilot[p] # None => pilot'[p] # None) /\ (p \in listed => p \in listed')
    BY <1>2, <2>1, MadeStays
  <2>. QED
    BY <1>0, <1>1, <2>1, <2>2 DEF Staged, Makers
<1>3. CASE s = r /\ q.op \in Makers \union {"editPilot"}
  <2>1. CASE q.op = "adminPilot" /\ q.at = "lock"
    BY <2>1
  <2>2. CASE BeginsMine(r) \/ BeginsNew(r)
    BY <1>3, <2>2 DEF BeginsMine, BeginsNew
  <2>3. CASE BeginsEdit(r)
    BY <1>3, <2>3 DEF BeginsEdit, Still, pilots, There, Makers
  <2>4. CASE /\ q.op = req[r].op /\ q.user = req[r].user /\ p = req[r].pilot
             /\ \/ Locks(r) \/ ReadsAdmin(r) \/ ReadsMine(r) \/ Fails(r) \/ Claims(r)
                \/ AdminPilotEnsure(r) /\ Goes(r, "relist")
                \/ AdminPilotRelist(r) /\ Goes(r, "reclaim")
                \/ WritePilot(r) /\ Goes(r, "list")
                \/ Lists(r) /\ Goes(r, "link")
    <3>1. q.op = "editPilot" => /\ Sound(p)' => There(p)'
                                /\ (\E u \in Users : OwnPilot[u] = p) => pilot'[p] # None
      BY <1>1, <1>3, <2>4
    <3>2. p \in Pilots
      BY <1>3, <2>4, CarriesIs
    <3>3. CASE Locks(r) \/ Fails(r) \/ Claims(r)
      BY <1>3, <3>1, <3>3 DEF Locks, Fails, Claims, Goes
    <3>4. CASE ReadsAdmin(r)
      <4>1. req[r].user \in Users /\ p = OwnPilot[req[r].user]
        BY <1>0, <2>4, <3>4 DEF ReadsAdmin, At, Shaped, Locking
      <4>2. q.at = "ensure" => user[req[r].user].pilot = p /\ user[req[r].user] # None
        BY <1>3, <2>4, <3>4 DEF ReadsAdmin
      <4>3. q.at = "ensure" => Linked(req[r].user, p)
        BY <4>2 DEF Linked
      <4>4. q.at = "ensure" /\ q.user \notin relinked' => pilot'[p] # None
        BY <2>4, <3>4, <4>1, <4>3 DEF Staging, ReadsAdmin, Still, pilots, history
      <4>. QED
        BY <1>3, <3>1, <3>4, <4>4 DEF ReadsAdmin
    <3>5. CASE ReadsMine(r)
      <4>1. req[r].at = "link" /\ req[r].op \in Makers /\ req[r].op # "adminPilot" /\ UNCHANGED <<pilot, listed>>
        BY <3>5 DEF ReadsMine, At, Makers, Still, pilots
      <4>2. q.op # "adminPilot" /\ q.op # "editPilot"
        BY <2>4, <3>5 DEF ReadsMine, At
      <4>. QED
        BY <1>0, <1>3, <2>4, <4>1, <4>2 DEF Staged
    <3>6. CASE AdminPilotEnsure(r) /\ Goes(r, "relist")
      <4>1. pilot'[p] # None
        <5>. PICK doc : doc = [user |-> req[r].user]
          OBVIOUS
        <5>1. doc \in PilotDocs
          BY CarriesIs DEF PilotDocs
        <5>2. pilot' = IF pilot[p] # None THEN pilot ELSE [pilot EXCEPT ![p] = doc]
          BY <2>4, <3>6 DEF AdminPilotEnsure
        <5>. QED
          BY <1>0, <3>2, <5>1, <5>2, ConstantTypes DEF Documents
      <4>. QED
        BY <1>3, <3>1, <3>6, <4>1 DEF Goes
    <3>7. CASE AdminPilotRelist(r) /\ Goes(r, "reclaim")
      <4>1. pilot[p] # None
        BY <1>0, <1>3, <2>4, <3>7 DEF Staged, AdminPilotRelist, At
      <4>. QED
        BY <1>3, <2>4, <3>1, <3>7, <4>1 DEF Goes, AdminPilotRelist
    <3>8. CASE WritePilot(r) /\ Goes(r, "list")
      <4>1. pilot'[p] # None
        <5>. PICK doc : doc = IF req[r].op = "editPilot" THEN req[r].doc ELSE [user |-> req[r].user]
          OBVIOUS
        <5>1. doc \in PilotDocs
          BY CarriesIs DEF PilotDocs
        <5>2. pilot' = [pilot EXCEPT ![p] = doc]
          BY <2>4, <3>8 DEF WritePilot
        <5>. QED
          BY <1>0, <3>2, <5>1, <5>2, ConstantTypes DEF Documents
      <4>. QED
        BY <1>3, <3>1, <3>8, <4>1 DEF Goes
    <3>9. CASE Lists(r) /\ Goes(r, "link")
      <4>1. q.op \in Makers => pilot[p] # None
        BY <1>0, <1>3, <2>4, <3>9 DEF Staged, Lists
      <4>. QED
        BY <1>3, <2>4, <3>1, <3>9, <4>1 DEF Goes, Lists
    <3>. QED
      BY <2>4, <3>3, <3>4, <3>5, <3>6, <3>7, <3>8, <3>9
  <2>. QED
    BY <1>3, <2>1, <2>2, <2>3, <2>4, MakerStep
<1>. QED
  BY <1>2, <1>3 DEF Makers

LEMMA OwnLinked ==
  ASSUME Types, Staging, NEW r \in Requests, RequestStep(r), NEW u \in Users, u \notin relinked',
         Linked(u, OwnPilot[u])'
  PROVE  pilot'[OwnPilot[u]] # None
<1>. PICK p \in Pilots : p = OwnPilot[u]
  BY ConstantTypes
<1>0. /\ Becomes(r) /\ Shaped(req[r]) /\ Shaped(req'[r]) /\ Staged(req[r]) /\ u \notin relinked
      /\ p # None
  BY StepBecomes, RequestIs, Writers, ConstantTypes DEF Staging, Becomes
<1>1. SUFFICES pilot[p] # None
  BY OwnStays
<1>2. Linked(u, p) => pilot[p] # None
  BY <1>0 DEF Staging
<1>3. CASE user'[u] # None /\ user'[u].pilot = p
  <2>1. ~(MyPilotWrite(r) /\ req[r].pilot = p)
    BY <1>0 DEF MyPilotWrite, At, Shaped
  <2>2. AdminPilotLink(r) /\ req[r].pilot = p => pilot[p] # None
    BY <1>0 DEF AdminPilotLink, At, Staged, Makers
  <2>. QED
    BY <1>2, <1>3, <2>1, <2>2, RecordNext DEF Linked, Relinks
<1>4. ASSUME NEW t \in Requests, Carries(req'[t]), req'[t].user = u, req'[t].doc.pilot = p
      PROVE  pilot[p] # None
  <2>1. CASE t # r
    BY <1>0, <1>2, <1>4, <2>1 DEF Becomes, Linked
  <2>2. CASE t = r /\ Finds(r)
    BY <1>0, <1>4, <2>2 DEF Finds
  <2>3. CASE t = r /\ req'[r].user = req[r].user /\ req'[r].doc = user[u]
    <3>1. user[u] # None
      BY <1>0, <1>4, <2>3, ConstantTypes DEF Shaped
    <3>. QED
      BY <1>2, <1>4, <2>3, <3>1 DEF Linked
  <2>4. CASE t = r /\ Carries(req[r]) /\ req'[r].user = req[r].user /\ req'[r].doc = req[r].doc
    BY <1>2, <1>4, <2>4 DEF Linked
  <2>. QED
    BY <1>4, <2>1, <2>2, <2>3, <2>4, CarriesNext
<1>. QED
  BY <1>3, <1>4 DEF Linked, Carries

LEMMA BackedKept ==
  ASSUME Types, Staging, NEW r \in Requests, RequestStep(r), NEW p \in Pilots, Sound(p)',
         Named(p)' \/ \E e \in Emails : claims'[e] = p
  PROVE  There(p)' \/ \E s \in Requests : Made(req'[s]) /\ req'[s].pilot = p
<1>0. Documents /\ Becomes(r) /\ Shaped(req[r]) /\ Staged(req[r]) /\ Sound(p) /\ p \notin torn' /\ p # None
  BY DocumentsAre, StepBecomes, RequestIs, SoundBefore, ConstantTypes DEF Staging, Sound
<1>1. CASE There(p)
  BY <1>0, <1>1, ThereStays
<1>2. CASE ~There(p)
  <2>1. ~((AdminPilotLink(r) \/ MyPilotWrite(r) \/ AdminPilotReclaim(r)) /\ req[r].pilot = p)
    BY <1>0, <1>2 DEF AdminPilotLink, MyPilotWrite, AdminPilotReclaim, At, Staged, Makers, There
  <2>2. CASE Claims(r) /\ req[r].pilot = p
    <3>1. req[r].op # "editPilot"
      BY <1>0, <1>2, <2>2 DEF Staged
    <3>2. Made(req'[r]) /\ req'[r].pilot = p
      BY <2>2, <3>1 DEF Claims, Made, Kin
    <3>. QED
      BY <3>2
  <2>3. CASE ~(Claims(r) /\ req[r].pilot = p)
    <3>1. Named(p) \/ \E e \in Emails : claims[e] = p
      <4>1. Finds(r) => req[r].email \in Emails
        BY CarriesIs DEF Finds, Reads
      <4>2. CASE Named(p)'
        BY <1>0, <2>1, <4>1, <4>2, NamedNext
      <4>3. CASE \E e \in Emails : claims'[e] = p
        BY <2>1, <2>3, <4>3, ClaimsNext
      <4>. QED
        BY <4>2, <4>3
    <3>2. PICK s \in Requests : Made(req[s]) /\ req[s].pilot = p
      BY <1>0, <1>2, <3>1 DEF Staging, Backed
    <3>3. CASE s # r
      BY <1>0, <3>2, <3>3 DEF Becomes
    <3>4. CASE s = r /\ Made(req'[r])
      <4>1. req[r] # Idle
        BY <3>2, <3>4, IdleIs DEF Made, Makers
      <4>2. req'[r].pilot = p
        BY <3>2, <3>4, <4>1, MakerStep DEF Made, Makers, BeginsFor, BeginsMine, BeginsNew,
           BeginsEdit, Enters
      <4>. QED
        BY <3>4, <4>2
    <3>5. CASE s = r /\ ~Made(req'[r])
      <4>1. ~Crash(r)
        BY <1>0, <3>2, <3>5 DEF Crash
      <4>2. ~Undo(r)
        <5>1. SUFFICES ASSUME Undo(r) PROVE FALSE
          OBVIOUS
        <5>2. ~Known(p, req[r].email)
          BY <1>0, <3>2, <3>5, <5>1 DEF Undo, Made, Makers
        <5>3. ~Named(p)'
          BY <1>0, <2>1, <5>1, <5>2, NamedNext DEF Known, Undo, Finds, Reads
        <5>4. \A e \in Emails : claims[e] = p => e = req[r].email
          BY <5>2 DEF Known
        <5>5. \A e \in Emails : claims'[e] # p
          BY <1>0, <3>2, <3>5, <5>1, <5>4 DEF Undo, Made, Makers, Documents
        <5>. QED
          BY <5>3, <5>5
      <4>3. Lists(r) /\ req[r].op = "newPilot"
        BY <2>1, <3>2, <3>5, <4>1, <4>2, MadeEnds
      <4>4. pilot[p] # None
        BY <1>0, <3>2, <3>5, <4>3 DEF Staged, Lists, Makers
      <4>. QED
        BY <3>2, <3>5, <4>3, <4>4 DEF Lists, There
    <3>. QED
      BY <3>3, <3>4, <3>5
  <2>. QED
    BY <2>2, <2>3
<1>. QED
  BY <1>1, <1>2

LEMMA StagingKept ==
  ASSUME Types, Staging, Step
  PROVE  Staging'
<1>1. CASE \E r \in Requests : RequestStep(r)
  <2>. PICK r \in Requests : RequestStep(r)
    BY <1>1
  <2>1. ASSUME NEW s \in Requests PROVE Alone(s)'
    BY AloneKept
  <2>2. ASSUME NEW s \in Requests PROVE Staged(req[s])'
    <3>. PICK q : q = req'[s]
      OBVIOUS
    <3>. PICK p : p = q.pilot
      OBVIOUS
    <3>1. /\ q.op \in Makers /\ q.at \in {"list", "link", "write"} => pilot'[p] # None
          /\ q.op \in Makers /\ q.at \in {"link", "write", "reclaim"} => p \in listed'
          /\ q.op = "adminPilot" /\ q.at \in {"relist", "reclaim"} => pilot'[p] # None
          /\ q.op = "adminPilot" /\ q.at = "ensure" /\ q.user \notin relinked' => pilot'[p] # None
          /\ q.op = "editPilot" => /\ Sound(p)' => There(p)'
                                   /\ (\E u \in Users : OwnPilot[u] = p) => pilot'[p] # None
      BY StagedKept
    <3>. QED
      BY <3>1 DEF Staged, Sound, There
  <2>3. ASSUME NEW u \in Users, u \notin relinked', Linked(u, OwnPilot[u])'
        PROVE  pilot'[OwnPilot[u]] # None
    BY <2>3, OwnLinked
  <2>4. ASSUME NEW p \in Pilots PROVE Backed(p)'
    BY BackedKept DEF Backed
  <2>. QED
    BY <2>1, <2>2, <2>3, <2>4 DEF Staging, Linked, Carries
<1>2. CASE UNCHANGED <<user, tomb, pilots, req, lost, relinked>> /\ torn \subseteq torn'
  BY <1>2 DEF Staging, Alone, Staged, Backed, Named, Linked, Carries, Made, There, Sound, pilots
<1>3. ASSUME NEW u \in Users, AdminVerify(u) \/ Bump(u) PROVE Staging'
  BY <1>2, <1>3 DEF AdminVerify, Bump, history
<1>4. CASE UNCHANGED vars
  BY <1>2, <1>4 DEF vars, accounts, history
<1>. QED
  BY <1>1, <1>3, <1>4 DEF Step

-----------------------------------------------------------------------------
(* Whose a pilot is.                                                       *)

(* The pilot a request makes, or the one made for u by an administrator.   *)
Mine(v, p) ==
  \/ v \in Users /\ p = OwnPilot[v]
  \/ \E r \in Requests :
       req[r].op \in {"myPilot", "newPilot"} /\ req[r].pilot = p /\ req[r].user = v
Owned ==
  \A v \in Users \union {None}, p \in Pilots : Mine(v, p) =>
    /\ pilot[p] # None => pilot[p].user \in {None, v}
    /\ \A s \in Requests : req[s].op = "editPilot" /\ req[s].pilot = p => req[s].doc.user \in {None, v}

(* The record of a user who makes a pilot does not name it yet, unless an  *)
(* administrator wrote it there.                                           *)
Unlinked(q) ==
  q.op = "myPilot" /\ q.user \notin relinked => ~Linked(q.user, q.pilot)

(* Whose the blob of a pilot says it is.                                   *)
Belongs(p, u) == pilot[p] # None /\ pilot[p].user = u

(* How the blob of a pilot comes to be of u.                               *)
LEMMA WritesBlob ==
  ASSUME Types, NEW r \in Requests, RequestStep(r), NEW p \in Pilots, pilot'[p] # None
  PROVE  \/ pilot[p] # None /\ pilot'[p] = pilot[p]
         \/ DeleteLink(r) /\ tomb[req[r].user].pilot = p /\ pilot[p] # None /\ pilot'[p].user = None
         \/ AdminPilotEnsure(r) /\ req[r].pilot = p /\ pilot[p] = None /\ pilot'[p].user = req[r].user
         \/ /\ WritePilot(r) /\ req[r].pilot = p
            /\ pilot'[p].user = IF req[r].op = "editPilot" THEN req[r].doc.user ELSE req[r].user
<1>0. Documents
  BY DocumentsAre
<1>1. CASE pilot' = pilot
  BY <1>1
<1>2. CASE DeleteLink(r)
  <2>1. \A d \in PilotDocs : [d EXCEPT !.user = None].user = None
    BY DEF PilotDocs
  <2>. PICK m : m = tomb[req[r].user].pilot
    OBVIOUS
  <2>2. pilot' = IF pilot[m] # None THEN [pilot EXCEPT ![m] = [@ EXCEPT !.user = None]] ELSE pilot
    BY <1>2 DEF DeleteLink
  <2>3. CASE m = p /\ pilot[p] # None
    BY <1>0, <1>2, <2>1, <2>2, <2>3 DEF Documents
  <2>4. CASE ~(m = p /\ pilot[p] # None)
    BY <1>0, <2>2, <2>4 DEF Documents
  <2>. QED
    BY <2>3, <2>4
<1>3. CASE AdminPilotEnsure(r)
  <2>. PICK doc : doc = [user |-> req[r].user]
    OBVIOUS
  <2>1. doc.user = req[r].user
    OBVIOUS
  <2>2. pilot' = IF pilot[req[r].pilot] # None THEN pilot ELSE [pilot EXCEPT ![req[r].pilot] = doc]
    BY <1>3 DEF AdminPilotEnsure
  <2>. QED
    BY <1>0, <1>3, <2>1, <2>2 DEF Documents
<1>4. CASE WritePilot(r)
  <2>. PICK doc : doc = IF req[r].op = "editPilot" THEN req[r].doc ELSE [user |-> req[r].user]
    OBVIOUS
  <2>1. doc.user = IF req[r].op = "editPilot" THEN req[r].doc.user ELSE req[r].user
    OBVIOUS
  <2>2. pilot' = [pilot EXCEPT ![req[r].pilot] = doc]
    BY <1>4 DEF WritePilot
  <2>. QED
    BY <1>0, <1>4, <2>1, <2>2 DEF Documents
<1>5. CASE Undo(r)
  BY <1>0, <1>5 DEF Undo, Documents
<1>. QED
  BY <1>1, <1>2, <1>3, <1>4, <1>5, Writers

LEMMA MineNext ==
  ASSUME Types, NEW r \in Requests, RequestStep(r), NEW v, NEW p \in Pilots, Mine(v, p)'
  PROVE  Mine(v, p) \/ ((BeginsMine(r) \/ BeginsNew(r)) /\ UnusedPilot(p))
<1>0. Becomes(r)
  BY StepBecomes
<1>1. CASE v \in Users /\ p = OwnPilot[v]
  BY <1>1 DEF Mine
<1>2. CASE \E s \in Requests :
             req'[s].op \in {"myPilot", "newPilot"} /\ req'[s].pilot = p /\ req'[s].user = v
  <2>. PICK s \in Requests :
             req'[s].op \in {"myPilot", "newPilot"} /\ req'[s].pilot = p /\ req'[s].user = v
    BY <1>2
  <2>1. CASE s # r
    BY <1>0, <2>1 DEF Becomes, Mine
  <2>2. CASE s = r /\ (BeginsMine(r) \/ BeginsNew(r))
    BY <2>2 DEF BeginsMine, BeginsNew
  <2>3. CASE s = r /\ ~BeginsMine(r) /\ ~BeginsNew(r)
    <3>1. req'[r].op = req[r].op /\ req'[r].pilot = req[r].pilot /\ req'[r].user = req[r].user
      BY <2>3, MakerStep DEF Makers, BeginsEdit
    <3>. QED
      BY <2>3, <3>1 DEF Mine
  <2>. QED
    BY <2>1, <2>2, <2>3
<1>. QED
  BY <1>1, <1>2 DEF Mine

(* Two who make a pilot are one.                                           *)
LEMMA MineOnce ==
  ASSUME Types, Staging, NEW v \in Users \union {None}, NEW p \in Pilots, Mine(v, p),
         NEW r \in Requests, req[r].op \in Makers, req[r].pilot = p
  PROVE  req[r].user = v
<1>0. Shaped(req[r]) /\ Alone(r)
  BY RequestIs DEF Staging
<1>1. CASE v \in Users /\ p = OwnPilot[v]
  <2>1. req[r].op = "adminPilot"
    BY <1>0, <1>1 DEF Shaped, Makers
  <2>. QED
    BY <1>0, <1>1, <2>1, OwnPilots DEF Shaped, Locking
<1>2. CASE \E s \in Requests : req[s].op \in {"myPilot", "newPilot"} /\ req[s].pilot = p /\ req[s].user = v
  <2>. PICK s \in Requests : req[s].op \in {"myPilot", "newPilot"} /\ req[s].pilot = p /\ req[s].user = v
    BY <1>2
  <2>1. s # r => req[r].op = "editPilot"
    BY DEF Staging, Alone
  <2>. QED
    BY <2>1 DEF Makers
<1>. QED
  BY <1>1, <1>2 DEF Mine

LEMMA OwnedKept ==
  ASSUME Types, Staging, Owned, NEW r \in Requests, RequestStep(r),
         NEW v \in Users \union {None}, NEW p \in Pilots, Mine(v, p)'
  PROVE  /\ pilot'[p] # None => pilot'[p].user \in {None, v}
         /\ \A s \in Requests :
              req'[s].op = "editPilot" /\ req'[s].pilot = p => req'[s].doc.user \in {None, v}
<1>0. Documents /\ Becomes(r)
  BY DocumentsAre, StepBecomes
<1>1. CASE (BeginsMine(r) \/ BeginsNew(r)) /\ UnusedPilot(p)
  <2>1. pilot' = pilot /\ pilot[p] = None
    BY <1>1 DEF BeginsMine, BeginsNew, Still, pilots, UnusedPilot
  <2>2. \A s \in Requests : req[s].pilot # p
    BY <1>1 DEF UnusedPilot
  <2>3. req'[r].op # "editPilot"
    BY <1>1 DEF BeginsMine, BeginsNew
  <2>. QED
    BY <1>0, <2>1, <2>2, <2>3 DEF Becomes
<1>2. CASE Mine(v, p)
  <2>0. /\ pilot[p] # None => pilot[p].user \in {None, v}
        /\ \A s \in Requests :
             req[s].op = "editPilot" /\ req[s].pilot = p => req[s].doc.user \in {None, v}
    BY <1>2 DEF Owned
  <2>1. pilot'[p] # None => pilot'[p].user \in {None, v}
    <3>1. AdminPilotEnsure(r) => req[r].op \in Makers
      BY DEF AdminPilotEnsure, At, Makers
    <3>2. WritePilot(r) => req[r].op \in Makers \union {"editPilot"}
      BY RequestIs, IdleIs DEF WritePilot, Shaped, Steps, Makers
    <3>. QED
      BY <1>2, <2>0, <3>1, <3>2, WritesBlob, MineOnce
  <2>2. ASSUME NEW s \in Requests, req'[s].op = "editPilot", req'[s].pilot = p
        PROVE  req'[s].doc.user \in {None, v}
    <3>1. CASE s # r
      BY <1>0, <2>0, <2>2, <3>1 DEF Becomes
    <3>2. CASE s = r
      BY <2>0, <2>2, <3>2, EditsStay DEF BeginsEdit
    <3>. QED
      BY <3>1, <3>2
  <2>. QED
    BY <2>1, <2>2
<1>. QED
  BY <1>1, <1>2, MineNext

LEMMA UnlinkedKept ==
  ASSUME Rooting, Staging, \A t \in Requests : Unlinked(req[t]), NEW r \in Requests, RequestStep(r),
         NEW s \in Requests, req'[s].op = "myPilot", NEW p, p = req'[s].pilot, NEW v, v = req'[s].user,
         v \notin relinked'
  PROVE  /\ user'[v] # None => user'[v].pilot # p
         /\ \A t \in Requests : Carries(req'[t]) /\ req'[t].user = v => req'[t].doc.pilot # p
<1>0. Types /\ Documents /\ Becomes(r) /\ Shaped(req'[s]) /\ Origins /\ Newcomers
  <2>1. Types /\ Documents /\ Becomes(r) /\ Origins /\ Newcomers
    BY DocumentsAre, StepBecomes DEF Rooting
  <2>2. Shaped(req'[s])
    BY <2>1, RequestIs DEF Becomes
  <2>. QED
    BY <2>1, <2>2
<1>1. p \in Pilots /\ v \in Users
  BY <1>0 DEF Shaped
<1>2. CASE s = r /\ BeginsMine(r)
  <2>1. UnusedPilot(p) /\ Still
    BY <1>2 DEF BeginsMine
  <2>2. ~Named(p) /\ \A t \in Requests : req[t].pilot # p
    BY <2>1 DEF UnusedPilot
  <2>3. ~Carries(req'[r]) /\ user' = user
    BY <1>2 DEF BeginsMine, Carries, Still, accounts
  <2>4. user[v] # None => user[v].pilot # p
    BY <1>1, <2>2 DEF Named
  <2>5. ASSUME NEW t \in Requests, t # r, Carries(req[t]) PROVE req[t].doc.pilot # p
    BY <1>0, <2>2, <2>5, CarriesIs DEF Named
  <2>. QED
    BY <1>0, <2>3, <2>4, <2>5 DEF Becomes
<1>3. CASE ~(s = r /\ BeginsMine(r))
  <2>1. req[s].op = "myPilot" /\ req[s].pilot = p /\ req[s].user = v
    <3>1. CASE s # r
      BY <1>0, <3>1 DEF Becomes
    <3>2. CASE s = r
      BY <1>3, <3>2, MakerStep DEF Makers, BeginsNew, BeginsEdit
    <3>. QED
      BY <3>1, <3>2
  <2>2. /\ user[v] # None => user[v].pilot # p
        /\ \A t \in Requests : Carries(req[t]) /\ req[t].user = v => req[t].doc.pilot # p
    BY <1>0, <2>1, Writers DEF Unlinked, Linked
  <2>3. \A t \in Requests : t # s /\ req[t].pilot = p => req[t].op = "editPilot"
    BY <2>1 DEF Staging, Alone
  <2>4. ~((AdminPilotLink(r) \/ MyPilotWrite(r)) /\ req[r].pilot = p)
    <3>1. SUFFICES ASSUME AdminPilotLink(r) \/ MyPilotWrite(r), req[r].pilot = p PROVE FALSE
      OBVIOUS
    <3>2. s = r
      BY <2>3, <3>1 DEF AdminPilotLink, MyPilotWrite, At
    <3>3. MyPilotWrite(r)
      BY <2>1, <3>1, <3>2 DEF AdminPilotLink, At
    <3>4. req'[r] = Idle
      BY <1>0, <3>3, RequestIs DEF MyPilotWrite, Finish
    <3>. QED
      BY <3>2, <3>4, IdleIs
  <2>5. user'[v] # None => user'[v].pilot # p
    BY <1>0, <1>1, <2>2, <2>4, RecordNext DEF Relinks
  <2>6. ASSUME NEW t \in Requests, Carries(req'[t]), req'[t].user = v PROVE req'[t].doc.pilot # p
    <3>1. CASE t # r
      BY <1>0, <2>2, <2>6, <3>1 DEF Becomes
    <3>2. CASE t = r
      <4>1. ~(Finds(r) /\ req[r].user = v)
        <5>1. SUFFICES ASSUME Finds(r), req[r].user = v PROVE FALSE
          OBVIOUS
        <5>2. Newcomer(req[r]) /\ s # r
          BY <2>1, <5>1 DEF Finds, Reads, Newcomer
        <5>. QED
          BY <1>0, <2>1, <5>1, <5>2 DEF Newcomers
      <4>2. req'[r].doc \in Records
        BY <1>0, <2>6, <3>2 DEF Becomes, Shaped
      <4>. QED
        BY <2>2, <2>6, <3>2, <4>1, <4>2, CarriesNext, ConstantTypes
    <3>. QED
      BY <3>1, <3>2
  <2>. QED
    BY <2>5, <2>6
<1>. QED
  BY <1>2, <1>3

Owning == Owned /\ \A r \in Requests : Unlinked(req[r])

(* An account that is there for good, not half-changed, and not linked by  *)
(* hand.                                                                   *)
Settled(u) == u \in Users \ relinked /\ Live(u) /\ Rooted(u) /\ Sound(u)

(* A request that has claimed the user's address for a pilot of theirs, or *)
(* is about to.                                                            *)
Makes(q, u) == q.op \in {"myPilot", "adminPilot"} /\ Made(q) /\ q.user = u
Seeks(q, u) == q.op \in {"myPilot", "adminPilot"} /\ q.at = "claim" /\ q.user = u
Of(p, u) == Belongs(p, u) \/ \E r \in Requests : Makes(req[r], u) /\ req[r].pilot = p

(* What each request holds of the user's pilots.                           *)
Sides(q, u) ==
  /\ Makes(q, u) /\ q.at \in {"list", "link", "write"} => Belongs(q.pilot, u)
  /\ q.op = "adminPilot" /\ q.at = "claim" /\ q.user = u => user[u].pilot # q.pilot
  /\ q.op = "editPilot" /\ (Belongs(q.pilot, u) \/ q.pilot = OwnPilot[u]) => q.doc.user = u
Apart(u) ==
  /\ pilot[OwnPilot[u]] # None => Belongs(OwnPilot[u], u)
  /\ \A r \in Requests : Sides(req[r], u)

LEMMA BelongsNext ==
  ASSUME Types, Staging, NEW r \in Requests, RequestStep(r),
         NEW u \in Users, Sound(u)', u \notin relinked', NEW p \in Pilots, Belongs(p, u)'
  PROVE  Belongs(p, u) \/ (WritePilot(r) /\ Makes(req[r], u) /\ req[r].pilot = p)
<1>0. u # None /\ u \notin lost' /\ Staged(req[r]) /\ Shaped(req[r]) /\ u \notin relinked
  BY RequestIs, ConstantTypes, Writers DEF Sound, Staging
<1>1. CASE pilot'[p] = pilot[p]
  BY <1>1 DEF Belongs
<1>2. CASE /\ AdminPilotEnsure(r) /\ req[r].pilot = p /\ pilot[p] = None
           /\ pilot'[p].user = req[r].user
  BY <1>0, <1>2 DEF AdminPilotEnsure, At, Staged, Belongs
<1>3. CASE WritePilot(r) /\ req[r].pilot = p /\ req[r].op = "editPilot"
  <2>1. pilot'[p] = req[r].doc
    BY <1>3, DocumentsAre DEF Documents, WritePilot
  <2>2. req[r].doc.user = u
    BY <2>1 DEF Belongs
  <2>3. pilot[p] = req[r].doc
    BY <1>0, <1>3, <2>2 DEF WritePilot
  <2>4. pilot[p] # None
    BY <1>3, <2>3, CarriesIs, ConstantTypes
  <2>. QED
    BY <2>2, <2>3, <2>4 DEF Belongs
<1>4. CASE WritePilot(r) /\ req[r].pilot = p /\ req[r].op # "editPilot" /\ pilot'[p].user = req[r].user
  <2>1. req[r].user = u /\ req[r].at = "pilot"
    BY <1>4 DEF Belongs, WritePilot
  <2>2. req[r].op \in {"myPilot", "adminPilot"}
    BY <1>0, <1>4, <2>1, IdleIs DEF Shaped, Steps
  <2>. QED
    BY <1>4, <2>1, <2>2 DEF Makes, Made, Makers
<1>. QED
  BY <1>0, <1>1, <1>2, <1>3, <1>4, WritesBlob DEF Belongs

(* The user of whom a request makes a pilot.                               *)
LEMMA MakerMine ==
  ASSUME Types, NEW r \in Requests, req[r].op \in Makers
  PROVE  /\ req[r].pilot \in Pilots /\ req[r].user \in Users \union {None}
         /\ Mine(req[r].user, req[r].pilot)
<1>1. Shaped(req[r]) /\ req[r].pilot \in Pilots
  BY RequestIs, CarriesIs
<1>. QED
  BY <1>1 DEF Shaped, Mine, Makers, Locking

LEMMA BelongsStays ==
  ASSUME Rooting, Staging, Owning, NEW r \in Requests, RequestStep(r),
         NEW u \in Users, Live(u), Sound(u)', Sides(req[r], u), NEW p \in Pilots, Belongs(p, u)
  PROVE  \/ Belongs(p, u)'
         \/ Undo(r) /\ req[r].op = "myPilot" /\ req[r].pilot = p /\ req[r].user = u
<1>0. Types /\ Origins /\ u # None /\ u \notin torn' /\ Shaped(req[r])
  BY RequestIs, ConstantTypes DEF Rooting, Sound
<1>1. ASSUME req[r].op \in Makers, req[r].pilot = p PROVE req[r].user = u
  <2>1. Mine(req[r].user, p) /\ req[r].user \in Users \union {None}
    BY <1>0, <1>1, MakerMine
  <2>2. pilot[p].user \in {None, req[r].user}
    BY <2>1 DEF Owning, Owned, Belongs
  <2>. QED
    BY <1>0, <2>2 DEF Belongs
<1>2. CASE Undo(r) /\ req[r].op \in {"myPilot", "newPilot"} /\ req[r].pilot = p
  <2>1. req[r].user = u
    BY <1>1, <1>2 DEF Makers
  <2>. QED
    BY <1>0, <1>2, <2>1 DEF Shaped
<1>3. CASE pilot'[p] # None
  <2>1. CASE pilot'[p] = pilot[p]
    BY <1>3, <2>1 DEF Belongs
  <2>2. CASE DeleteLink(r) /\ tomb[req[r].user].pilot = p
    <3>1. u \in MadeFor(p)
      BY DEF MadeFor, Belongs
    <3>2. req[r].user = u
      BY <1>0, <2>2, <3>1 DEF DeleteLink
    <3>3. tomb[u] # None
      BY <1>0, <2>2, <3>2 DEF DeleteLink, At, Origins, RequestRooted
    <3>. QED
      BY <3>3 DEF Live
  <2>3. CASE AdminPilotEnsure(r) /\ pilot[p] = None
    BY <2>3 DEF Belongs
  <2>4. CASE /\ WritePilot(r) /\ req[r].pilot = p
             /\ pilot'[p].user = IF req[r].op = "editPilot" THEN req[r].doc.user ELSE req[r].user
    <3>1. req[r].op = "editPilot" \/ req[r].op \in Makers
      BY <1>0, <2>4, IdleIs DEF WritePilot, Shaped, Steps, Makers
    <3>2. req[r].op = "editPilot" => req[r].doc.user = u
      BY <2>4 DEF Sides
    <3>. QED
      BY <1>1, <1>3, <2>4, <3>1, <3>2 DEF Belongs, Makers
  <2>5. \/ pilot'[p] = pilot[p]
        \/ DeleteLink(r) /\ tomb[req[r].user].pilot = p
        \/ AdminPilotEnsure(r) /\ pilot[p] = None
        \/ /\ WritePilot(r) /\ req[r].pilot = p
           /\ pilot'[p].user = IF req[r].op = "editPilot" THEN req[r].doc.user ELSE req[r].user
    BY <1>0, <1>3, WritesBlob
  <2>. QED
    BY <2>1, <2>2, <2>3, <2>4, <2>5
<1>. QED
  BY <1>0, <1>2, <1>3, PilotStays DEF Belongs

LEMMA MakesNext ==
  ASSUME Types, NEW r \in Requests, RequestStep(r), NEW u, NEW s \in Requests, Makes(req'[s], u)
  PROVE  /\ req'[s].pilot = req[s].pilot /\ req'[s].email = req[s].email /\ req'[s].op = req[s].op
         /\ Makes(req[s], u) \/ (s = r /\ Claims(r) /\ Seeks(req[r], u))
<1>0. Becomes(r)
  BY StepBecomes
<1>1. CASE s # r
  BY <1>0, <1>1 DEF Becomes
<1>2. CASE s = r
  <2>1. /\ req'[r].op = req[r].op /\ req'[r].user = req[r].user /\ req'[r].pilot = req[r].pilot
        /\ \/ ReadsMine(r) \/ Fails(r) \/ Claims(r)
           \/ WritePilot(r) /\ Goes(r, "list")
           \/ Lists(r) /\ Goes(r, "link")
    BY <1>2, MakerStep DEF Makes, Made, Makers, BeginsMine, BeginsNew, BeginsEdit, Locks,
       ReadsAdmin, Goes
  <2>2. req'[r].email = req[r].email
    BY <2>1 DEF ReadsMine, Fails, Claims, Goes, Same, Kin
  <2>3. Makes(req[r], u) \/ (Claims(r) /\ Seeks(req[r], u))
    BY <1>2, <2>1 DEF ReadsMine, Fails, Claims, WritePilot, Lists, At, Makes, Made, Makers, Seeks
  <2>. QED
    BY <1>2, <2>1, <2>2, <2>3
<1>. QED
  BY <1>1, <1>2

LEMMA MakesEnds ==
  ASSUME Types, NEW r \in Requests, RequestStep(r), NEW u \in Users, Sound(u)',
         NEW s \in Requests, Makes(req[s], u), ~Makes(req'[s], u)
  PROVE  s = r /\ (MyPilotWrite(r) \/ AdminPilotLink(r) \/ (Undo(r) /\ req[r].op = "myPilot"))
<1>0. Becomes(r) /\ u # None /\ u \notin torn' /\ Shaped(req[r])
  BY StepBecomes, RequestIs, ConstantTypes DEF Sound
<1>1. s = r
  BY <1>0 DEF Becomes
<1>2. ~Made(req'[r])
  <2>1. SUFFICES ASSUME Made(req'[r]) PROVE FALSE
    OBVIOUS
  <2>2. req'[r].op = req[r].op /\ req'[r].user = req[r].user
    BY <1>1, <2>1, MakerStep, IdleIs DEF Makes, Made, Makers, BeginsMine, BeginsNew, BeginsEdit
  <2>. QED
    BY <1>1, <2>1, <2>2 DEF Makes
<1>3. ~Crash(r)
  BY <1>0, <1>1 DEF Crash, Makes
<1>4. Undo(r) => req[r].op = "myPilot"
  BY <1>0, <1>1, IdleIs DEF Undo, Makes, Made, Makers, Shaped, Steps
<1>. QED
  BY <1>1, <1>2, <1>3, <1>4, MadeEnds DEF Makes

LEMMA SeeksNext ==
  ASSUME Types, NEW r \in Requests, RequestStep(r), NEW u \in Users, NEW s \in Requests, Seeks(req'[s], u)
  PROVE  \/ s # r /\ Seeks(req[s], u) /\ req'[s] = req[s]
         \/ /\ s = r /\ Still /\ user[u].pilot = None /\ req'[r].email = user[u].email
            /\ BeginsMine(r) \/ ReadsAdmin(r)
<1>0. Becomes(r) /\ Shaped(req[r])
  BY StepBecomes, RequestIs
<1>1. CASE s # r
  BY <1>0, <1>1 DEF Becomes
<1>2. CASE s = r
  <2>1. BeginsMine(r) \/ (ReadsAdmin(r) /\ req'[r].user = req[r].user)
    BY <1>2, MakerStep DEF Seeks, Makers, BeginsNew, BeginsEdit, Locks, ReadsMine, Fails, Claims,
       Goes
  <2>2. CASE BeginsMine(r)
    BY <1>2, <2>2 DEF BeginsMine, Seeks
  <2>3. CASE ReadsAdmin(r)
    BY <1>2, <2>1, <2>3 DEF ReadsAdmin, Seeks
  <2>. QED
    BY <2>1, <2>2, <2>3
<1>. QED
  BY <1>1, <1>2

LEMMA OfNext ==
  ASSUME Types, Staging, NEW r \in Requests, RequestStep(r),
         NEW u \in Users, Sound(u)', u \notin relinked', NEW p \in Pilots, Of(p, u)'
  PROVE  Of(p, u) \/ (Claims(r) /\ Seeks(req[r], u) /\ req[r].pilot = p /\ Makes(req'[r], u))
<1>1. CASE Belongs(p, u)'
  BY <1>1, BelongsNext DEF Of
<1>2. CASE \E s \in Requests : Makes(req'[s], u) /\ req'[s].pilot = p
  BY <1>2, MakesNext DEF Of
<1>. QED
  BY <1>1, <1>2 DEF Of, Makes, Made

(* The claim on the user's address stays while a pilot of theirs is made.  *)
LEMMA ClaimStays ==
  ASSUME Rooting, NEW r \in Requests, RequestStep(r), NEW u \in Users, Live(u), Sound(u)',
         NEW p \in Pilots, Of(p, u), NEW e \in Emails, claims[e] = p,
         req[r].op = "editPilot" /\ req[r].pilot = p /\ req[r].at # "claim" /\ req[r].version = 1
           => req[r].email # e
  PROVE  \/ claims'[e] = p
         \/ Undo(r) /\ req[r].op # "editPilot" /\ req[r].pilot = p
         \/ MovesClaim(r) /\ req[r].user = u
<1>0. Types /\ Documents /\ Origins /\ u \notin torn' /\ u \notin Pilots /\ p # None
  BY DocumentsAre, AccountsAssumption, ConstantTypes DEF Rooting, Sound
<1>1. u \in MadeFor(p)
  BY DEF MadeFor, Of, Belongs, Makes
<1>2. CASE DeleteClaim(r)
  <2>1. CASE tomb[req[r].user].pilot = p
    <3>1. req[r].user = u
      BY <1>0, <1>1, <1>2, <2>1 DEF DeleteClaim
    <3>2. tomb[u] # None
      BY <1>0, <1>2, <3>1 DEF DeleteClaim, At, Origins, RequestRooted
    <3>. QED
      BY <3>2 DEF Live
  <2>2. CASE tomb[req[r].user].pilot # p
    BY <1>0, <1>2, <2>2 DEF DeleteClaim, Documents
  <2>. QED
    BY <2>1, <2>2
<1>3. CASE MovesClaim(r)
  <2>0. Carries(req[r])
    BY <1>3 DEF MovesClaim, At, Carries
  <2>1. req[r].email \in Emails /\ req[r].doc.email \in Emails /\ req[r].doc.pilot \in Pilots \union {None}
    BY <1>0, <1>3, <2>0, CarriesIs DEF MovesClaim, At
  <2>2. u # req[r].doc.pilot
    BY <1>0, <2>1, ConstantTypes
  <2>3. e = req[r].doc.email => req[r].user = u
    <3>. PICK old : old = claims[req[r].doc.email]
      OBVIOUS
    <3>. PICK freed : freed = IF old = None THEN {} ELSE {old} \union MadeFor(old)
      OBVIOUS
    <3>1. torn' = torn \union (freed \ {req[r].user, req[r].doc.pilot})
      BY <1>3 DEF MovesClaim
    <3>. QED
      BY <1>0, <1>1, <2>2, <3>1
  <2>4. CASE e = req[r].email
    BY <1>0, <1>3, <2>1, <2>4 DEF MovesClaim, Documents
  <2>5. CASE e # req[r].email
    BY <1>0, <1>3, <2>1, <2>3, <2>5 DEF MovesClaim, Documents
  <2>. QED
    BY <2>4, <2>5
<1>4. CASE AdminPilotReclaim(r)
  BY <1>0, <1>4 DEF AdminPilotReclaim, Claimable, Documents
<1>5. CASE Claims(r)
  BY <1>0, <1>5 DEF Claims, Claimable, Documents
<1>6. CASE Undo(r)
  <2>1. CASE claims' = claims
    BY <2>1
  <2>2. CASE claims[req[r].email] = req[r].pilot /\ (req[r].op = "editPilot" => req[r].version = 1)
    BY <1>0, <1>6, <2>2 DEF Undo, Documents
  <2>. QED
    BY <1>6, <2>1, <2>2 DEF Undo
<1>. QED
  BY <1>2, <1>3, <1>4, <1>5, <1>6, Writers

LEMMA OwnsKept ==
  ASSUME Rooting, Staging, Owning, NEW r \in Requests, RequestStep(r),
         NEW u \in Users, Live(u), Sound(u)', Apart(u),
         NEW p \in Pilots, p = OwnPilot[u], pilot'[p] # None
  PROVE  Belongs(p, u)'
<1>0. Types /\ Shaped(req[r]) /\ Staged(req[r])
  BY RequestIs DEF Rooting, Staging
<1>1. CASE pilot[p] # None
  BY <1>0, <1>1, BelongsStays DEF Apart, Shaped
<1>2. CASE pilot[p] = None
  <2>1. (AdminPilotEnsure(r) \/ WritePilot(r)) /\ req[r].pilot = p
    BY <1>0, <1>2, PilotStays
  <2>2. req[r].op = "adminPilot"
    BY <1>0, <1>2, <2>1, IdleIs DEF Shaped, Steps, Staged, AdminPilotEnsure, WritePilot, At
  <2>3. req[r].user = u
    BY <1>0, <2>1, <2>2, OwnPilots DEF Shaped, Locking
  <2>4. pilot'[p].user = u
    BY <1>0, <1>2, <2>1, <2>2, <2>3, WritesBlob DEF DeleteLink, WritePilot, AdminPilotEnsure, At
  <2>. QED
    BY <2>4 DEF Belongs
<1>. QED
  BY <1>1, <1>2

(* A pilot is made for one.                                                *)
LEMMA MadeOnce ==
  ASSUME Types, Staging, NEW r \in Requests, NEW s \in Requests, s # r,
         req[r].op = "myPilot", req[s].op \in Makers
  PROVE  req[s].pilot # req[r].pilot
BY DEF Staging, Alone, Makers

LEMMA SidesKept ==
  ASSUME Rooting, Staging, Owning, NEW r \in Requests, RequestStep(r),
         NEW u \in Users, Live(u), Rooted(u), Sound(u)', u \notin relinked', tomb'[u] = None, Apart(u),
         NEW s \in Requests, NEW p \in Pilots, p = req'[s].pilot
  PROVE  /\ Makes(req'[s], u) /\ req'[s].at \in {"list", "link", "write"} => Belongs(p, u)'
         /\ req'[s].op = "adminPilot" /\ req'[s].at = "claim" /\ req'[s].user = u => user'[u].pilot # p
         /\ req'[s].op = "editPilot" /\ (Belongs(p, u)' \/ p = OwnPilot[u]) => req'[s].doc.user = u
<1>0. Types /\ Becomes(r) /\ Sides(req[s], u) /\ Sides(req[r], u)
  BY StepBecomes DEF Rooting, Apart
<1>1. ASSUME Makes(req'[s], u), req'[s].at \in {"list", "link", "write"} PROVE Belongs(p, u)'
  <2>1. CASE s # r
    <3>1. req'[s] = req[s] /\ Belongs(p, u)
      BY <1>0, <1>1, <2>1 DEF Becomes, Sides
    <3>2. ~(req[r].op = "myPilot" /\ req[r].pilot = p)
      BY <1>0, <1>1, <2>1, <3>1, MadeOnce DEF Makes, Made
    <3>. QED
      BY <1>0, <3>1, <3>2, BelongsStays
  <2>2. CASE s = r
    <3>1. /\ req'[r].op = req[r].op /\ req'[r].user = req[r].user /\ req'[r].pilot = req[r].pilot
          /\ ReadsMine(r) \/ WritePilot(r) \/ (Lists(r) /\ Goes(r, "link"))
      BY <1>1, <2>2, MakerStep DEF Makes, Made, Makers, BeginsMine, BeginsNew, BeginsEdit,
         BeginsFor,
         Locks, ReadsAdmin, Goes, Claims, Fails
    <3>2. CASE WritePilot(r)
      <4>1. pilot'[p] = [user |-> u]
        BY <1>0, <1>1, <2>2, <3>1, <3>2, DocumentsAre DEF WritePilot, Makes, Documents
      <4>2. [user |-> u] \in PilotDocs
        BY DEF PilotDocs
      <4>. QED
        BY <4>1, <4>2, ConstantTypes DEF Belongs
    <3>3. CASE ReadsMine(r) \/ Lists(r)
      <4>1. pilot' = pilot /\ req[r].at \in {"list", "link"}
        BY <3>3 DEF ReadsMine, Lists, Still, pilots, At
      <4>2. Makes(req[r], u)
        BY <1>1, <2>2, <3>1, <4>1 DEF Makes, Made
      <4>. QED
        BY <1>0, <2>2, <3>1, <4>1, <4>2 DEF Sides, Belongs
    <3>. QED
      BY <3>1, <3>2, <3>3
  <2>. QED
    BY <2>1, <2>2
<1>2. ASSUME req'[s].op = "adminPilot", req'[s].at = "claim", req'[s].user = u PROVE user'[u].pilot # p
  <2>1. CASE s # r
    <3>1. req'[s] = req[s] /\ user[u].pilot # p
      BY <1>0, <1>2, <2>1 DEF Becomes, Sides
    <3>2. p = OwnPilot[u] /\ Holds(req[s])
      BY <1>0, <1>2, <3>1, RequestIs DEF Shaped, Holds, Locking
    <3>3. ~AdminPilotLink(r)
      BY <2>1, <3>2, HoldsOnce DEF AdminPilotLink, At, Holds, Locking
    <3>4. MyPilotWrite(r) => req[r].pilot # p
      BY <1>0, <3>2, RequestIs DEF MyPilotWrite, At, Shaped
    <3>. QED
      BY <3>1, <3>3, <3>4, RecordStep
  <2>2. CASE s = r
    <3>1. ReadsAdmin(r)
      BY <1>2, <2>2, MakerStep DEF Makers, BeginsMine, BeginsNew, BeginsEdit, Locks, Goes,
         ReadsMine,
         Fails, Claims
    <3>. QED
      BY <1>2, <2>2, <3>1 DEF ReadsAdmin, Still, accounts
  <2>. QED
    BY <2>1, <2>2
<1>3. ASSUME req'[s].op = "editPilot", Belongs(p, u)' \/ p = OwnPilot[u] PROVE req'[s].doc.user = u
  <2>1. CASE s = r /\ BeginsEdit(r)
    BY <1>3, <2>1 DEF BeginsEdit, Belongs, Apart, Still, pilots
  <2>2. CASE ~(s = r /\ BeginsEdit(r))
    <3>1. req[s].op = "editPilot" /\ req'[s].doc = req[s].doc /\ req[s].pilot = p
      BY <1>0, <1>3, <2>2, EditsStay DEF Becomes
    <3>2. CASE Belongs(p, u) \/ p = OwnPilot[u]
      BY <1>0, <3>1, <3>2 DEF Sides
    <3>3. CASE WritePilot(r) /\ Makes(req[r], u) /\ req[r].pilot = p
      <4>1. req[r].op # "myPilot"
        BY <3>1, <3>3 DEF Staging, Alone, WritePilot
      <4>2. p = OwnPilot[u]
        BY <1>0, <3>3, <4>1, RequestIs DEF Makes, Shaped
      <4>. QED
        BY <3>2, <4>2
    <3>. QED
      BY <1>0, <1>3, <3>2, <3>3, BelongsNext
  <2>. QED
    BY <2>1, <2>2
<1>. QED
  BY <1>1, <1>2, <1>3

(* A change of address that is about to write the record it read.          *)
Turning(q, u) == q.op = "email" /\ q.at = "user" /\ q.user = u
(* An edit of the pilot that gives its claim back when it fails.           *)
Frees(q, p) == q.op = "editPilot" /\ q.pilot = p /\ q.at # "claim" /\ q.version = 1
(* A request that links the user to a pilot in the end.                    *)
Builds(q, u) ==
  /\ q.user = u
  /\ q.op = "myPilot" \/ (q.op = "adminPilot" /\ q.at \in {"claim", "pilot", "list", "link"})

(* The pilot p is the user's one: linked, or made; and the claim on the    *)
(* user's address keeps others from making another.                        *)
Single(p, u) ==
  /\ user[u].pilot = p \/ \E r \in Requests : Makes(req[r], u) /\ req[r].pilot = p
  /\ \A r \in Requests : /\ Makes(req[r], u) => req[r].pilot = p
                         /\ Seeks(req[r], u) => claims[user[u].email] = p
  /\ \A r, s \in Requests :
       Frees(req[s], p) /\ (Seeks(req[r], u) \/ (Makes(req[r], u) /\ req[r].pilot = p)) =>
         req[s].email # user[u].email
Asks(q, u) ==
  /\ Makes(q, u) => q.email = user[u].email /\ claims[user[u].email] = q.pilot
  /\ Seeks(q, u) => q.email = user[u].email
  /\ Builds(q, u) /\ user[u].pilot # None => Belongs(user[u].pilot, u)
Paired(u) ==
  /\ \A p \in Pilots : Of(p, u) => Single(p, u)
  /\ \A r \in Requests : Asks(req[r], u)

(* While the record is about to be written over, it is enough that the     *)
(* pilot is in what will be written.                                       *)
Turned(q, u) ==
  \A p \in Pilots : Of(p, u) =>
    \/ q.doc.pilot = p \/ user[u] # q.doc
    \/ \E r \in Requests : Makes(req[r], u) /\ req[r].pilot = p

OneEach(u) ==
  Settled(u) =>
    /\ Apart(u)
    /\ (\A r \in Requests : ~Turning(req[r], u)) => Paired(u)
    /\ \A r \in Requests : Turning(req[r], u) => Turned(req[r], u)
Belonging == Owning /\ \A u \in Users : OneEach(u)

(* What a request that fails has made is nobody's any more.                *)
LEMMA Undone ==
  ASSUME Types, Staging, NEW r \in Requests, RequestStep(r), Undo(r), req[r].op # "editPilot",
         NEW u \in Users, NEW p, p = req[r].pilot
  PROVE  ~Of(p, u)'
<1>1. req'[r] = Idle /\ req[r].op \in {"myPilot", "newPilot"} /\ p \in Pilots
  BY RequestIs, IdleIs DEF Undo, Finish, Shaped, Steps
<1>2. pilot'[p] = None
  BY <1>1, DocumentsAre DEF Documents, Undo
<1>3. ASSUME NEW t \in Requests, Makes(req'[t], u), req'[t].pilot = p PROVE FALSE
  <2>1. t # r
    BY <1>1, <1>3, IdleIs DEF Makes
  <2>2. req[t].op \in Makers /\ req[t].pilot = p
    BY <1>3, <2>1, MakesNext DEF Makes, Makers
  <2>. QED
    BY <1>1, <2>1, <2>2 DEF Staging, Alone, Makers
<1>. QED
  BY <1>2, <1>3 DEF Of, Belongs

LEMMA BuildsNext ==
  ASSUME Types, NEW r \in Requests, RequestStep(r), NEW u \in Users, NEW t \in Requests, Builds(req'[t], u)
  PROVE  Builds(req[t], u) \/ (Still /\ user[u].pilot = None)
<1>0. Becomes(r) /\ Shaped(req[r])
  BY StepBecomes, RequestIs
<1>1. CASE t # r
  BY <1>0, <1>1 DEF Becomes
<1>2. CASE t = r
  <2>1. \/ BeginsMine(r)
        \/ ReadsAdmin(r) /\ req'[r].at = "claim"
        \/ Builds(req[r], u)
    BY <1>2, MakerStep, IdleIs
    DEF Builds, Makers, BeginsFor, BeginsNew, BeginsEdit, Locks, ReadsAdmin, ReadsMine, Fails, Claims,
        WritePilot, Lists, Goes, At, AdminPilotEnsure, AdminPilotRelist
  <2>2. CASE BeginsMine(r)
    BY <1>2, <2>2 DEF BeginsMine, Builds
  <2>3. CASE ReadsAdmin(r) /\ req'[r].at = "claim"
    BY <1>2, <2>3 DEF ReadsAdmin, Builds
  <2>. QED
    BY <1>2, <2>1, <2>2, <2>3
<1>. QED
  BY <1>1, <1>2

(* An account whose address is not being written keeps it, and what is     *)
(* linked to it was made for it.                                           *)
LEMMA LinkIs ==
  ASSUME Rooting, NEW r \in Requests, RequestStep(r),
         NEW u \in Users, Rooted(u), Sound(u)', u \notin relinked', tomb'[u] = None,
         Apart(u), ~Turning(req[r], u)
  PROVE  /\ user[u] \in Records /\ user'[u] \in Records /\ user'[u].email = user[u].email
         /\ user[u].email \in Emails /\ user[u].pilot \in Pilots \union {None}
         /\ \/ user'[u].pilot = user[u].pilot
            \/ /\ MyPilotWrite(r) \/ AdminPilotLink(r)
               /\ Makes(req[r], u) /\ Belongs(req[r].pilot, u) /\ user'[u].pilot = req[r].pilot
<1>0. ~(EmailUser(r) /\ req[r].user = u)
  BY DEF EmailUser, At, Turning
<1>1. ASSUME MyPilotWrite(r) \/ AdminPilotLink(r), req[r].user = u
      PROVE  Makes(req[r], u) /\ Belongs(req[r].pilot, u)
  <2>1. Makes(req[r], u) /\ req[r].at \in {"link", "write"}
    BY <1>1 DEF MyPilotWrite, AdminPilotLink, At, Makes, Made, Makers
  <2>. QED
    BY <2>1 DEF Apart, Sides
<1>. QED
  BY <1>0, <1>1, RecordStep DEF Records

(* A step that neither writes the record back nor moves the claim of a     *)
(* settled account.                                                        *)
Passing(r, u) ==
  /\ RequestStep(r) /\ Live(u) /\ Rooted(u) /\ Apart(u) /\ Paired(u)
  /\ Sound(u)' /\ u \notin relinked' /\ tomb'[u] = None
  /\ \A t \in Requests : ~Turning(req[t], u)
  /\ ~(MovesClaim(r) /\ req[r].user = u)

LEMMA PassingIs ==
  ASSUME Rooting, NEW r \in Requests, NEW u \in Users, Passing(r, u)
  PROVE  /\ user'[u].email = user[u].email
         /\ user[u].email \in Emails /\ user[u].pilot \in Pilots \union {None}
         /\ \/ user'[u].pilot = user[u].pilot
            \/ /\ MyPilotWrite(r) \/ AdminPilotLink(r)
               /\ Makes(req[r], u) /\ Belongs(req[r].pilot, u) /\ user'[u].pilot = req[r].pilot
BY LinkIs DEF Passing

(* The request of a user who makes a pilot has it linked when it ends.     *)
LEMMA SingleLinked ==
  ASSUME Rooting, Staging, NEW r \in Requests, NEW u \in Users, Passing(r, u),
         NEW p \in Pilots, Of(p, u)'
  PROVE  user'[u].pilot = p \/ \E t \in Requests : Makes(req'[t], u) /\ req'[t].pilot = p
<1>0. Types /\ RequestStep(r) /\ Sound(u)' /\ u \notin relinked'
  BY DEF Rooting, Passing
<1>1. CASE Claims(r) /\ req[r].pilot = p /\ Makes(req'[r], u)
  BY <1>1 DEF Claims, Kin
<1>2. CASE Of(p, u)
  <2>0. Single(p, u)
    BY <1>2 DEF Passing, Paired
  <2>1. CASE user[u].pilot = p
    BY <2>0, <2>1, PassingIs DEF Single
  <2>2. ASSUME NEW t \in Requests, Makes(req[t], u), req[t].pilot = p
        PROVE  user'[u].pilot = p \/ \E s \in Requests : Makes(req'[s], u) /\ req'[s].pilot = p
    <3>1. CASE Makes(req'[t], u)
      BY <1>0, <2>2, <3>1, MakesNext
    <3>2. CASE t = r /\ MyPilotWrite(r)
      <4>1. user[u] # None /\ req[r].doc \in Records /\ req[r].user = u
        BY <1>0, <2>2, <3>2, RequestIs DEF MyPilotWrite, At, Makes, Passing, Live, Shaped, Carries
      <4>. PICK next : next = [req[r].doc EXCEPT !.pilot = req[r].pilot]
        OBVIOUS
      <4>2. next.pilot = p
        BY <2>2, <3>2, <4>1 DEF Records
      <4>3. user'[u] = next
        BY <1>0, <3>2, <4>1, DocumentsAre DEF MyPilotWrite, Documents
      <4>. QED
        BY <4>2, <4>3
    <3>3. CASE t = r /\ AdminPilotLink(r)
      <4>1. Builds(req[r], u)
        BY <2>2, <3>3 DEF AdminPilotLink, At, Makes, Builds
      <4>2. user[u].pilot \in {None, p}
        <5>1. user[u].pilot \in Pilots => Belongs(user[u].pilot, u)
          BY <4>1, ConstantTypes DEF Passing, Paired, Asks
        <5>2. user[u].pilot \in Pilots => user[u].pilot = p
          BY <2>2, <3>3, <5>1 DEF Of, Passing, Paired, Single
        <5>. QED
          BY <5>2, PassingIs
      <4>3. user[u] \in Records /\ req[r].user = u
        BY <1>0, <2>2, <3>3, DocumentsAre DEF Documents, Passing, Live, Makes
      <4>. PICK next : next = [user[u] EXCEPT !.pilot = p]
        OBVIOUS
      <4>4. next.pilot = p
        BY <4>3 DEF Records
      <4>5. user'[u] = next
        BY <1>0, <2>2, <3>3, <4>2, <4>3, DocumentsAre DEF AdminPilotLink, Documents, Passing, Live
      <4>. QED
        BY <4>4, <4>5
    <3>4. CASE t = r /\ Undo(r) /\ req[r].op = "myPilot"
      BY <1>0, <2>2, <3>4, Undone
    <3>. QED
      BY <1>0, <2>2, <3>1, <3>2, <3>3, <3>4, MakesEnds
  <2>. QED
    BY <2>0, <2>1, <2>2 DEF Single
<1>. QED
  BY <1>0, <1>1, <1>2, OfNext

(* No other pilot is made, by the user or by an administrator.             *)
LEMMA SingleMade ==
  ASSUME Rooting, Staging, NEW r \in Requests, NEW u \in Users, Passing(r, u),
         NEW p \in Pilots, Of(p, u)', NEW t \in Requests, Makes(req'[t], u)
  PROVE  req'[t].pilot = p
<1>0. Types /\ RequestStep(r) /\ Sound(u)' /\ u \notin relinked' /\ user[u].email \in Emails
  BY PassingIs DEF Rooting, Passing
<1>1. req'[t].pilot = req[t].pilot /\ (Makes(req[t], u) \/ (t = r /\ Claims(r) /\ Seeks(req[r], u)))
  BY <1>0, MakesNext
<1>2. Of(p, u) \/ (Claims(r) /\ Seeks(req[r], u) /\ req[r].pilot = p)
  BY <1>0, OfNext
<1>3. CASE Of(p, u) /\ Makes(req[t], u)
  BY <1>1, <1>3 DEF Passing, Paired, Single
<1>4. CASE Of(p, u) /\ t = r /\ Claims(r) /\ Seeks(req[r], u)
  <2>1. claims[user[u].email] = p /\ req[r].email = user[u].email
    BY <1>4 DEF Passing, Paired, Single, Asks
  <2>. QED
    BY <1>1, <1>4, <2>1, ConstantTypes DEF Claims, Claimable
<1>5. CASE Claims(r) /\ Seeks(req[r], u) /\ req[r].pilot = p /\ Makes(req[t], u)
  <2>1. claims[user[u].email] = req[t].pilot /\ req[r].email = user[u].email
    BY <1>5 DEF Passing, Paired, Asks
  <2>2. req[t].pilot # None
    BY <1>0, <1>5, RequestIs, MakerMine, ConstantTypes DEF Makes, Made
  <2>. QED
    BY <1>1, <1>5, <2>1, <2>2 DEF Claims, Claimable
<1>. QED
  BY <1>1, <1>2, <1>3, <1>4, <1>5

(* The claim stays as long as somebody is making the pilot, or is about to. *)
LEMMA ClaimHolds ==
  ASSUME Rooting, Staging, NEW r \in Requests, NEW u \in Users, Passing(r, u),
         NEW p \in Pilots, Of(p, u), claims[user[u].email] = p,
         NEW t \in Requests, Seeks(req[t], u) \/ (Makes(req[t], u) /\ req[t].pilot = p)
  PROVE  \/ claims'[user[u].email] = p
         \/ Undo(r) /\ req[r].op # "editPilot" /\ req[r].pilot = p
<1>1. user[u].email \in Emails /\ RequestStep(r) /\ Live(u) /\ Sound(u)' /\ u \notin relinked'
  BY PassingIs DEF Passing
<1>2. req[r].op = "editPilot" /\ req[r].pilot = p /\ req[r].at # "claim" /\ req[r].version = 1
        => req[r].email # user[u].email
  BY DEF Passing, Paired, Single, Frees
<1>. QED
  BY <1>1, <1>2, ClaimStays DEF Passing

(* Who is about to claim an address while a pilot is made for it, finds    *)
(* the claim of that pilot.                                                *)
LEMMA SingleSought ==
  ASSUME Rooting, Staging, NEW r \in Requests, NEW u \in Users, Passing(r, u),
         NEW p \in Pilots, Of(p, u)', NEW t \in Requests, Seeks(req'[t], u)
  PROVE  claims'[user[u].email] = p
<1>0. Types /\ RequestStep(r) /\ Sound(u)' /\ u \notin relinked' /\ user[u].email \in Emails
  BY PassingIs DEF Rooting, Passing
<1>1. Of(p, u) \/ (Claims(r) /\ Seeks(req[r], u) /\ req[r].pilot = p)
  BY <1>0, OfNext
<1>2. CASE Claims(r) /\ Seeks(req[r], u) /\ req[r].pilot = p
  <2>1. req[r].email = user[u].email
    BY <1>2 DEF Passing, Paired, Asks
  <2>. QED
    BY <1>0, <1>2, <2>1, DocumentsAre DEF Claims, Documents
<1>3. CASE Of(p, u) /\ Seeks(req[t], u)
  <2>1. claims[user[u].email] = p
    BY <1>3 DEF Passing, Paired, Single
  <2>. QED
    BY <1>0, <1>3, <2>1, ClaimHolds, Undone
<1>4. CASE Of(p, u) /\ Still /\ user[u].pilot = None
  <2>1. PICK s \in Requests : Makes(req[s], u) /\ req[s].pilot = p
    BY <1>4, ConstantTypes DEF Passing, Paired, Single
  <2>2. claims[user[u].email] = p
    BY <2>1 DEF Passing, Paired, Asks
  <2>. QED
    BY <1>4, <2>2 DEF Still, pilots
<1>. QED
  BY <1>0, <1>1, <1>2, <1>3, <1>4, SeeksNext

(* An edit that will free a claim has claimed an address nobody had.       *)
LEMMA FreesNext ==
  ASSUME NEW r \in Requests, RequestStep(r), NEW p, NEW s \in Requests, Frees(req'[s], p)
  PROVE  /\ req'[s].email = req[s].email /\ req[s].op = "editPilot" /\ req[s].pilot = p
         /\ Frees(req[s], p) \/ (s = r /\ Claims(r) /\ claims[req[r].email] = None)
<1>0. Becomes(r)
  BY StepBecomes
<1>1. CASE s # r
  BY <1>0, <1>1 DEF Becomes, Frees
<1>2. CASE s = r
  <2>1. /\ req[r].op = "editPilot" /\ req'[r].op = "editPilot" /\ req'[r].pilot = req[r].pilot
        /\ \/ Fails(r) \/ Claims(r)
           \/ WritePilot(r) /\ Goes(r, "list")
           \/ Lists(r) /\ Goes(r, "link")
    BY <1>2, MakerStep
    DEF Frees, BeginsFor, BeginsMine, BeginsNew, BeginsEdit, Locks, ReadsAdmin, ReadsMine, At,
        AdminPilotEnsure, AdminPilotRelist, Same, Kin, Goes, Locking
  <2>. QED
    BY <1>2, <2>1 DEF Frees, Fails, Claims, WritePilot, Lists, Goes, Same, Kin
<1>. QED
  BY <1>1, <1>2

(* No edit of the pilot frees the claim that the user's request needs.     *)
LEMMA SingleFreed ==
  ASSUME Rooting, Staging, NEW r \in Requests, NEW u \in Users, Passing(r, u),
         NEW p \in Pilots, Of(p, u)', NEW t \in Requests, NEW s \in Requests, Frees(req'[s], p),
         Seeks(req'[t], u) \/ (Makes(req'[t], u) /\ req'[t].pilot = p)
  PROVE  req'[s].email # user[u].email
<1>0. Types /\ RequestStep(r) /\ Sound(u)' /\ u \notin relinked' /\ user[u].email \in Emails
  BY PassingIs DEF Rooting, Passing
<1>1. Of(p, u) \/ (Claims(r) /\ Seeks(req[r], u) /\ req[r].pilot = p)
  BY <1>0, OfNext
<1>2. /\ req'[s].email = req[s].email /\ req[s].op = "editPilot" /\ req[s].pilot = p
      /\ Frees(req[s], p) \/ (s = r /\ Claims(r) /\ claims[req[r].email] = None)
  BY <1>0, FreesNext
<1>3. \/ Seeks(req[t], u) \/ (Makes(req[t], u) /\ req[t].pilot = p)
      \/ t = r /\ Still /\ user[u].pilot = None /\ (BeginsMine(r) \/ ReadsAdmin(r))
      \/ t = r /\ Claims(r) /\ Seeks(req[r], u) /\ req[r].pilot = p
  BY <1>0, SeeksNext, MakesNext
<1>4. CASE s = r /\ Claims(r) /\ claims[req[r].email] = None
  <2>1. ~Seeks(req[r], u) /\ ~BeginsMine(r) /\ ~ReadsAdmin(r)
    BY <1>2, <1>4, IdleIs DEF Seeks, BeginsMine, Enters, ReadsAdmin, At, Claims
  <2>2. claims[user[u].email] = p
    BY <1>1, <1>3, <2>1 DEF Passing, Paired, Single, Asks
  <2>. QED
    BY <1>2, <1>4, <2>2, ConstantTypes
<1>5. ASSUME Of(p, u), Frees(req[s], p) PROVE req[s].email # user[u].email
  <2>1. CASE Seeks(req[t], u) \/ (Makes(req[t], u) /\ req[t].pilot = p)
    BY <1>5, <2>1 DEF Passing, Paired, Single
  <2>2. CASE user[u].pilot = None
    <3>1. PICK x \in Requests : Makes(req[x], u) /\ req[x].pilot = p
      BY <1>5, <2>2, ConstantTypes DEF Passing, Paired, Single
    <3>. QED
      BY <1>5, <3>1 DEF Passing, Paired, Single
  <2>3. CASE Seeks(req[r], u)
    BY <1>5, <2>3 DEF Passing, Paired, Single
  <2>. QED
    BY <1>3, <2>1, <2>2, <2>3
<1>6. ASSUME Seeks(req[r], u), req[r].pilot = p, Frees(req[s], p) PROVE Of(p, u)
  <2>0. s # r /\ Alone(r) /\ Staged(req[s])
    BY <1>6 DEF Frees, Seeks, Staging
  <2>1. req[r].op = "adminPilot"
    BY <1>6, <2>0 DEF Frees, Seeks, Alone
  <2>2. p = OwnPilot[u]
    BY <1>0, <1>6, <2>1, RequestIs DEF Seeks, Shaped
  <2>3. pilot[p] # None
    BY <1>6, <2>0, <2>2 DEF Frees, Staged
  <2>. QED
    BY <2>2, <2>3 DEF Passing, Apart, Of
<1>. QED
  BY <1>1, <1>2, <1>4, <1>5, <1>6

LEMMA AsksKept ==
  ASSUME Rooting, Staging, Owning, NEW r \in Requests, NEW u \in Users, Passing(r, u),
         NEW t \in Requests, NEW p, p = user'[u].pilot
  PROVE  /\ Makes(req'[t], u) =>
              req'[t].email = user[u].email /\ claims'[user[u].email] = req'[t].pilot
         /\ Seeks(req'[t], u) => req'[t].email = user[u].email
         /\ Builds(req'[t], u) /\ p # None => Belongs(p, u)'
<1>0. Types /\ RequestStep(r) /\ Sound(u)' /\ u \notin relinked' /\ user[u].email \in Emails /\ Live(u)
      /\ user[u].pilot \in Pilots \union {None}
  BY PassingIs DEF Rooting, Passing
<1>1. ASSUME Makes(req'[t], u)
      PROVE  req'[t].email = user[u].email /\ claims'[user[u].email] = req'[t].pilot
  <2>1. /\ req'[t].pilot = req[t].pilot /\ req'[t].email = req[t].email
        /\ Makes(req[t], u) \/ (t = r /\ Claims(r) /\ Seeks(req[r], u))
    BY <1>0, <1>1, MakesNext
  <2>2. CASE t = r /\ Claims(r) /\ Seeks(req[r], u)
    <3>1. req[r].email = user[u].email
      BY <2>2 DEF Passing, Paired, Asks
    <3>. QED
      BY <1>0, <2>1, <2>2, <3>1, DocumentsAre DEF Claims, Documents
  <2>3. CASE Makes(req[t], u)
    <3>. PICK q : q = req[t].pilot
      OBVIOUS
    <3>1. q \in Pilots
      BY <1>0, <2>3, RequestIs, MakerMine DEF Makes, Made
    <3>2. req[t].email = user[u].email /\ claims[user[u].email] = q /\ Of(q, u)
      BY <2>3 DEF Passing, Paired, Asks, Of
    <3>3. ~(Undo(r) /\ req[r].op # "editPilot" /\ req[r].pilot = q)
      <4>. SUFFICES ASSUME Undo(r), req[r].op # "editPilot", req[r].pilot = q PROVE FALSE
        OBVIOUS
      <4>1. ~Of(q, u)'
        BY <1>0, Undone
      <4>. QED
        BY <1>1, <2>1, <4>1 DEF Of
    <3>. QED
      BY <2>1, <2>3, <3>1, <3>2, <3>3, ClaimHolds
  <2>. QED
    BY <2>1, <2>2, <2>3
<1>2. ASSUME Seeks(req'[t], u) PROVE req'[t].email = user[u].email
  BY <1>0, <1>2, SeeksNext DEF Passing, Paired, Asks
<1>3. ASSUME Builds(req'[t], u), p # None PROVE Belongs(p, u)'
  <2>1. CASE /\ MyPilotWrite(r) \/ AdminPilotLink(r)
             /\ Belongs(req[r].pilot, u) /\ p = req[r].pilot
    BY <2>1 DEF MyPilotWrite, AdminPilotLink, pilots, Belongs
  <2>2. CASE user[u].pilot = p
    <3>1. ~(Undo(r) /\ req[r].op = "myPilot" /\ req[r].pilot = p /\ req[r].user = u)
      BY <1>0, <2>2, Writers DEF Owning, Unlinked, Linked, Live
    <3>2. Builds(req[t], u) \/ user[u].pilot = None
      BY <1>0, <1>3, BuildsNext
    <3>3. Belongs(p, u) /\ p \in Pilots
      BY <1>0, <1>3, <2>2, <3>2 DEF Passing, Paired, Asks
    <3>. QED
      BY <1>0, <3>1, <3>3, BelongsStays DEF Passing, Apart
  <2>. QED
    BY <2>1, <2>2, PassingIs
<1>. QED
  BY <1>1, <1>2, <1>3

(* The record that was read is written, unless the process dies.           *)
LEMMA TurningEnds ==
  ASSUME NEW r \in Requests, RequestStep(r), req[r].op = "email", req[r].at = "user"
  PROVE  EmailUser(r) \/ Crash(r)
<1>1. CASE BeginsRegister(r)
  BY <1>1, IdleIs DEF BeginsRegister, Enters, Same, Kin, Locking, Makers
<1>2. CASE BeginsFor(r)
  BY <1>2, IdleIs DEF BeginsFor, Enters, Same, Kin, Locking, Makers
<1>3. CASE BeginsMine(r)
  BY <1>3, IdleIs DEF BeginsMine, Enters, Same, Kin, Locking, Makers
<1>4. CASE BeginsNew(r)
  BY <1>4, IdleIs DEF BeginsNew, Enters, Same, Kin, Locking, Makers
<1>5. CASE BeginsEdit(r)
  BY <1>5, IdleIs DEF BeginsEdit, Enters, Same, Kin, Locking, Makers
<1>6. CASE Locks(r)
  BY <1>6, IdleIs DEF Locks, Goes, Same, Kin, Locking, Makers
<1>7. CASE Remints(r)
  BY <1>7, IdleIs DEF Remints, Goes, At, Same, Kin, Locking, Makers
<1>8. CASE Fails(r)
  BY <1>8, IdleIs DEF Fails, Goes, Same, Kin, Locking, Makers
<1>9. CASE Retries(r)
  BY <1>9, IdleIs DEF Retries, Goes, At, Same, Kin, Locking, Makers
<1>10. CASE Stops(r)
  BY <1>10, IdleIs DEF Stops, At, Ends, Same, Kin, Locking, Makers
<1>11. CASE Finds(r)
  BY <1>11, IdleIs DEF Finds, Reads, Same, Kin, Locking, Makers
<1>12. CASE Loses(r)
  BY <1>12, IdleIs DEF Loses, Reads, Same, Kin, Locking, Makers
<1>13. CASE ReadsVersion(r)
  BY <1>13, IdleIs DEF ReadsVersion, Reads, Same, Kin, Locking, Makers
<1>14. CASE ReadsRoles(r)
  BY <1>14, IdleIs DEF ReadsRoles, Reads, Same, Kin, Locking, Makers
<1>15. CASE ReadsDelete(r)
  BY <1>15, IdleIs DEF ReadsDelete, Reads, Same, Kin, Locking, Makers
<1>16. CASE ReadsEmail(r)
  BY <1>16, IdleIs DEF ReadsEmail, Reads, Same, Kin, Locking, Makers
<1>17. CASE ReadsAdmin(r)
  BY <1>17, IdleIs DEF ReadsAdmin, At, Same, Kin, Locking, Makers
<1>18. CASE ReadsMine(r)
  BY <1>18, IdleIs DEF ReadsMine, At, Same, Kin, Locking, Makers
<1>19. CASE BeginsVerify(r)
  BY <1>19, IdleIs DEF BeginsVerify, Enters, Same, Kin, Locking, Makers
<1>20. CASE RegisterCred(r) /\ Goes(r, "find")
  BY <1>20, IdleIs DEF RegisterCred, Goes, At, Same, Kin, Locking, Makers
<1>21. CASE RegisterUser(r) /\ Goes(r, "index")
  BY <1>21, IdleIs DEF RegisterUser, Goes, At, Same, Kin, Locking, Makers
<1>22. CASE WinsAddress(r)
  BY <1>22, IdleIs DEF WinsAddress, Goes, At, Same, Kin, Locking, Makers
<1>23. CASE Collects(r)
  BY <1>23, IdleIs DEF Collects, At, Same, Kin, Locking, Makers
<1>24. CASE RegisterAccept(r) /\ Goes(r, "mint")
  BY <1>24, IdleIs DEF RegisterAccept, Goes, At, Same, Kin, Locking, Makers
<1>25. CASE MintLink(r) /\ Ends(r)
  BY <1>25, IdleIs DEF MintLink, Ends, Same, Kin, Locking, Makers
<1>26. CASE VerifyCred(r) /\ Ends(r)
  BY <1>26, IdleIs DEF VerifyCred, Ends, At, Same, Kin, Locking, Makers
<1>27. CASE RolesWrite(r) /\ Ends(r)
  BY <1>27, IdleIs DEF RolesWrite, Ends, At, Same, Kin, Locking, Makers
<1>28. CASE DeleteTomb(r) /\ Goes(r, "unindex")
  BY <1>28, IdleIs DEF DeleteTomb, Goes, At, Same, Kin, Locking, Makers
<1>29. CASE DeleteIndex(r) /\ Goes(r, "uncred")
  BY <1>29, IdleIs DEF DeleteIndex, Goes, At, Same, Kin, Locking, Makers
<1>30. CASE Drops(r)
  BY <1>30, IdleIs DEF Drops, DeleteCred, Goes, At, Same, Kin, Locking, Makers
<1>31. CASE DeleteUser(r) /\ Ends(r)
  BY <1>31, IdleIs DEF DeleteUser, Ends, At, Same, Kin, Locking, Makers
<1>32. CASE MovesIndex(r)
  BY <1>32, IdleIs DEF MovesIndex, Goes, At, Same, Kin, Locking, Makers
<1>33. CASE Unverifies(r)
  BY <1>33, IdleIs DEF Unverifies, EmailUnverify, Goes, At, Same, Kin, Locking, Makers
<1>34. CASE EmailUser(r) /\ Goes(r, "sweep")
  BY <1>34, IdleIs DEF EmailUser, Goes, At, Same, Kin, Locking, Makers
<1>35. CASE EmailSweep(r) /\ Goes(r, "mint")
  BY <1>35, IdleIs DEF EmailSweep, Goes, At, Same, Kin, Locking, Makers
<1>36. CASE DeleteLink(r) /\ Goes(r, "unclaim")
  BY <1>36, IdleIs DEF DeleteLink, Goes, At, Same, Kin, Locking, Makers
<1>37. CASE DeleteClaim(r) /\ Goes(r, "unuser")
  BY <1>37, IdleIs DEF DeleteClaim, Goes, At, Same, Kin, Locking, Makers
<1>38. CASE MovesClaim(r)
  BY <1>38, IdleIs DEF MovesClaim, Goes, At, Same, Kin, Locking, Makers
<1>39. CASE LosesClaim(r)
  BY <1>39, IdleIs DEF LosesClaim, Ends, At, Same, Kin, Locking, Makers
<1>40. CASE AdminPilotEnsure(r) /\ Goes(r, "relist")
  BY <1>40, IdleIs DEF AdminPilotEnsure, Goes, At, Same, Kin, Locking, Makers
<1>41. CASE AdminPilotRelist(r) /\ Goes(r, "reclaim")
  BY <1>41, IdleIs DEF AdminPilotRelist, Goes, At, Same, Kin, Locking, Makers
<1>42. CASE AdminPilotReclaim(r) /\ Ends(r)
  BY <1>42, IdleIs DEF AdminPilotReclaim, Ends, At, Same, Kin, Locking, Makers
<1>43. CASE AdminPilotLink(r) /\ Ends(r)
  BY <1>43, IdleIs DEF AdminPilotLink, Ends, At, Same, Kin, Locking, Makers
<1>44. CASE Claims(r)
  BY <1>44, IdleIs DEF Claims, Same, Kin, Locking, Makers
<1>45. CASE WritePilot(r) /\ Goes(r, "list")
  BY <1>45, IdleIs DEF WritePilot, Goes, Same, Kin, Locking, Makers
<1>46. CASE Lists(r)
  BY <1>46, IdleIs DEF Lists, Goes, Ends, Same, Kin, Locking, Makers
<1>47. CASE MyPilotWrite(r) /\ Ends(r)
  BY <1>47, IdleIs DEF MyPilotWrite, Ends, At, Same, Kin, Locking, Makers
<1>48. CASE Undo(r) /\ Ends(r)
  BY <1>48, IdleIs DEF Undo, Ends, Same, Kin, Locking, Makers
<1>49. CASE Crash(r) /\ Ends(r)
  BY <1>49, IdleIs DEF Crash, Ends, Same, Kin, Locking, Makers
<1>. QED
  BY <1>1, <1>2, <1>3, <1>4, <1>5, <1>6, <1>7, <1>8, <1>9, <1>10, <1>11, <1>12, <1>13, <1>14,
     <1>15, <1>16, <1>17, <1>18, <1>19, <1>20, <1>21, <1>22, <1>23, <1>24, <1>25, <1>26, <1>27,
     <1>28, <1>29, <1>30, <1>31, <1>32, <1>33, <1>34, <1>35, <1>36, <1>37, <1>38, <1>39, <1>40,
     <1>41, <1>42, <1>43, <1>44, <1>45, <1>46, <1>47, <1>48, <1>49 DEF RequestStep, QuietStep,
     AccountStep, PilotStep

LEMMA PairedKept ==
  ASSUME Rooting, Staging, Owning, NEW r \in Requests, NEW u \in Users, Passing(r, u)
  PROVE  Paired(u)'
<1>0. user'[u].email = user[u].email
  BY PassingIs
<1>1. ASSUME NEW p \in Pilots, Of(p, u)' PROVE Single(p, u)'
  BY <1>0, <1>1, SingleLinked, SingleMade, SingleSought, SingleFreed DEF Single
<1>2. ASSUME NEW t \in Requests PROVE Asks(req[t], u)'
  BY <1>0, AsksKept DEF Asks
<1>. QED
  BY <1>1, <1>2 DEF Paired

LEMMA TurningNext ==
  ASSUME Types, NEW r \in Requests, RequestStep(r), NEW u, NEW s \in Requests, Turning(req'[s], u)
  PROVE  /\ req'[s].doc = req[s].doc /\ req[s].user = u /\ Changing(req[s])
         /\ s # r => req'[s] = req[s]
         /\ s = r => user' = user /\ ~Claims(r)
<1>0. Becomes(r)
  BY StepBecomes
<1>1. CASE s # r
  BY <1>0, <1>1 DEF Becomes, Turning, Changing
<1>2. CASE s = r
  <2>1. Changing(req[r]) /\ req'[r].doc = req[r].doc /\ req[r].user = u
    BY <1>2, ChangingIs DEF Turning, Changing, ReadsEmail, Reads
  <2>2. ~EmailUser(r)
    <3>1. EmailUser(r) => req'[r].at = "sweep"
      BY GotoIs DEF EmailUser, Places
    <3>. QED
      BY <1>2, <3>1 DEF Turning
  <2>. QED
    BY <1>2, <2>1, <2>2, Writers
    DEF Changing, RegisterUser, Collects, RegisterAccept, RolesWrite, DeleteUser, AdminPilotLink,
        MyPilotWrite, At, Claims, Makers
<1>. QED
  BY <1>1, <1>2

(* While the address of an account changes, its record is written by the   *)
(* request of its user only.                                               *)
LEMMA ChangingAlone ==
  ASSUME Rooting, NEW r \in Requests, RequestStep(r), NEW u \in Users, Rooted(u), Sound(u)', u \notin relinked',
         NEW s \in Requests, s # r, Changing(req[s])
  PROVE  user'[u] = user[u] \/ (MyPilotWrite(r) /\ req[r].user = u)
<1>0. Types /\ u # None /\ u \notin lost'
  BY ConstantTypes DEF Rooting, Sound
<1>1. CASE req[r].user # u
  BY <1>0, <1>1, OthersStay
<1>2. CASE req[r].user = u /\ RegisterAccept(r)
  <2>1. user[u] = req[r].doc
    BY <1>0, <1>2 DEF RegisterAccept, WrittenOver
  <2>. QED
    BY <1>0, <1>2, <2>1, DocumentsAre DEF RegisterAccept, Documents
<1>3. ~Holds(req[r])
  BY HoldsOnce DEF Changing, Holds, Locking
<1>4. ~(RolesWrite(r) \/ DeleteUser(r) \/ EmailUser(r) \/ AdminPilotLink(r))
  BY <1>3 DEF RolesWrite, DeleteUser, EmailUser, AdminPilotLink, At, Holds, Locking
<1>5. req[r].user = u => ~(RegisterUser(r) \/ Collects(r))
  BY RootedIsNoNewcomer DEF RegisterUser, Collects, At, Newcomer
<1>. QED
  BY <1>1, <1>2, <1>4, <1>5, Writers

LEMMA TurnedKept ==
  ASSUME Rooting, Staging, Owning, NEW r \in Requests, RequestStep(r),
         NEW u \in Users, Live(u), Rooted(u), Sound(u)', u \notin relinked', Apart(u),
         (\A t \in Requests : ~Turning(req[t], u)) => Paired(u),
         \A t \in Requests : Turning(req[t], u) => Turned(req[t], u),
         NEW s \in Requests, Turning(req'[s], u), NEW p \in Pilots, Of(p, u)',
         user'[u] = req'[s].doc
  PROVE  req'[s].doc.pilot = p \/ \E t \in Requests : Makes(req'[t], u) /\ req'[t].pilot = p
<1>. PICK d : d = req[s].doc
  OBVIOUS
<1>0. /\ Types /\ req'[s].doc = d /\ req[s].user = u /\ Changing(req[s]) /\ Carries(req[s])
      /\ s = r => user' = user /\ ~Claims(r)
  BY TurningNext DEF Rooting, Changing, Carries
<1>1. CASE Claims(r) /\ req[r].pilot = p /\ Makes(req'[r], u)
  BY <1>1 DEF Claims, Kin
<1>2. ASSUME MyPilotWrite(r), req[r].user = u PROVE FALSE
  <2>1. d.pilot # req[r].pilot
    BY <1>0, <1>2, Writers DEF MyPilotWrite, At, Owning, Unlinked, Linked
  <2>2. req[r].doc \in Records
    BY <1>0, <1>2, RequestIs DEF MyPilotWrite, At, Shaped, Carries
  <2>. PICK next : next = [req[r].doc EXCEPT !.pilot = req[r].pilot]
    OBVIOUS
  <2>3. next.pilot = req[r].pilot
    BY <2>2 DEF Records
  <2>4. user'[u] = next
    BY <1>0, <1>2, DocumentsAre DEF MyPilotWrite, Documents
  <2>. QED
    BY <1>0, <2>1, <2>3, <2>4
<1>3. user[u] = d
  BY <1>0, <1>2, ChangingAlone
<1>4. ASSUME NEW t \in Requests, Makes(req[t], u), req[t].pilot = p
      PROVE  \E x \in Requests : Makes(req'[x], u) /\ req'[x].pilot = p
  <2>1. CASE Makes(req'[t], u)
    BY <1>0, <1>4, <2>1, MakesNext
  <2>2. ~AdminPilotLink(r)
    <3>1. Holds(req[s])
      BY <1>0 DEF Changing, Holds, Locking
    <3>2. AdminPilotLink(r) => Holds(req[r]) /\ req[r].op # "email"
      BY DEF AdminPilotLink, At, Holds, Locking
    <3>. QED
      BY <1>0, <3>1, <3>2, HoldsOnce DEF Changing
  <2>3. CASE t = r /\ Undo(r) /\ req[r].op = "myPilot"
    BY <1>0, <1>4, <2>3, Undone
  <2>4. CASE t = r /\ MyPilotWrite(r)
    BY <1>2, <1>4, <2>4 DEF Makes
  <2>. QED
    BY <1>0, <1>4, <2>1, <2>2, <2>3, <2>4, MakesEnds
<1>5. CASE Of(p, u)
  <2>1. CASE \E t \in Requests : Turning(req[t], u)
    <3>1. Turning(req[s], u)
      BY <1>0, <2>1, HoldsOnce DEF Turning, Changing, Holds, Locking
    <3>. QED
      BY <1>0, <1>3, <1>4, <1>5, <3>1 DEF Turned
  <2>2. CASE ~\E t \in Requests : Turning(req[t], u)
    BY <1>0, <1>3, <1>4, <1>5, <2>2 DEF Paired, Single
  <2>. QED
    BY <2>1, <2>2
<1>. QED
  BY <1>0, <1>1, <1>5, OfNext

(* The record is written with the address, and nobody makes a pilot then.  *)
LEMMA TurnedEnds ==
  ASSUME Rooting, Staging, Owning, NEW r \in Requests, RequestStep(r), EmailUser(r),
         NEW u \in Users, Rooted(u), Sound(u)', u \notin relinked', req[r].user = u, Turned(req[r], u)
  PROVE  Paired(u)'
<1>. PICK d : d = req[r].doc
  OBVIOUS
<1>0. /\ Types /\ Becomes(r) /\ u \notin torn' /\ u \notin lost' /\ d \in Records
  BY StepBecomes, RequestIs DEF Rooting, Sound, EmailUser, At, Shaped, Carries
<1>1. user[u] = d
  BY <1>0 DEF EmailUser, WrittenOver
<1>2. ASSUME NEW t \in Requests, req[t].user = u, req[t].op \in {"myPilot", "adminPilot"}
      PROVE  req[t].op = "adminPilot" /\ req[t].at = "lock"
  <2>1. req[t].op # "myPilot"
    BY <1>0, <1>2 DEF EmailUser
  <2>2. t # r /\ Holds(req[r])
    BY <1>2 DEF EmailUser, At, Holds, Locking
  <2>. QED
    BY <1>2, <2>1, <2>2, HoldsOnce DEF Holds, Locking
<1>3. ASSUME NEW t \in Requests PROVE ~Makes(req'[t], u) /\ ~Seeks(req'[t], u) /\ ~Builds(req'[t], u)
  <2>1. CASE t # r
    BY <1>0, <1>2, <2>1 DEF Becomes, Makes, Made, Seeks, Builds
  <2>2. CASE t = r
    <3>1. req'[r].op = "email"
      BY <1>0, GotoIs DEF EmailUser, Places, At, Same, Kin
    <3>. QED
      BY <2>2, <3>1 DEF Makes, Seeks, Builds
  <2>. QED
    BY <2>1, <2>2
<1>4. user'[u].pilot = d.pilot
  <2>. PICK next : next = [d EXCEPT !.email = req[r].email]
    OBVIOUS
  <2>1. next.pilot = d.pilot
    BY <1>0 DEF Records
  <2>2. user'[u] = next
    BY <1>0, DocumentsAre DEF EmailUser, Documents
  <2>. QED
    BY <2>1, <2>2
<1>5. ASSUME NEW p \in Pilots, Of(p, u)' PROVE user'[u].pilot = p
  <2>1. Of(p, u)
    BY <1>0, <1>5, OfNext DEF EmailUser, At, Claims, Makers
  <2>2. ~\E t \in Requests : Makes(req[t], u)
    BY <1>2 DEF Makes, Made
  <2>. QED
    BY <1>1, <1>4, <2>1, <2>2 DEF Turned
<1>. QED
  BY <1>3, <1>5 DEF Paired, Single, Asks

(* Nobody knows an account before it has won its address.                  *)
LEMMA NewlySettled ==
  ASSUME Rooting, NEW r \in Requests, RequestStep(r), WinsAddress(r),
         NEW u \in Users, req[r].user = u, Newcomer(req[r])
  PROVE  Apart(u)' /\ Paired(u)' /\ \A s \in Requests : ~Turning(req'[s], u)
<1>0. /\ Types /\ Origins /\ Becomes(r) /\ ~Rooted(u) /\ u # None /\ pilot' = pilot
      /\ \A s \in Requests \ {r} : req[s].user # u
  <2>1. Fits(req[r]) /\ \A s \in Requests \ {r} : req[s].user # u
    BY DEF Rooting, Newcomers
  <2>. QED
    BY <2>1, StepBecomes, ConstantTypes DEF Rooting, Rooted, Fits, WinsAddress, pilots
<1>1. req'[r].op = "register"
  BY DEF WinsAddress, Goes, Same, Kin, At
<1>2. \A p \in Pilots : ~Belongs(p, u)'
  BY <1>0 DEF Origins, Belongs
<1>3. pilot'[OwnPilot[u]] = None
  BY <1>0 DEF Origins
<1>4. ASSUME NEW s \in Requests
      PROVE  /\ ~Makes(req'[s], u) /\ ~Seeks(req'[s], u) /\ ~Builds(req'[s], u)
             /\ ~Turning(req'[s], u) /\ ~(req'[s].op = "adminPilot" /\ req'[s].user = u)
  <2>1. req'[s].user # u \/ req'[s].op = "register"
    BY <1>0, <1>1 DEF Becomes
  <2>. QED
    BY <2>1 DEF Makes, Seeks, Builds, Turning
<1>5. ASSUME NEW s \in Requests, req'[s].op = "editPilot"
      PROVE  req'[s].pilot \in Pilots /\ req'[s].pilot # OwnPilot[u]
  <2>1. s # r /\ req'[s] = req[s]
    BY <1>0, <1>1, <1>5 DEF Becomes
  <2>. QED
    BY <1>0, <1>5, <2>1, RequestIs DEF Origins, RequestRooted, Shaped
<1>6. Apart(u)'
  <2>1. ASSUME NEW s \in Requests PROVE Sides(req[s], u)'
    BY <1>2, <1>4, <1>5 DEF Sides
  <2>. QED
    BY <1>3, <2>1 DEF Apart
<1>7. Paired(u)'
  <2>1. \A p \in Pilots : ~Of(p, u)'
    BY <1>2, <1>4 DEF Of
  <2>2. ASSUME NEW s \in Requests PROVE Asks(req[s], u)'
    BY <1>4 DEF Asks
  <2>. QED
    BY <2>1, <2>2 DEF Paired
<1>. QED
  BY <1>4, <1>6, <1>7

LEMMA OwningKept ==
  ASSUME Rooting, Staging, Owning, NEW r \in Requests, RequestStep(r)
  PROVE  Owning'
<1>1. Owned'
  BY OwnedKept DEF Owned, Owning, Rooting
<1>2. ASSUME NEW s \in Requests PROVE Unlinked(req[s])'
  <2>. PICK p : p = req'[s].pilot
    OBVIOUS
  <2>. PICK v : v = req'[s].user
    OBVIOUS
  <2>1. req'[s].op = "myPilot" /\ v \notin relinked' =>
          /\ user'[v] # None => user'[v].pilot # p
          /\ \A t \in Requests : Carries(req'[t]) /\ req'[t].user = v => req'[t].doc.pilot # p
    BY UnlinkedKept DEF Owning
  <2>. QED
    BY <2>1 DEF Unlinked, Linked, Carries
<1>. QED
  BY <1>1, <1>2 DEF Owning

LEMMA OneEachKept ==
  ASSUME Rooting, Staging, Belonging, NEW r \in Requests, RequestStep(r),
         NEW u \in Users, Settled(u)'
  PROVE  /\ Apart(u)'
         /\ (\A t \in Requests : ~Turning(req'[t], u)) => Paired(u)'
         /\ \A s \in Requests : Turning(req'[s], u) => Turned(req[s], u)'
<1>0. Live(u)' /\ Rooted(u)' /\ Sound(u)' /\ u \notin relinked' /\ Owning /\ tomb'[u] = None /\ Types
  BY DEF Settled, Belonging, Live, Rooting
<1>1. CASE WinsAddress(r) /\ req[r].user = u /\ Newcomer(req[r])
  BY <1>1, NewlySettled
<1>2. CASE Rooted(u) /\ Live(u)
  <2>0. /\ Apart(u)
        /\ (\A t \in Requests : ~Turning(req[t], u)) => Paired(u)
        /\ \A t \in Requests : Turning(req[t], u) => Turned(req[t], u)
    BY <1>0, <1>2, SoundBefore, Writers DEF Belonging, OneEach, Settled
  <2>1. Apart(u)'
    <3>1. pilot'[OwnPilot[u]] # None => Belongs(OwnPilot[u], u)'
      <4>. PICK p \in Pilots : p = OwnPilot[u]
        BY ConstantTypes
      <4>1. pilot'[p] # None => Belongs(p, u)'
        BY <1>0, <1>2, <2>0, OwnsKept
      <4>. QED
        BY <4>1 DEF Belongs
    <3>2. ASSUME NEW s \in Requests PROVE Sides(req[s], u)'
      <4>. PICK p : p = req'[s].pilot
        OBVIOUS
      <4>1. p \in Pilots \/ ~(Makes(req'[s], u) \/ req'[s].op \in {"adminPilot", "editPilot"})
        <5>1. Shaped(req'[s]) /\ req'[s].op \in {"adminPilot", "editPilot", "myPilot"} => p \in Pilots
          BY ConstantTypes DEF Shaped, Locking
        <5>2. Shaped(req'[s])
          BY <1>0, StepBecomes, RequestIs DEF Becomes
        <5>. QED
          BY <5>1, <5>2 DEF Makes
      <4>2. p \in Pilots =>
              /\ Makes(req'[s], u) /\ req'[s].at \in {"list", "link", "write"} => Belongs(p, u)'
              /\ req'[s].op = "adminPilot" /\ req'[s].at = "claim" /\ req'[s].user = u => user'[u].pilot # p
              /\ req'[s].op = "editPilot" /\ (Belongs(p, u)' \/ p = OwnPilot[u]) => req'[s].doc.user = u
        BY <1>0, <1>2, <2>0, SidesKept
      <4>. QED
        BY <4>1, <4>2 DEF Sides, Belongs
    <3>. QED
      BY <3>1, <3>2 DEF Apart
  <2>2. ASSUME \A t \in Requests : ~Turning(req'[t], u) PROVE Paired(u)'
    <3>1. CASE \A t \in Requests : ~Turning(req[t], u)
      <4>1. ~(MovesClaim(r) /\ req[r].user = u)
        BY <2>2 DEF MovesClaim, Goes, Same, Kin, At, Turning
      <4>. QED
        BY <1>0, <1>2, <2>0, <3>1, <4>1, PairedKept DEF Passing
    <3>2. ASSUME NEW t \in Requests, Turning(req[t], u) PROVE Paired(u)'
      <4>1. t = r
        BY <2>2, <3>2, StepBecomes DEF Becomes
      <4>2. EmailUser(r) \/ Crash(r)
        BY <3>2, <4>1, TurningEnds DEF Turning
      <4>3. ~Crash(r)
        BY <1>0, <3>2, <4>1, ConstantTypes DEF Crash, Sound, Turning
      <4>. QED
        BY <1>0, <1>2, <2>0, <3>2, <4>1, <4>2, <4>3, TurnedEnds DEF Turning
    <3>. QED
      BY <3>1, <3>2
  <2>3. ASSUME NEW s \in Requests, Turning(req'[s], u) PROVE Turned(req[s], u)'
    BY <1>0, <1>2, <2>0, <2>3, TurnedKept DEF Turned
  <2>. QED
    BY <2>1, <2>2, <2>3
<1>. QED
  BY <1>0, <1>1, <1>2, SettledBefore

LEMMA BelongingKept ==
  ASSUME Rooting, Staging, Belonging, Step
  PROVE  Belonging'
<1>1. CASE \E r \in Requests : RequestStep(r)
  BY <1>1, OwningKept, OneEachKept DEF Belonging, OneEach
<1>2. CASE UNCHANGED <<user, tomb, pilots, req, lost, relinked>> /\ torn \subseteq torn'
  <2>0. UNCHANGED <<user, tomb, claims, pilot, listed, req, lost, relinked>>
    BY <1>2 DEF pilots
  <2>1. Owning'
    BY <2>0 DEF Belonging, Owning, Owned, Mine, Unlinked, Linked, Carries
  <2>2. ASSUME NEW u \in Users, Settled(u)'
        PROVE  /\ Apart(u)'
               /\ (\A t \in Requests : ~Turning(req'[t], u)) => Paired(u)'
               /\ \A s \in Requests : Turning(req'[s], u) => Turned(req[s], u)'
    <3>1. Settled(u)
      BY <1>2, <2>0, <2>2 DEF Settled, Live, Rooted, Sound, Newcomer
    <3>2. /\ Apart(u)
          /\ (\A t \in Requests : ~Turning(req[t], u)) => Paired(u)
          /\ \A t \in Requests : Turning(req[t], u) => Turned(req[t], u)
      BY <3>1 DEF Belonging, OneEach
    <3>3. \A p \in Pilots : (Of(p, u)' <=> Of(p, u)) /\ (Belongs(p, u)' <=> Belongs(p, u))
      BY <2>0 DEF Of, Belongs
    <3>4. Apart(u) => Apart(u)'
      BY <2>0 DEF Apart, Sides, Belongs
    <3>5. Paired(u) => Paired(u)'
      BY <2>0, <3>3 DEF Paired, Single, Asks, Belongs
    <3>6. \A s \in Requests : Turned(req[s], u) => Turned(req[s], u)'
      BY <2>0, <3>3 DEF Turned
    <3>. QED
      BY <2>0, <3>2, <3>4, <3>5, <3>6
  <2>. QED
    BY <2>1, <2>2 DEF Belonging, OneEach
<1>3. ASSUME NEW u \in Users, AdminVerify(u) \/ Bump(u) PROVE Belonging'
  BY <1>2, <1>3 DEF AdminVerify, Bump, history
<1>4. CASE UNCHANGED vars
  BY <1>2, <1>4 DEF vars, accounts, history
<1>. QED
  BY <1>1, <1>3, <1>4 DEF Step

LEMMA BelongingAtFirst ==
  ASSUME Init
  PROVE  Staging /\ Belonging
<1>1. Types
  BY InitIs
<1>2. \A r \in Requests : req[r].op = "none" /\ req[r].doc = None /\ req[r].user = None /\ req[r].pilot = None
  BY IdleIs DEF Init
<1>3. /\ \A p \in Pilots : pilot[p] = None
      /\ \A e \in Emails : claims[e] = None
      /\ \A u \in Users : tomb[u] = None
  BY DEF Init
<1>4. \A u \in Users : user[u] # None => user[u].pilot = None
  BY DEF Init
<1>5. \A p \in Pilots : ~Named(p)
  BY <1>2, <1>3, <1>4, ConstantTypes DEF Named
<1>6. Staging
  <2>1. \A r \in Requests : Alone(r) /\ Staged(req[r])
    BY <1>2 DEF Alone, Staged, Makers
  <2>2. \A u \in Users, p \in Pilots : ~Linked(u, p)
    BY <1>2, <1>4, ConstantTypes DEF Linked, Carries
  <2>3. \A p \in Pilots : Backed(p)
    BY <1>3, <1>5, ConstantTypes DEF Backed
  <2>. QED
    BY <2>1, <2>2, <2>3, ConstantTypes DEF Staging
<1>7. Owning
  BY <1>2, <1>3 DEF Owning, Owned, Unlinked
<1>8. ASSUME NEW u \in Users PROVE OneEach(u)
  <2>1. \A r \in Requests :
          ~Makes(req[r], u) /\ ~Seeks(req[r], u) /\ ~Builds(req[r], u) /\ ~Turning(req[r], u)
    BY <1>2 DEF Makes, Seeks, Builds, Turning
  <2>2. \A p \in Pilots : ~Of(p, u)
    BY <1>3, <2>1 DEF Of, Belongs
  <2>. QED
    BY <1>2, <1>3, <2>1, <2>2, ConstantTypes DEF OneEach, Apart, Sides, Paired, Asks
<1>. QED
  BY <1>6, <1>7, <1>8 DEF Belonging

(* Account, pilot and claim on the address belong together when nobody     *)
(* works on them: a pilot made for an account, by its user or by an        *)
(* administrator or by both at once, is the one the account is linked to   *)
(* (linkUserToPilot, adminCreatePilotForUser), and an address is claimed for  *)
(* a pilot that exists and is listed, or the failed request has given the  *)
(* claim back (issue #126).                                                *)
THEOREM PilotsBelongTogether ==
  Spec => []PilotsBelong
<1>1. Init => Staging /\ Belonging
  BY BelongingAtFirst
<1>2. Rooting /\ Staging /\ Belonging /\ [Next]_vars => Staging' /\ Belonging'
  <2>. SUFFICES ASSUME Rooting, Staging, Belonging, [Next]_vars PROVE Staging' /\ Belonging'
    OBVIOUS
  <2>1. Step
    BY StepIs DEF Step, Rooting
  <2>. QED
    BY <2>1, StagingKept, BelongingKept DEF Rooting
<1>3. Rooting /\ Staging /\ Belonging => PilotsBelong
  <2>. SUFFICES ASSUME Rooting, Staging, Belonging PROVE PilotsBelong
    OBVIOUS
  <2>1. ASSUME NEW u \in Users \ relinked, NEW p \in Pilots, Live(u), Resting(u), Sound(u),
               Belongs(p, u)
        PROVE  user[u].pilot = p
    <3>1. Settled(u)
      BY <2>1, ConstantTypes DEF Settled, Rooting, Origins, Belongs
    <3>2. \A r \in Requests : ~Turning(req[r], u) /\ ~Makes(req[r], u)
      BY <2>1 DEF Resting, Turning, Makes
    <3>. QED
      BY <2>1, <3>1, <3>2 DEF Belonging, OneEach, Paired, Single, Of
  <2>2. ASSUME NEW e \in Emails, NEW p, p = claims[e], p # None, Sound(p),
               \A r \in Requests : req[r].pilot # p
        PROVE  pilot[p] # None /\ p \in listed
    <3>1. p \in Pilots
      BY <2>2, DocumentsAre DEF Documents, Rooting
    <3>. QED
      BY <2>2, <3>1 DEF Staging, Backed, There
  <2>. QED
    BY <2>1, <2>2 DEF PilotsBelong, OnePilot, ClaimBacked, Belongs
<1>. QED
  BY <1>1, <1>2, <1>3, RootingHolds, PTL DEF Spec
=============================================================================
