------------------------------ MODULE Membership ------------------------------
(***************************************************************************)
(* The club a pilot flies for in a season.  The pilot's document is the    *)
(* authority; pilot-club-map.json of the season is a copy for the pages    *)
(* that list a season's pilots.  Administrators and coordinators assign    *)
(* and remove, pilots and administrators change the club with the profile, *)
(* and registering for a round records the club the pilot named.           *)
(***************************************************************************)
EXTENDS Naturals

CONSTANTS
  Pilots, Clubs,
  Entered,   \* the clubs registered for the season
  Requests, None,
  Worlds,    \* BOUND: sets of kinds of request and of fault that may happen together
  MaxOps,    \* BOUND: requests
  MaxFaults  \* BOUND: faults

VARIABLES
  member,   \* pilots/{id}.json: the club in seasonClubs for the season
  current,  \* pilots/{id}.json: currentClub
  map,      \* seasons/{year}/pilot-club-map.json
  filed,    \* there is such a file
  lease,    \* who holds the lease of a pilot's document, or of the map
  req, ops, faults,
  behind    \* pilots of whom a request left the map behind their document

documents == <<member, current>>
copy == <<map, filed>>
vars == <<documents, copy, lease, req, ops, faults, behind>>

-----------------------------------------------------------------------------
Map == "map"
Blobs == Pilots \union {Map}
Maybe == Clubs \union {None}

Idle == [op |-> "none", at |-> "idle", pilot |-> None, club |-> None, by |-> None,
         again |-> FALSE, saw |-> <<>>]

Ops == {"assign", "remove", "change", "edit", "register"}

TypeOK ==
  /\ member \in [Pilots -> Maybe] /\ current \in [Pilots -> Maybe]
  /\ map \in [Pilots -> Maybe] /\ filed \in BOOLEAN
  /\ lease \in [Blobs -> Requests \union {None}]
  /\ ops \in 0 .. MaxOps /\ faults \in [kinds : Worlds, count : 0 .. MaxFaults]
  /\ behind \subseteq Pilots

world == faults.kinds

Fault(kind) ==
  /\ kind \in world /\ faults.count < MaxFaults
  /\ faults' = [faults EXCEPT !.count = @ + 1]

At(r, kinds, at) == req[r].op \in kinds /\ req[r].at = at
Goto(r, at) == req' = [req EXCEPT ![r].at = at]
Held(r) == {b \in Blobs : lease[b] = r}
Free(bs) == lease' = [b \in Blobs |-> IF b \in bs THEN None ELSE lease[b]]
Finish(r) == req' = [req EXCEPT ![r] = Idle] /\ Free(Held(r))

(* Another request about the pilot has written the document and not yet    *)
(* the map, and holds the lease of the document no more.                   *)
OnMap(r) == req[r].at \in {"file", "take", "read", "write"}

Trails(p, r) ==
  \E q \in Requests \ {r} : req[q].pilot = p /\ OnMap(q) /\ lease[p] # q

-----------------------------------------------------------------------------
(* What is asked.  by is the club of the coordinator who asks, or None for *)
(* an administrator; what a request reads before it takes the lease is     *)
(* read here.                                                              *)

Ask(r, request) ==
  /\ request.op \in world /\ ops < MaxOps
  /\ req[r] = Idle /\ r = CHOOSE q \in Requests : req[q] = Idle
  /\ ops' = ops + 1 /\ req' = [req EXCEPT ![r] = request]
  /\ UNCHANGED <<documents, copy, lease, faults, behind>>

New(op, at, p, c) == [Idle EXCEPT !.op = op, !.at = at, !.pilot = p, !.club = c]

AskAssign(r, p) ==
  \E c \in Entered, again \in BOOLEAN :
  \E by \in {None, c} :
    /\ again /\ by # None => member[p] \in {None, by}
    /\ Ask(r, [New("assign", "lease", p, c) EXCEPT !.by = by, !.again = again])

AskRemove(r, p) ==
  \E by \in Maybe :
    /\ by # None => member[p] = by
    /\ Ask(r, [New("remove", "lease", p, None) EXCEPT !.by = by])

(* The profile: with a club it is written under the lease, else as it was  *)
(* read.                                                                   *)
AskChange(r, p) == \E c \in Clubs : Ask(r, New("change", "lease", p, c))

AskEdit(r, p) == Ask(r, [New("edit", "put", p, None) EXCEPT !.saw = <<member[p], current[p]>>])

(* pilotClubIdForSeason: of the season, else the club the pilot named.     *)
ClubForSeason(p) == IF member[p] # None THEN member[p] ELSE current[p]

AskRegister(r, p) ==
  ClubForSeason(p) # None /\ Ask(r, New("register", "lease", p, ClubForSeason(p)))

-----------------------------------------------------------------------------
(* withPrivateLease: nobody waits for a lease.                             *)
Takes(r, b, next) ==
  /\ IF lease[b] = None
     THEN lease' = [lease EXCEPT ![b] = r] /\ Goto(r, next) /\ UNCHANGED behind
     ELSE /\ Finish(r)
          /\ behind' = IF b = Map THEN behind \union {req[r].pilot} ELSE behind
  /\ UNCHANGED <<documents, copy, ops, faults>>

TakePilot(r) == At(r, Ops, "lease") /\ Takes(r, req[r].pilot, "look")

(* Whether the request goes on, by what the document says under the lease. *)
(* A pilot who has flown in the season may not change clubs.               *)
Allowed(r) ==
  LET was == member[req[r].pilot]
  IN CASE req[r].op = "assign" ->
            was # None => req[r].again /\ req[r].by \in {None, was}
       [] req[r].op = "remove" -> was # None /\ req[r].by \in {None, was}
       [] req[r].op = "register" -> was = None
       [] OTHER -> TRUE

Locked(r) == req[r].op = "change" /\ current[req[r].pilot] # req[r].club

Look(r) ==
  /\ At(r, Ops, "look")
  /\ LET p == req[r].pilot
     IN \/ /\ Allowed(r)
           /\ req' = [req EXCEPT ![r].saw = <<member[p], current[p]>>, ![r].at = "put"]
           /\ UNCHANGED lease
        \/ ~Allowed(r) /\ Finish(r)
        \/ Locked(r) /\ Finish(r)
  /\ UNCHANGED <<documents, copy, ops, faults, behind>>

(* The document as the request leaves it, made from what it read.          *)
Document(r) ==
  CASE req[r].op = "edit" -> req[r].saw
    [] req[r].op = "change" -> IF req[r].saw[2] = req[r].club THEN req[r].saw
                               ELSE <<req[r].club, req[r].club>>
    [] OTHER -> <<req[r].club, req[r].saw[2]>>

(* Mutant: as one request among others, in any order. *)
MayWriteAnyway(r, b) == TRUE
(* A write with a lease that lapsed, or without one where there is one, is *)
(* refused.                                                                *)
MayWrite(r, b) == IF req[r].op = "edit" THEN lease[b] = None ELSE lease[b] = r

(* Assignments and removals go on to the map with the lease, changes of    *)
(* club without, registrations not at all.                                 *)
Put(r) ==
  /\ At(r, Ops, "put")
  /\ LET p == req[r].pilot
         new == Document(r)
         strays == new[1] # member[p] /\ (req[r].op \in {"register", "edit"} \/ Trails(p, r))
     IN IF ~MayWrite(r, p) THEN Finish(r) /\ UNCHANGED <<documents, behind>>
        ELSE /\ member' = [member EXCEPT ![p] = new[1]]
             /\ current' = [current EXCEPT ![p] = new[2]]
             /\ behind' = IF strays THEN behind \union {p} ELSE behind
             /\ \/ req[r].op \in {"assign", "remove"} /\ Goto(r, "file") /\ UNCHANGED lease
                \/ /\ req[r].op = "change" /\ req[r].saw[2] # req[r].club
                   /\ Goto(r, "file") /\ Free({p})
                \/ /\ req[r].op \in {"register", "edit"} \/ req[r].saw[2] = req[r].club
                   /\ req[r].op \notin {"assign", "remove"}
                   /\ Finish(r)
  /\ UNCHANGED <<copy, ops, faults>>

-----------------------------------------------------------------------------
(* The map.                                                                *)

(* The map is created empty if there is none.                              *)
EnsureSentinel(r) ==
  /\ At(r, Ops, "file")
  /\ filed' = TRUE
  /\ Goto(r, "take")
  /\ UNCHANGED <<documents, map, lease, ops, faults, behind>>

TakeMap(r) == At(r, Ops, "take") /\ Takes(r, Map, "read")

ReadMap(r) ==
  /\ At(r, Ops, "read")
  /\ req' = [req EXCEPT ![r].saw = map, ![r].at = "write"]
  /\ UNCHANGED <<documents, copy, lease, ops, faults, behind>>

(* A pilot's entry follows the document again once an assignment or a      *)
(* removal has come through with nobody trailing it.                       *)
WriteMap(r) ==
  /\ At(r, Ops, "write")
  /\ LET p == req[r].pilot
     IN IF ~MayWrite(r, Map) THEN behind' = behind \union {p} /\ UNCHANGED map
        ELSE /\ map' = [req[r].saw EXCEPT ![p] = req[r].club]
             /\ behind' = IF req[r].op # "change" /\ lease[p] = r /\ ~Trails(p, r)
                          THEN behind \ {p} ELSE behind
  /\ Finish(r)
  /\ UNCHANGED <<documents, filed, ops, faults>>

-----------------------------------------------------------------------------
(* The process dies, a storage operation fails, or a lease of 30 seconds   *)
(* ends under a request that goes on.                                      *)
Breaks(r) ==
  /\ req[r] # Idle /\ Fault("crash")
  /\ behind' = IF OnMap(r) THEN behind \union {req[r].pilot} ELSE behind
  /\ Finish(r)
  /\ UNCHANGED <<documents, copy, ops>>

Lapses(r) ==
  /\ Fault("lapse")
  /\ \E b \in Held(r) :
       /\ Free({b})
       /\ behind' = IF b = req[r].pilot /\ OnMap(r) THEN behind \union {b} ELSE behind
  /\ UNCHANGED <<documents, copy, req, ops>>

Init ==
  /\ member = [p \in Pilots |-> None] /\ map = member
  /\ current \in [Pilots -> Maybe]
  /\ filed = FALSE /\ lease = [b \in Blobs |-> None]
  /\ req = [r \in Requests |-> Idle] /\ ops = 0
  /\ faults \in [kinds : Worlds, count : {0}] /\ behind = {}

AtRest == (\A r \in Requests : req[r] = Idle) /\ UNCHANGED vars

Next ==
  \/ \E r \in Requests, p \in Pilots :
       AskAssign(r, p) \/ AskRemove(r, p) \/ AskChange(r, p) \/ AskEdit(r, p) \/ AskRegister(r, p)
  \/ \E r \in Requests :
       \/ TakePilot(r) \/ Look(r) \/ Put(r)
       \/ EnsureSentinel(r) \/ TakeMap(r) \/ ReadMap(r) \/ WriteMap(r)
       \/ Breaks(r) \/ Lapses(r)
  \/ AtRest

Spec == Init /\ [][Next]_vars

-----------------------------------------------------------------------------
(* When no request about a pilot is under way, the map of the season shows *)
(* the club of the pilot's document, whatever happened to the entries of   *)
(* others meanwhile (assignPilotSeasonClub; upsertPilotClubMap: "no update *)
(* is lost", "all other pilots preserved").  Not claimed of pilots whose   *)
(* last request stopped before the map or never goes there, nor of those   *)
(* whose change of club met another, until an assignment or a removal.     *)
MapFollowsPilot ==
  \A p \in Pilots :
    p \notin behind /\ (\A r \in Requests : req[r].pilot # p) => map[p] = member[p]
=============================================================================
