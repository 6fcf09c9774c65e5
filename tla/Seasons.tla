------------------------------- MODULE Seasons -------------------------------
(***************************************************************************)
(* Seasons, the clubs registered for them and the clubs' teams.  A season  *)
(* is a blob and an entry in seasons.json, one of which may be active.  A  *)
(* club's registration is a blob, an entry in the index of its season and  *)
(* its teams, each a blob and an entry in club-teams.json, which all       *)
(* seasons share.  Registrations of one season are changed under the lock  *)
(* of its index; nothing guards seasons.json and club-teams.json.          *)
(***************************************************************************)
EXTENDS Naturals, FiniteSets

CONSTANTS
  Years, Clubs,
  Requests, None,
  Worlds,    \* BOUND: sets of kinds of request and of fault that may happen together
  MaxTeams,  \* teams a club may have
  MaxOps,    \* BOUND: requests
  MaxFaults  \* BOUND: faults

VARIABLES
  season,   \* seasons/{year}.json
  listed,   \* seasons.json
  club,     \* the clubs with a blob
  named,    \* the clubs in clubs.json
  doc,      \* season-clubs/{year}/{club}.json: the number of teams; 0 when there is no blob
  entry,    \* season-clubs/{year}/index.json, likewise
  file,     \* blobs of teams
  team,     \* club-teams.json
  lock,     \* who holds season-clubs/{year}/index.json.lock
  req,      \* the request each process works on
  ops,      \* requests so far
  faults,   \* the kinds of request and fault that may happen, and how many faults have
  torn,     \* registrations that a request left half-changed
  undone,   \* registrations whose teams a stale write of club-teams.json changed back
  overlap   \* two requests for seasons were under way at once

years == <<season, listed>>
clubs == <<club, named>>
registrations == <<doc, entry, file, team>>
history == <<torn, undone, overlap>>
vars == <<years, clubs, registrations, lock, req, ops, faults, history>>

-----------------------------------------------------------------------------
(* Team 0 of a club is one with a name of its own, not made by registration. *)
Teams == Years \X Clubs \X (0 .. MaxTeams)
States == {"none", "active", "inactive"}

Idle == [op |-> "none", at |-> "idle", year |-> None, club |-> None, teams |-> 0,
         active |-> FALSE, was |-> 0, todo |-> {}, seen |-> {}]

SeasonOps == {"createSeason", "updateSeason", "touchSeason", "deleteSeason"}
RegistrationOps == {"register", "resize", "unregister"}

TypeOK ==
  /\ season \in [Years -> States] /\ listed \in [Years -> States]
  /\ club \subseteq Clubs /\ named \subseteq Clubs
  /\ doc \in [Years -> [Clubs -> 0 .. MaxTeams]] /\ entry \in [Years -> [Clubs -> 0 .. MaxTeams]]
  /\ file \subseteq Teams /\ team \subseteq Teams
  /\ lock \in [Years -> Requests \union {None}]
  /\ \A r \in Requests : req[r].at = "idle" <=> req[r] = Idle
  /\ ops \in 0 .. MaxOps /\ faults \in [kinds : Worlds, count : 0 .. MaxFaults]
  /\ torn \union undone \subseteq Years \X Clubs /\ overlap \in BOOLEAN

world == faults.kinds

Fault(kind) ==
  /\ kind \in world
  /\ faults.count < MaxFaults
  /\ faults' = [faults EXCEPT !.count = @ + 1]

At(r, kinds, at) == req[r].op \in kinds /\ req[r].at = at
Goto(r, at) == req' = [req EXCEPT ![r].at = at]
Finish(r) ==
  /\ req' = [req EXCEPT ![r] = Idle]
  /\ lock' = [y \in Years |-> IF lock[y] = r THEN None ELSE lock[y]]

Of(r) == <<req[r].year, req[r].club>>
TeamsOf(pair, n) == {<<pair[1], pair[2], i>> : i \in 1 .. n}

(* Processes are interchangeable.                                          *)
Start(r, request) ==
  /\ request.op \in world /\ ops < MaxOps
  /\ req[r] = Idle
  /\ r = CHOOSE q \in Requests : req[q] = Idle
  /\ ops' = ops + 1
  /\ req' = [req EXCEPT ![r] = request]
  /\ overlap' = (overlap \/ (request.op \in SeasonOps /\
                             \E q \in Requests : req[q].op \in SeasonOps))
  /\ UNCHANGED <<years, clubs, registrations, lock, faults, torn, undone>>

New(op, at, y, c) == [Idle EXCEPT !.op = op, !.at = at, !.year = y, !.club = c]

-----------------------------------------------------------------------------
(* Seasons.  seasons.json is read, changed and written without a lease.    *)

AskSeason(r, y) ==
  \/ \E active \in BOOLEAN :
       /\ season[y] = "none"
       /\ Start(r, [New("createSeason", IF active THEN "others" ELSE "blob", y, None)
                      EXCEPT !.active = active])
  \/ \E active \in BOOLEAN :
       /\ season[y] # "none"
       /\ Start(r, [New("updateSeason", IF active THEN "others" ELSE "blob", y, None)
                      EXCEPT !.active = active])
  \/ /\ season[y] # "none"    \* an update that leaves the flag alone
     /\ Start(r, [New("touchSeason", "blob", y, None) EXCEPT !.active = (season[y] = "active")])
  \/ Start(r, New("deleteSeason", IF season[y] = "none" THEN "readIndex" ELSE "remove", y, None))

Active(index) == {y \in Years : index[y] = "active"}

(* deactivateAllSeasons: the seasons that seasons.json shows as active are *)
(* written one by one, then seasons.json as it was read.                   *)
ReadOthers(r) ==
  /\ At(r, SeasonOps, "others")
  /\ LET others == Active(listed) \ (IF req[r].op = "updateSeason" THEN {req[r].year} ELSE {})
     IN req' = [req EXCEPT ![r].todo = others, ![r].seen = listed,
                           ![r].at = IF others = {} THEN "blob" ELSE "deactivate"]
  /\ UNCHANGED <<years, clubs, registrations, lock, ops, faults, history>>

Deactivate(r) ==
  /\ At(r, SeasonOps, "deactivate")
  /\ \E y \in req[r].todo :
       /\ season' = IF season[y] = "none" THEN season ELSE [season EXCEPT ![y] = "inactive"]
       /\ req' = [req EXCEPT ![r].todo = @ \ {y}, ![r].seen[y] = "inactive",
                    ![r].at = IF req[r].todo = {y} THEN "writeOthers" ELSE "deactivate"]
  /\ UNCHANGED <<listed, clubs, registrations, lock, ops, faults, history>>

(* Mutant: the index is left to the request that asked. *)
WriteOthersNot(r) ==
  /\ At(r, SeasonOps, "writeOthers")
  /\ Goto(r, "blob")
  /\ UNCHANGED <<years, clubs, registrations, lock, ops, faults, history>>
WriteOthers(r) ==
  /\ At(r, SeasonOps, "writeOthers")
  /\ listed' = req[r].seen
  /\ Goto(r, "blob")
  /\ UNCHANGED <<season, clubs, registrations, lock, ops, faults, history>>

WriteSeason(r) ==
  /\ At(r, SeasonOps, "blob")
  /\ season' = [season EXCEPT ![req[r].year] = IF req[r].active THEN "active" ELSE "inactive"]
  /\ Goto(r, "readIndex")
  /\ UNCHANGED <<listed, clubs, registrations, lock, ops, faults, history>>

RemoveSeason(r) ==
  /\ At(r, SeasonOps, "remove")
  /\ season' = [season EXCEPT ![req[r].year] = "none"]
  /\ Goto(r, "readIndex")
  /\ UNCHANGED <<listed, clubs, registrations, lock, ops, faults, history>>

ReadSeasons(r) ==
  /\ At(r, SeasonOps, "readIndex")
  /\ req' = [req EXCEPT ![r].seen = listed, ![r].at = "index"]
  /\ UNCHANGED <<years, clubs, registrations, lock, ops, faults, history>>

(* upsertSeasonInIndex, removeSeasonFromIndex.                             *)
Listing(r) ==
  IF req[r].op = "deleteSeason" THEN "none" ELSE IF req[r].active THEN "active" ELSE "inactive"

WriteSeasons(r) ==
  /\ At(r, SeasonOps, "index")
  /\ listed' = IF Listing(r) = "none" /\ req[r].seen[req[r].year] = "none" THEN listed
               ELSE [req[r].seen EXCEPT ![req[r].year] = Listing(r)]
  /\ Finish(r)
  /\ UNCHANGED <<season, clubs, registrations, ops, faults, history>>

-----------------------------------------------------------------------------
(* Clubs.  clubs.json is written without a lease when a club is made, and  *)
(* under it when one is removed.                                           *)

AskClub(r, c) ==
  \/ c \notin club /\ Start(r, New("createClub", "blob", None, c))
  \/ c \in club /\ Start(r, New("deleteClub", "teams", None, c))

WriteClub(r) ==
  /\ At(r, {"createClub"}, "blob")
  /\ club' = club \union {req[r].club}
  /\ Goto(r, "readIndex")
  /\ UNCHANGED <<years, named, registrations, lock, ops, faults, history>>

ReadClubs(r) ==
  /\ At(r, {"createClub"}, "readIndex")
  /\ req' = [req EXCEPT ![r].seen = named, ![r].at = "index"]
  /\ UNCHANGED <<years, clubs, registrations, lock, ops, faults, history>>

WriteClubs(r) ==
  /\ At(r, {"createClub"}, "index")
  /\ named' = req[r].seen \union {req[r].club}
  /\ Finish(r)
  /\ UNCHANGED <<years, club, registrations, ops, faults, history>>

(* assertClubHasNoReferences: club-teams.json, then for each season that   *)
(* seasons.json lists its index, or its blobs when the index is empty.     *)
CheckTeams(r) ==
  /\ At(r, {"deleteClub"}, "teams")
  /\ IF \E t \in team : t[2] = req[r].club
     THEN Finish(r)
     ELSE /\ req' = [req EXCEPT ![r].at = "seasons",
                                ![r].todo = {y \in Years : listed[y] # "none"}]
          /\ UNCHANGED lock
  /\ UNCHANGED <<years, clubs, registrations, ops, faults, history>>

Registers(y, c) ==
  IF \E d \in Clubs : entry[y][d] # 0 THEN entry[y][c] # 0 ELSE doc[y][c] # 0

CheckSeasons(r) ==
  /\ At(r, {"deleteClub"}, "seasons")
  /\ \/ req[r].todo = {} /\ Goto(r, "unname") /\ UNCHANGED lock
     \/ \E y \in req[r].todo :
          IF Registers(y, req[r].club) THEN Finish(r)
          ELSE req' = [req EXCEPT ![r].todo = @ \ {y}] /\ UNCHANGED lock
  /\ UNCHANGED <<years, clubs, registrations, ops, faults, history>>

UnnameClub(r) ==
  /\ At(r, {"deleteClub"}, "unname")
  /\ named' = named \ {req[r].club}
  /\ Goto(r, "remove")
  /\ UNCHANGED <<years, club, registrations, lock, ops, faults, history>>

RemoveClub(r) ==
  /\ At(r, {"deleteClub"}, "remove")
  /\ club' = club \ {req[r].club}
  /\ Finish(r)
  /\ UNCHANGED <<years, named, registrations, ops, faults, history>>

-----------------------------------------------------------------------------
(* Registrations.  The club is read before the lock is taken.              *)

AskRegistration(r, y, c) ==
  \/ \E n \in 1 .. MaxTeams :
       c \in club /\ Start(r, [New("register", "lock", y, c) EXCEPT !.teams = n])
  \/ \E n \in 1 .. MaxTeams : Start(r, [New("resize", "lock", y, c) EXCEPT !.teams = n])
  \/ Start(r, New("unregister", "lock", y, c))

(* Mutant: the lock lets everybody in. *)
TakeLockAnyway(r) ==
  /\ req[r].at = "lock"
  /\ lock' = [lock EXCEPT ![req[r].year] = r]
  /\ Goto(r, "begin")
  /\ UNCHANGED <<years, clubs, registrations, ops, faults, history>>
TakeLock(r) ==
  /\ req[r].at = "lock" /\ lock[req[r].year] = None
  /\ lock' = [lock EXCEPT ![req[r].year] = r]
  /\ Goto(r, "begin")
  /\ UNCHANGED <<years, clubs, registrations, ops, faults, history>>

(* A club is registered when the index, or without one a blob, says so,    *)
(* and the blob that the index leads to is there.                          *)
RegisterBegin(r) ==
  /\ At(r, {"register"}, "begin")
  /\ LET y == req[r].year
         c == req[r].club
     IN IF Registers(y, c) /\ doc[y][c] # 0
        THEN Finish(r) ELSE Goto(r, "doc") /\ UNCHANGED lock
  /\ UNCHANGED <<years, clubs, registrations, ops, faults, history>>

(* A registration asked for by its own id is found by its entry.  A club   *)
(* that a round names teams of keeps its teams (hasRoundAssignments).      *)
Refusable(r, was) ==
  \/ was = 0 \/ entry[req[r].year][req[r].club] = 0 \/ req[r].teams < was
  \/ req[r].op = "resize" /\ req[r].club \notin club

ChangeBegin(r) ==
  /\ At(r, {"resize", "unregister"}, "begin")
  /\ LET was == doc[req[r].year][req[r].club]
     IN \/ Refusable(r, was) /\ Finish(r)
        \/ /\ was # 0 /\ (req[r].op = "resize" => req[r].club \in club)
           /\ req' = [req EXCEPT ![r].at = "doc", ![r].was = was] /\ UNCHANGED lock
  /\ UNCHANGED <<years, clubs, registrations, ops, faults, history>>

WriteDoc(r) ==
  /\ At(r, RegistrationOps, "doc")
  /\ doc' = [doc EXCEPT ![req[r].year][req[r].club] = req[r].teams]
  /\ Goto(r, IF req[r].teams = req[r].was THEN "entry" ELSE "readTeams")
  /\ UNCHANGED <<years, clubs, entry, file, team, lock, ops, faults, history>>

(* writeTeams reads club-teams.json before it writes the teams' blobs,     *)
(* deleteTeams after it has deleted them.                                  *)
Grows(r) == req[r].teams > req[r].was
Gone(r) == TeamsOf(Of(r), req[r].was) \ TeamsOf(Of(r), req[r].teams)

ReadTeams(r) ==
  /\ At(r, RegistrationOps, "readTeams")
  /\ file' = file \ Gone(r)
  /\ req' = [req EXCEPT ![r].seen = team, ![r].at = "files"]
  /\ UNCHANGED <<years, clubs, doc, entry, team, lock, ops, faults, history>>

WriteFiles(r) ==
  /\ At(r, RegistrationOps, "files")
  /\ file' = IF Grows(r) THEN file \union TeamsOf(Of(r), req[r].teams) ELSE file
  /\ Goto(r, "teams")
  /\ UNCHANGED <<years, clubs, doc, entry, team, lock, ops, faults, history>>

(* The teams of the club are listed anew when they grow, those with other  *)
(* names left out; else the teams that went are taken out.                 *)
TeamList(r) ==
  IF Grows(r)
  THEN {t \in req[r].seen : <<t[1], t[2]>> # Of(r)} \union TeamsOf(Of(r), req[r].teams)
  ELSE req[r].seen \ Gone(r)

(* The registrations whose teams the new list shows otherwise than the old, *)
(* though the request is not about them.                                   *)
Reverts(r, list) ==
  {p \in (Years \X Clubs) \ {Of(r)} : \E n \in 1 .. MaxTeams :
     <<p[1], p[2], n>> \in (team \ list) \union (list \ team)}

(* Which teams went is told by the last word of their names, so that one   *)
(* with a name of its own may go with them.                                *)
WriteTeams(r) ==
  /\ At(r, RegistrationOps, "teams")
  /\ \E ownName \in SUBSET (IF Grows(r) THEN {} ELSE {<<req[r].year, req[r].club, 0>>}) :
       /\ team' = TeamList(r) \ ownName
       /\ undone' = undone \union Reverts(r, TeamList(r))
  /\ Goto(r, "entry")
  /\ UNCHANGED <<years, clubs, doc, entry, file, lock, ops, faults, torn, overlap>>

(* A registration made anew is whole again.                                *)
WriteEntry(r) ==
  /\ At(r, RegistrationOps, "entry")
  /\ entry' = [entry EXCEPT ![req[r].year][req[r].club] = req[r].teams]
  /\ torn' = IF req[r].op = "register" THEN torn \ {Of(r)} ELSE torn
  /\ Finish(r)
  /\ UNCHANGED <<years, clubs, doc, file, team, ops, faults, undone, overlap>>

-----------------------------------------------------------------------------
(* Teams with names of their own: no lock, and two reads of the list, the  *)
(* first for the duplicate check.                                          *)

AskTeam(r, y, c) ==
  \/ c \in club /\ <<y, c, 0>> \notin team /\ Start(r, New("addTeam", "file", y, c))
  \/ <<y, c, 0>> \in file /\ Start(r, New("dropTeam", "readTeams", y, c))

WriteTeamFile(r) ==
  /\ At(r, {"addTeam", "dropTeam"}, "file")
  /\ IF req[r].op = "addTeam"
     THEN /\ file' = file \union {<<req[r].year, req[r].club, 0>>}
          /\ Goto(r, "readTeams") /\ UNCHANGED lock
     ELSE file' = file \ {<<req[r].year, req[r].club, 0>>} /\ Finish(r)
  /\ UNCHANGED <<years, clubs, doc, entry, team, ops, faults, history>>

ReadTeamList(r) ==
  /\ At(r, {"addTeam", "dropTeam"}, "readTeams")
  /\ req' = [req EXCEPT ![r].seen = team, ![r].at = "teams"]
  /\ UNCHANGED <<years, clubs, registrations, lock, ops, faults, history>>

WriteTeamList(r) ==
  /\ At(r, {"addTeam", "dropTeam"}, "teams")
  /\ LET own == {<<req[r].year, req[r].club, 0>>}
         list == IF req[r].op = "addTeam" THEN req[r].seen \union own ELSE req[r].seen \ own
     IN /\ team' = list
        /\ undone' = undone \union Reverts(r, list) \union
             (IF \E n \in 1 .. MaxTeams : <<req[r].year, req[r].club, n>> \in
                                            (team \ list) \union (list \ team)
              THEN {Of(r)} ELSE {})
  /\ IF req[r].op = "addTeam" THEN Finish(r) ELSE Goto(r, "file") /\ UNCHANGED lock
  /\ UNCHANGED <<years, clubs, doc, entry, file, ops, faults, torn, overlap>>

-----------------------------------------------------------------------------
(* A storage operation fails, or the process dies; a lock ends with its    *)
(* lease.                                                                  *)
Breaks(r) ==
  /\ req[r] # Idle /\ Fault("crash")
  /\ torn' = IF req[r].op \in RegistrationOps /\ req[r].at \notin {"lock", "begin", "doc"}
             THEN torn \union {Of(r)} ELSE torn
  /\ Finish(r)
  /\ UNCHANGED <<years, clubs, registrations, ops, undone, overlap>>

Init ==
  /\ season = [y \in Years |-> "inactive"] /\ listed = season
  /\ club \in {Clubs} /\ named = club
  /\ doc = [y \in Years |-> [c \in Clubs |-> 0]] /\ entry = doc
  /\ file = {} /\ team = {}
  /\ lock = [y \in Years |-> None] /\ req = [r \in Requests |-> Idle] /\ ops = 0
  /\ faults \in [kinds : Worlds, count : {0}]
  /\ torn = {} /\ undone = {} /\ overlap = FALSE

AtRest == (\A r \in Requests : req[r] = Idle) /\ UNCHANGED vars

Next ==
  \/ \E r \in Requests, y \in Years : AskSeason(r, y)
  \/ \E r \in Requests, c \in Clubs : AskClub(r, c)
  \/ \E r \in Requests, y \in Years, c \in Clubs : AskRegistration(r, y, c) \/ AskTeam(r, y, c)
  \/ \E r \in Requests :
       \/ ReadOthers(r) \/ Deactivate(r) \/ WriteOthers(r) \/ WriteSeason(r) \/ RemoveSeason(r)
       \/ ReadSeasons(r) \/ WriteSeasons(r)
       \/ WriteClub(r) \/ ReadClubs(r) \/ WriteClubs(r)
       \/ CheckTeams(r) \/ CheckSeasons(r) \/ UnnameClub(r) \/ RemoveClub(r)
       \/ TakeLock(r) \/ RegisterBegin(r) \/ ChangeBegin(r) \/ WriteDoc(r) \/ ReadTeams(r)
       \/ WriteFiles(r) \/ WriteTeams(r) \/ WriteEntry(r)
       \/ WriteTeamFile(r) \/ ReadTeamList(r) \/ WriteTeamList(r) \/ Breaks(r)
  \/ AtRest

Spec == Init /\ [][Next]_vars

-----------------------------------------------------------------------------
(* When no request is about it, a club's registration for a season, its    *)
(* entry in the season's index and its teams agree, though requests for    *)
(* the season overlap: each is changed under the lock of the index, one    *)
(* after the other (createSeasonClub, updateSeasonClub, deleteSeasonClub). *)
(* Claimed of registrations that no request broke off in, until they are   *)
(* made anew, and whose teams no request outside the lock wrote back.      *)
RegistrationsAgree ==
  \A y \in Years, c \in Clubs :
    /\ <<y, c>> \notin torn \union undone
    /\ \A r \in Requests : req[r].op \in RegistrationOps => Of(r) # <<y, c>>
    => /\ entry[y][c] = doc[y][c]
       /\ {n \in 1 .. MaxTeams : <<y, c, n>> \in team} = 1 .. doc[y][c]
       /\ TeamsOf(<<y, c>>, doc[y][c]) \subseteq file

(* A request that makes a season active leaves it the only one that        *)
(* seasons.json shows as active, whatever requests broke off in before it  *)
(* (deactivateAllSeasons: "Active flag is mutually exclusive across all    *)
(* seasons").  Claimed while requests for seasons do not overlap.          *)
ActivationIsExclusive ==
  [][\A r \in Requests :
       WriteSeasons(r) /\ req[r].op \in {"createSeason", "updateSeason"} /\ req[r].active
                      /\ ~overlap => Active(listed') = {req[r].year}]_vars
=============================================================================
