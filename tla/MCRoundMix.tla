----------------------------- MODULE MCRoundMix -----------------------------
(* Several small instances of RoundLifecycle in one, for TLC: the bounds   *)
(* of each are drawn at the start.                                         *)
EXTENDS MCRoundLifecycle

VARIABLE mix

mixVars == <<vars, mix>>

Small == [kinds |-> r1 :> {} @@ r2 :> {}, materials |-> {Calm}, version |-> 1,
          pilots |-> {p1}, teams |-> {t1}, records |-> 1]

(* Brief edits against brief-completes and the locks that follow. *)
Edits == [Small EXCEPT !.kinds = r1 :> {"briefComplete", "lock"} @@ r2 :> {"editBrief"},
                       !.materials = MCMaterials, !.version = 2]

(* Locks and unlocks against each other, and the way back to a lock. *)
Unlocks == [Small EXCEPT !.kinds = r1 :> {"lock", "unlock"} @@ r2 :> {"briefComplete", "unlock"}]

(* Two pilots who follow each other in one place. *)
Roster == [Small EXCEPT !.kinds = r1 :> {"briefComplete", "lock", "unlock", "editBrief"} @@ r2 :> {},
                        !.pilots = Pilots, !.records = 2]

(* Rosters alone: the round is never brief-completed. *)
Seating == [Small EXCEPT !.kinds = r1 :> {"editBrief"} @@ r2 :> {},
                         !.pilots = Pilots, !.teams = Teams, !.records = 2]

Within(m) ==
  /\ \A p \in Requests : work[p].pc # "idle" =>
       work[p].kind \in m.kinds[p] /\ work[p].material \in m.materials
  /\ brief.material \in m.materials /\ brief.version <= m.version
  /\ \A t \in Teams \ m.teams : round.team[t] = "unused"
  /\ \A pl \in Places : Len(round.seats[pl]) <= m.records
  /\ \A o \in Occupied(round) : o[2] \in m.pilots

MixedInit == Init /\ mix \in {Edits, Unlocks, Roster, Seating}
MixedNext == Next /\ UNCHANGED mix /\ Within(mix)'
MixedSpec == MixedInit /\ [][MixedNext]_mixVars
=============================================================================
