------------------------ MODULE RoundLifecycleProofs ------------------------
(* Theorems about RoundLifecycle, for every value of its constants.        *)
EXTENDS RoundLifecycle, TLAPS, SequenceTheorems

-----------------------------------------------------------------------------
(* What the operators return. *)

(* Rosters taken from a round are sets of occupancies. *)
LEMMA RosterType ==
  ASSUME NEW r
  PROVE  /\ Occupied(r) \subseteq Occupancies
         /\ BuildBriefTeams(r) \subseteq Occupancies
         /\ LockCandidate(r) \subseteq Occupancies
  BY DEF Occupied, BuildBriefTeams, LockCandidate, Seated

(* Who is seated depends on the pilots of the slot records alone. *)
LEMMA SamePilots ==
  ASSUME NEW r, NEW q,
         \A pl \in Places : DOMAIN q.seats[pl] = DOMAIN r.seats[pl],
         \A pl \in Places : \A i \in DOMAIN r.seats[pl] :
           q.seats[pl][i].pilot = r.seats[pl][i].pilot
  PROVE  Occupied(q) = Occupied(r)
  BY DEF Occupied, Seated, Occupancies

(* A function applied to each slot record, keeping its pilot, gives a round *)
(* with the same pilots seated.                                             *)
LEMMA EditedRound ==
  ASSUME NEW r \in Rounds, NEW F \in [Places -> [Seats -> Seats]],
         \A pl \in Places, seat \in Seats : F[pl][seat].pilot = seat.pilot,
         NEW q,
         q = [r EXCEPT !.seats = [pl \in Places |->
               [i \in 1 .. Len(r.seats[pl]) |-> F[pl][r.seats[pl][i]]]]]
  PROVE  q \in Rounds /\ Occupied(q) = Occupied(r)
  <1>1. \A pl \in Places : r.seats[pl] \in Seq(Seats)
    BY DEF Rounds
  <1>2. \A pl \in Places : \A i \in 1 .. Len(r.seats[pl]) : r.seats[pl][i] \in Seats
    BY <1>1
  <1>3. \A pl \in Places : DOMAIN r.seats[pl] = 1 .. Len(r.seats[pl])
    BY <1>1
  <1> DEFINE edited == [pl \in Places |->
               [i \in 1 .. Len(r.seats[pl]) |-> F[pl][r.seats[pl][i]]]]
  <1>4. ASSUME NEW pl \in Places PROVE edited[pl] \in Seq(Seats)
    <2>1. \A i \in 1 .. Len(r.seats[pl]) : F[pl][r.seats[pl][i]] \in Seats
      BY <1>2
    <2> QED
      BY <1>1, <2>1
  <1>5. edited \in [Places -> Seq(Seats)]
    BY <1>4
  <1>6. q = [r EXCEPT !.seats = edited]
    OBVIOUS
  <1>7. q.seats = edited
    BY <1>6 DEF Rounds
  <1>8. q \in Rounds
    <2> HIDE DEF edited
    <2> QED BY <1>5, <1>6 DEF Rounds
  <1>9. \A pl \in Places : DOMAIN edited[pl] = 1 .. Len(r.seats[pl])
    OBVIOUS
  <1>10. \A pl \in Places : \A i \in 1 .. Len(r.seats[pl]) :
           edited[pl][i].pilot = r.seats[pl][i].pilot
    BY <1>2
  <1> HIDE DEF edited
  <1>11. \A pl \in Places : DOMAIN q.seats[pl] = DOMAIN r.seats[pl]
    BY <1>3, <1>7, <1>9
  <1>12. \A pl \in Places : \A i \in DOMAIN r.seats[pl] :
           q.seats[pl][i].pilot = r.seats[pl][i].pilot
    BY <1>3, <1>7, <1>10
  <1> QED
    BY <1>8, <1>11, <1>12, SamePilots

LEMMA ApplyToType ==
  ASSUME NEW r \in Rounds, NEW L, NEW version
  PROVE  ApplyTo(r, L, version) \in Rounds /\ Occupied(ApplyTo(r, L, version)) = Occupied(r)
  <1> DEFINE F == [pl \in Places |-> [seat \in Seats |-> [seat EXCEPT
              !.signToFly = seat.pilot # NoPilot /\ IsSigned(L, <<pl, seat.pilot>>, version)]]]
  <1>1. F \in [Places -> [Seats -> Seats]]
    BY DEF Seats
  <1>2. \A pl \in Places, seat \in Seats : F[pl][seat].pilot = seat.pilot
    BY DEF Seats
  <1>3. \A pl \in Places : \A i \in 1 .. Len(r.seats[pl]) : r.seats[pl][i] \in Seats
    BY DEF Rounds
  <1>4. ApplyTo(r, L, version) = [r EXCEPT !.seats = [pl \in Places |->
          [i \in 1 .. Len(r.seats[pl]) |-> F[pl][r.seats[pl][i]]]]]
    BY <1>3 DEF ApplyTo, EditSeats
  <1> HIDE DEF F
  <1> QED
    BY <1>1, <1>2, <1>4, EditedRound

LEMMA DemoteSupersededType ==
  ASSUME NEW r \in Rounds, NEW L, NEW version
  PROVE  DemoteSuperseded(r, L, version) \in Rounds /\ Occupied(DemoteSuperseded(r, L, version)) = Occupied(r)
  <1> DEFINE F == [pl \in Places |-> [seat \in Seats |-> [seat EXCEPT
              !.signToFly = @ /\ ~(seat.pilot # NoPilot /\ IsSuperseded(L, <<pl, seat.pilot>>, version))]]]
  <1>1. F \in [Places -> [Seats -> Seats]]
    BY DEF Seats
  <1>2. \A pl \in Places, seat \in Seats : F[pl][seat].pilot = seat.pilot
    BY DEF Seats
  <1>3. \A pl \in Places : \A i \in 1 .. Len(r.seats[pl]) : r.seats[pl][i] \in Seats
    BY DEF Rounds
  <1>4. DemoteSuperseded(r, L, version) = [r EXCEPT !.seats = [pl \in Places |->
          [i \in 1 .. Len(r.seats[pl]) |-> F[pl][r.seats[pl][i]]]]]
    BY <1>3 DEF DemoteSuperseded, EditSeats
  <1> HIDE DEF F
  <1> QED
    BY <1>1, <1>2, <1>4, EditedRound

LEMMA ApplyLockToRoundType ==
  ASSUME NEW r \in Rounds, NEW loaded
  PROVE  /\ ApplyLockToRound(r, loaded) \in Rounds
         /\ ApplyLockToRound(r, loaded).status = "Locked"
         /\ Occupied(ApplyLockToRound(r, loaded)) = Occupied(r)
  <1> DEFINE F == [pl \in Places |-> [seat \in Seats |-> [seat EXCEPT
              !.snapshot = @ \/ seat.pilot \in loaded, !.accountedFor = FALSE]]]
             edited == [r EXCEPT !.seats = [pl \in Places |->
               [i \in 1 .. Len(r.seats[pl]) |-> F[pl][r.seats[pl][i]]]]]
             q == ApplyLockToRound(r, loaded)
  <1>1. F \in [Places -> [Seats -> Seats]]
    BY DEF Seats
  <1>2. \A pl \in Places, seat \in Seats : F[pl][seat].pilot = seat.pilot
    BY DEF Seats
  <1>3. \A pl \in Places : \A i \in 1 .. Len(r.seats[pl]) : r.seats[pl][i] \in Seats
    BY DEF Rounds
  <1>4. q = [edited EXCEPT !.status = "Locked", !.groupsBusy = TRUE]
    BY <1>3 DEF ApplyLockToRound, EditSeats
  <1> HIDE DEF F
  <1>5. edited \in Rounds /\ Occupied(edited) = Occupied(r)
    BY <1>1, <1>2, EditedRound
  <1> HIDE DEF edited, q
  <1>6. /\ q \in Rounds
        /\ q.status = "Locked"
        /\ q.seats = edited.seats
    BY <1>4, <1>5 DEF Rounds, Statuses
  <1>7. Occupied(q) = Occupied(edited)
    BY <1>6, SamePilots
  <1> QED
    BY <1>5, <1>6, <1>7 DEF q

LEMMA UnlockRoundType ==
  ASSUME NEW r \in Rounds
  PROVE  /\ UnlockRound(r) \in Rounds
         /\ UnlockRound(r).status = "Confirmed"
         /\ Occupied(UnlockRound(r)) = Occupied(r)
  <1> DEFINE F == [pl \in Places |-> [seat \in Seats |-> [seat EXCEPT !.snapshot = FALSE]]]
             edited == [r EXCEPT !.seats = [pl \in Places |->
               [i \in 1 .. Len(r.seats[pl]) |-> F[pl][r.seats[pl][i]]]]]
             q == UnlockRound(r)
  <1>1. F \in [Places -> [Seats -> Seats]]
    BY DEF Seats
  <1>2. \A pl \in Places, seat \in Seats : F[pl][seat].pilot = seat.pilot
    BY DEF Seats
  <1>3. \A pl \in Places : \A i \in 1 .. Len(r.seats[pl]) : r.seats[pl][i] \in Seats
    BY DEF Rounds
  <1>4. q = [edited EXCEPT !.status = "Confirmed", !.groupsBusy = FALSE]
    BY <1>3 DEF UnlockRound, EditSeats
  <1> HIDE DEF F
  <1>5. edited \in Rounds /\ Occupied(edited) = Occupied(r)
    BY <1>1, <1>2, EditedRound
  <1> HIDE DEF edited, q
  <1>6. /\ q \in Rounds
        /\ q.status = "Confirmed"
        /\ q.seats = edited.seats
    BY <1>4, <1>5 DEF Rounds, Statuses
  <1>7. Occupied(q) = Occupied(edited)
    BY <1>6, SamePilots
  <1> QED
    BY <1>5, <1>6, <1>7 DEF q

LEMMA NewlyCreatedType == NewlyCreated \in Rounds
  <1>1. <<>> \in Seq(Seats)
    OBVIOUS
  <1> QED
    BY <1>1 DEF NewlyCreated, Rounds, Statuses

LEMMA IdleType == Idle \in Works
  BY NewlyCreatedType, SentinelAssumption, BoundAssumption
  DEF Idle, Works, NoBrief, Briefs

LEMMA SeedBriefType ==
  /\ SeedBrief \in Briefs
  /\ \A material \in Materials : SeedBriefWith(material) \in Briefs
  <1>1. ASSUME NEW material \in Materials
        PROVE  SeedBriefWith(material) \in Briefs
    BY <1>1, BoundAssumption DEF SeedBriefWith, Briefs
  <1> QED
    BY <1>1, SentinelAssumption DEF SeedBrief

(* The round a request writes: its type, its status and its roster. *)
LEMMA NewRoundType ==
  ASSUME NEW w \in Works, NEW r \in Rounds, NEW b \in Briefs, NEW L
  PROVE  /\ NewRound(w, r, b, L) \in Rounds
         /\ w.kind = "briefComplete" => NewRound(w, r, b, L).status = "BriefComplete"
         /\ w.kind = "lock" => /\ NewRound(w, r, b, L).status = "Locked"
                              /\ Occupied(NewRound(w, r, b, L)) = Occupied(r)
         /\ w.kind = "unlock" => NewRound(w, r, b, L).status = "Confirmed"
  <1>1. CASE w.kind = "briefComplete"
    <2> DEFINE q == DemoteSuperseded(r, L, FreezeBrief(b, r).version)
    <2>1. q \in Rounds
      BY DemoteSupersededType
    <2>2. NewRound(w, r, b, L) = [q EXCEPT !.status = "BriefComplete"]
      BY <1>1 DEF NewRound
    <2> HIDE DEF q
    <2> QED
      BY <1>1, <2>1, <2>2 DEF Rounds, Statuses
  <1>2. CASE w.kind = "lock"
    <2>1. NewRound(w, r, b, L) =
            ApplyLockToRound(ApplyTo(r, L, b.version), LockSnapshots(w.candidate))
      BY <1>2 DEF NewRound
    <2>2. ApplyTo(r, L, b.version) \in Rounds /\ Occupied(ApplyTo(r, L, b.version)) = Occupied(r)
      BY ApplyToType
    <2> QED
      BY <1>2, <2>1, <2>2, ApplyLockToRoundType
  <1>3. CASE w.kind = "unlock"
    BY <1>3, UnlockRoundType DEF NewRound
  <1>4. CASE w.kind \notin {"briefComplete", "lock", "unlock"}
    BY <1>4, NewlyCreatedType DEF NewRound
  <1> QED
    BY <1>1, <1>2, <1>3, <1>4

(* The brief a request writes: its type and how it succeeds the one read.   *)
LEMMA NewBriefType ==
  ASSUME NEW w \in Works, NEW r, NEW b \in Briefs
  PROVE  LET new == NewBrief(w, r, b)
         IN  /\ new.version \in Nat /\ new.version >= b.version
             /\ new.version <= MaxVersion => new \in Briefs
             /\ w.kind # "briefComplete" => new.version = b.version /\ new.hash = b.hash
             /\ w.kind \notin {"briefComplete", "editBrief"} => new.material = b.material
             /\ w.kind = "briefComplete" =>
                  /\ BriefIntact(new)
                  /\ new.version =
                       IF b.hash \in {NoHash, new.hash} THEN b.version ELSE b.version + 1
  <1>1. CASE w.kind = "briefComplete"
    <2> DEFINE hash == HashOf[b.material]
               version == IF b.hash \in {NoHash, hash} THEN b.version ELSE b.version + 1
               new == NewBrief(w, r, b)
    <2>1. hash \in Hashes /\ hash # NoHash
      BY HashAssumption DEF Briefs
    <2>2. version \in Nat /\ version >= b.version
      BY DEF Briefs
    <2>3. new = [b EXCEPT !.teams = BuildBriefTeams(r), !.hash = hash, !.version = version]
      BY <1>1 DEF NewBrief, FreezeBrief
    <2> HIDE DEF hash, version, new
    <2>4. /\ new.version = version
          /\ new.hash = hash
          /\ new.material = b.material
      BY <2>3 DEF Briefs
    <2>5. version <= MaxVersion => new \in Briefs
      <3>1. BuildBriefTeams(r) \in SUBSET Occupancies
        BY RosterType
      <3>2. version <= MaxVersion => version \in 0 .. MaxVersion
        BY <2>2, BoundAssumption DEF Briefs
      <3> QED
        BY <2>1, <2>3, <3>1, <3>2 DEF Briefs
    <2>6. BriefIntact(new)
      BY <2>1, <2>4 DEF BriefIntact, hash
    <2> QED
      BY <1>1, <2>2, <2>4, <2>5, <2>6 DEF version, new
  <1>2. CASE w.kind = "lock"
    BY <1>2, BoundAssumption DEF NewBrief, Briefs, Works
  <1>3. CASE w.kind = "editBrief"
    BY <1>3, BoundAssumption DEF NewBrief, Briefs, Works
  <1>4. CASE w.kind \notin {"briefComplete", "lock", "editBrief"}
    BY <1>4, BoundAssumption DEF NewBrief, Briefs
  <1> QED
    BY <1>1, <1>2, <1>3, <1>4

-----------------------------------------------------------------------------
(* Requests on the round blob alone. *)

(* What such a request may make of the round. *)
SafeRound(r) ==
  /\ r \in Rounds
  /\ r.status \in Briefed => round.status \in Briefed /\ Occupied(r) = Occupied(round)
  /\ r.status \in {"Locked", "Complete"} => round.status \in {"Locked", "Complete"}
  /\ round.status = "Complete" => r.status = "Complete"

LEMMA OpenRoster ==
  ASSUME NEW r \in Rounds, r.status = round.status, ~IsRosterFrozen(round.status)
  PROVE  SafeRound(r)
  BY DEF SafeRound, IsRosterFrozen, Briefed

LEMMA SameSeats ==
  ASSUME round \in Rounds, NEW r \in Rounds, r.seats = round.seats, r.status = round.status
  PROVE  SafeRound(r)
  BY SamePilots DEF SafeRound

LEMMA NewSeatType ==
  ASSUME NEW pilot \in Pilots \union {NoPilot}, NEW snapshot \in BOOLEAN
  PROVE  NewSeat(pilot, snapshot) \in Seats
  BY DEF NewSeat, Seats

LEMMA SeatPut ==
  ASSUME NEW s \in Seq(Seats), NEW seat \in Seats
  PROVE  /\ Append(s, seat) \in Seq(Seats)
         /\ <<seat>> \o s \in Seq(Seats)
         /\ \A i \in DOMAIN s : [s EXCEPT ![i] = seat] \in Seq(Seats)
  <1>1. <<seat>> \in Seq(Seats)
    OBVIOUS
  <1> QED
    BY <1>1, ConcatProperties, ExceptSeq

LEMMA PutSeats ==
  ASSUME round \in Rounds, NEW pl \in Places, NEW s \in Seq(Seats)
  PROVE  LET r == [round EXCEPT !.seats[pl] = s]
         IN  r \in Rounds /\ r.status = round.status
  BY DEF Rounds

(* Each request on the round alone writes such a round. *)
LEMMA RoundStepsSafe ==
  ASSUME TypeOK, RoundSteps
  PROVE  \E r : SafeRound(r) /\ WritesRound(r)
  <1> USE DEF TypeOK
  <1>0. /\ round \in Rounds
        /\ \A pl \in Places : round.seats[pl] \in Seq(Seats)
    BY DEF Rounds
  <1>1. ASSUME NEW from, NEW to \in Statuses, Transition(from, to),
               to \in Briefed => from \subseteq {"Locked"} /\ to = "Complete",
               "Complete" \notin from
        PROVE  \E r : SafeRound(r) /\ WritesRound(r)
    <2> DEFINE r == [round EXCEPT !.status = to]
    <2>1. r \in Rounds /\ r.status = to /\ r.seats = round.seats
      BY DEF Rounds
    <2>2. Occupied(r) = Occupied(round)
      BY <2>1, SamePilots
    <2>3. round.status \in from /\ WritesRound(r)
      BY <1>1 DEF Transition
    <2> HIDE DEF r
    <2>4. SafeRound(r)
      BY <1>1, <2>1, <2>2, <2>3 DEF SafeRound, Briefed
    <2> QED
      BY <2>3, <2>4
  <1>2. CASE Confirm \/ Reopen \/ Cancel \/ Uncancel \/ Complete
    BY <1>1, <1>2 DEF Confirm, Reopen, Cancel, Uncancel, Complete, Statuses, Briefed
  <1>3. ASSUME NEW t \in Teams, AddTeam(t)
        PROVE  \E r : SafeRound(r) /\ WritesRound(r)
    <2> DEFINE r == [round EXCEPT !.team[t] = "entered"]
    <2>1. r \in Rounds /\ r.status = round.status
      BY DEF Rounds
    <2> QED
      BY <1>3, <2>1, OpenRoster DEF AddTeam
  <1>4. ASSUME NEW t \in Teams, RemoveTeam(t)
        PROVE  \E r : SafeRound(r) /\ WritesRound(r)
    <2> DEFINE seats == [pl \in Places |-> IF pl[1] = t THEN <<>> ELSE round.seats[pl]]
               r == [round EXCEPT !.team[t] = "removed", !.seats = seats]
    <2>1. seats \in [Places -> Seq(Seats)]
      BY <1>0
    <2>2. WritesRound(r) /\ ~IsRosterFrozen(round.status)
      BY <1>4 DEF RemoveTeam
    <2> HIDE DEF seats
    <2>3. r \in Rounds /\ r.status = round.status
      BY <2>1 DEF Rounds
    <2> QED
      BY <2>2, <2>3, OpenRoster
  <1>5. ASSUME NEW pilot \in Pilots, NEW pl \in Places, AddPilot(pilot, pl)
        PROVE  \E r : SafeRound(r) /\ WritesRound(r)
    <2>1. Append(round.seats[pl], NewSeat(pilot, FALSE)) \in Seq(Seats)
      BY <1>0, NewSeatType, SeatPut
    <2> QED
      BY <1>5, <2>1, PutSeats, OpenRoster DEF AddPilot
  <1>6. ASSUME NEW pilot \in Pilots, NEW pl \in Places, RegisterSelf(pilot, pl)
        PROVE  \E r : SafeRound(r) /\ WritesRound(r)
    <2> DEFINE rest == IF HasSlot(round, pl) THEN Tail(round.seats[pl]) ELSE <<>>
    <2>1. rest \in Seq(Seats)
      BY <1>0 DEF HasSlot
    <2>2. <<NewSeat(pilot, TRUE)>> \o rest \in Seq(Seats)
      BY <2>1, NewSeatType, SeatPut
    <2> QED
      BY <1>6, <2>2, PutSeats, OpenRoster DEF RegisterSelf
  <1>7. ASSUME NEW pl \in Places, RemovePilot(pl)
        PROVE  \E r : SafeRound(r) /\ WritesRound(r)
    <2>1. Tail(round.seats[pl]) \in Seq(Seats)
      BY <1>0, <1>7 DEF RemovePilot, HasSlot
    <2> QED
      BY <1>7, <2>1, PutSeats, OpenRoster DEF RemovePilot
  <1>8. ASSUME NEW o \in Occupancies, UnregisterSelf(o)
        PROVE  \E r : SafeRound(r) /\ WritesRound(r)
    <2>1. o[1] \in Places
      BY DEF Occupancies
    <2>2. PICK i \in DOMAIN round.seats[o[1]] :
            WritesRound([round EXCEPT !.seats[o[1]][i] = NewSeat(NoPilot, FALSE)])
      BY <1>8 DEF UnregisterSelf
    <2>3. [round.seats[o[1]] EXCEPT ![i] = NewSeat(NoPilot, FALSE)] \in Seq(Seats)
      BY <1>0, <2>1, NewSeatType, SeatPut
    <2> QED
      BY <1>8, <2>1, <2>2, <2>3, PutSeats, OpenRoster DEF UnregisterSelf
  <1>9. ASSUME NEW pl \in Places, NEW value \in BOOLEAN, UpdateAccounted(pl, value)
        PROVE  \E r : SafeRound(r) /\ WritesRound(r)
    <2> DEFINE s == round.seats[pl]
               t == [s EXCEPT ![1].accountedFor = value]
               r == [round EXCEPT !.seats[pl] = t]
    <2>1. s \in Seq(Seats) /\ s # <<>>
      BY <1>0, <1>9 DEF UpdateAccounted, HasSlot
    <2>2. WritesRound(r)
      BY <1>9 DEF UpdateAccounted
    <2>3. t \in Seq(Seats)
      <3>1. s[1] \in Seats /\ 1 \in DOMAIN s
        BY <2>1
      <3>2. [s[1] EXCEPT !.accountedFor = value] \in Seats
        BY <3>1 DEF Seats
      <3>3. t = [s EXCEPT ![1] = [s[1] EXCEPT !.accountedFor = value]]
        OBVIOUS
      <3> QED
        BY <2>1, <3>1, <3>2, <3>3, SeatPut
    <2>4. DOMAIN t = DOMAIN s /\ \A i \in DOMAIN s : t[i].pilot = s[i].pilot
      BY <2>1 DEF Seats
    <2> HIDE DEF t
    <2>5. /\ r \in Rounds
          /\ r.status = round.status
      BY <2>3, PutSeats
    <2>6. r.seats = [round.seats EXCEPT ![pl] = t]
      BY DEF Rounds
    <2> HIDE DEF r
    <2>7. Occupied(r) = Occupied(round)
      BY <2>4, <2>6, SamePilots DEF Rounds
    <2> QED
      BY <2>2, <2>5, <2>7 DEF SafeRound
  <1>10. ASSUME GroupsDone \/ CreateGroups
         PROVE  \E r : SafeRound(r) /\ WritesRound(r)
    <2>1. PICK busy \in BOOLEAN : WritesRound([round EXCEPT !.groupsBusy = busy])
      BY <1>10 DEF GroupsDone, CreateGroups
    <2> DEFINE r == [round EXCEPT !.groupsBusy = busy]
    <2>2. r \in Rounds /\ r.seats = round.seats /\ r.status = round.status
      BY DEF Rounds
    <2> QED
      BY <2>1, <2>2, SameSeats
  <1>11. ASSUME ReflectRoundSignToFly
         PROVE  \E r : SafeRound(r) /\ WritesRound(r)
    <2> DEFINE r == ApplyTo(round, ledger, brief.version)
    <2>1. r \in Rounds /\ Occupied(r) = Occupied(round)
      BY <1>0, ApplyToType
    <2>2. r.status = round.status
      BY <1>0 DEF ApplyTo, EditSeats, Rounds
    <2> QED
      BY <1>11, <2>1, <2>2 DEF SafeRound, ReflectRoundSignToFly
  <1> QED
    BY <1>2, <1>3, <1>4, <1>5, <1>6, <1>7, <1>8, <1>9, <1>10, <1>11 DEF RoundSteps

LEMMA RoundWriteKeeps ==
  ASSUME IInv, NEW r, SafeRound(r), WritesRound(r)
  PROVE  IInv'
  <1> USE DEF IInv, WritesRound
  <1>1. TypeOK'
    BY DEF TypeOK, SafeRound
  <1>2. LeasesHeld'
    BY DEF LeasesHeld
  <1>3. BriefFence'
    BY DEF BriefFence, BriefToWrite, BriefExists
  <1>4. NoHalfBrief'
    BY DEF NoHalfBrief, BriefExists
  <1>5. RoundFence'
    BY SentinelAssumption DEF RoundFence
  <1>6. NoFreezeUnderEdit'
    BY DEF NoFreezeUnderEdit, SafeRound
  <1>7. GatesPassed'
    BY DEF GatesPassed, GatePassed
  <1>8. SignaturesFollowBrief'
    BY DEF SignaturesFollowBrief
  <1>9. FrozenBriefIntact'
    BY DEF FrozenBriefIntact, SafeRound
  <1>10. LockedMeansSigned'
    BY DEF LockedMeansSigned, SafeRound, Briefed
  <1> QED
    BY <1>1, <1>2, <1>3, <1>4, <1>5, <1>6, <1>7, <1>8, <1>9, <1>10

-----------------------------------------------------------------------------
(* Signing. *)

LEMMA SignatureType ==
  ASSUME TypeOK, BriefExists, NEW o \in Occupancies
  PROVE  [occupancy |-> o, version |-> brief.version, hash |-> HashOf[brief.material]]
           \in Signatures
  BY HashAssumption, BoundAssumption DEF TypeOK, Signatures, Briefs, BriefExists

LEMMA SignStepsKeep ==
  ASSUME IInv, SignSteps
  PROVE  IInv'
  <1>1. /\ UNCHANGED <<round, brief, roundLease, briefLease, work>>
        /\ ledger \subseteq ledger' /\ built \subseteq built'
    BY DEF SignSteps, SignCheck, SignBuild, SignWrite
  <1>2. \A s \in ledger' \union built' :
          \/ s \in ledger \union built
          \/ s \in Signatures /\ s.version = brief.version /\ s.hash = brief.hash
    BY SignatureType DEF IInv, SignSteps, SignCheck, SignBuild, SignWrite, BriefIntact
  <1>3. TypeOK'
    <2>1. checked' \subseteq Occupancies
      BY DEF IInv, TypeOK, SignSteps, SignCheck, SignBuild, SignWrite
    <2> QED
      BY <1>1, <1>2, <2>1 DEF IInv, TypeOK
  <1>4. LeasesHeld' /\ BriefFence' /\ NoHalfBrief' /\ RoundFence'
    BY <1>1 DEF IInv, LeasesHeld, BriefFence, BriefToWrite, BriefExists, NoHalfBrief, RoundFence
  <1>5. NoFreezeUnderEdit' /\ FrozenBriefIntact'
    BY <1>1 DEF IInv, NoFreezeUnderEdit, FrozenBriefIntact
  <1>6. GatesPassed'
    BY <1>1 DEF IInv, GatesPassed, GatePassed
  <1>7. SignaturesFollowBrief'
    BY <1>1, <1>2 DEF IInv, SignaturesFollowBrief, TypeOK, Briefs
  <1>8. LockedMeansSigned'
    BY <1>1 DEF IInv, LockedMeansSigned
  <1> QED
    BY <1>3, <1>4, <1>5, <1>6, <1>7, <1>8 DEF IInv

-----------------------------------------------------------------------------
(* Requests on both blobs: what they may make of the brief. *)

SafeBrief(b) ==
  /\ b \in Briefs
  /\ b.version > 0
  /\ \/ b.version > brief.version
     \/ b.version = brief.version /\ brief.hash \in {NoHash, b.hash}
  /\ \A s \in ledger \union built :
       /\ s.version <= b.version
       /\ s.version = b.version => s.hash = b.hash
  /\ round.status \in Briefed =>
       b.version = brief.version /\ b.hash = brief.hash /\ b.material = brief.material

LEMMA SeedBriefSafe ==
  ASSUME IInv, ~BriefExists, NEW material \in Materials
  PROVE  SafeBrief(SeedBriefWith(material))
  <1>1. brief = NoBrief
    BY DEF IInv, NoHalfBrief
  <1>2. ledger \union built = {}
    BY <1>1 DEF IInv, TypeOK, SignaturesFollowBrief, NoBrief, Signatures
  <1>3. round.status \notin Briefed
    BY <1>1 DEF IInv, FrozenBriefIntact, BriefIntact, NoBrief
  <1>4. SeedBriefWith(material).version = 1 /\ brief.version = 0
    BY <1>1 DEF SeedBriefWith, NoBrief
  <1> QED
    BY <1>2, <1>3, <1>4, SeedBriefType DEF SafeBrief

LEMMA BriefToWriteSafe ==
  ASSUME IInv, NEW p \in Requests, work[p].pc = "read", briefLease = p
  PROVE  SafeBrief(BriefToWrite(p))
  <1> DEFINE b == BriefToWrite(p)
  <1>1. work[p] \in Works /\ brief \in Briefs /\ ledger \union built \subseteq Signatures
    BY DEF IInv, TypeOK
  <1>2. /\ b = NewBrief(work[p], work[p].round, brief)
        /\ brief.version > 0 /\ b.version <= MaxVersion
    BY DEF IInv, BriefFence, Writing, BriefToWrite
  <1>3. \A s \in ledger \union built :
          /\ s.version <= brief.version
          /\ s.version = brief.version => s.hash = brief.hash
          /\ s.version \in Nat /\ s.hash # NoHash
    BY <1>1, HashAssumption DEF IInv, SignaturesFollowBrief, Signatures
  <1>4. brief.version \in Nat
    BY <1>1 DEF Briefs
  <1> HIDE DEF b
  <1>5. CASE work[p].kind = "briefComplete"
    <2>1. round.status \notin Briefed
      BY <1>5 DEF IInv, NoFreezeUnderEdit
    <2>2. /\ b \in Briefs
          /\ b.version = IF brief.hash \in {NoHash, b.hash} THEN brief.version ELSE brief.version + 1
      BY <1>1, <1>2, <1>5, NewBriefType
    <2>3. CASE brief.hash \in {NoHash, b.hash}
      BY <1>2, <1>3, <1>4, <2>1, <2>2, <2>3 DEF SafeBrief, b
    <2>4. CASE brief.hash \notin {NoHash, b.hash}
      BY <1>2, <1>3, <1>4, <2>1, <2>2, <2>4 DEF SafeBrief, b
    <2> QED
      BY <2>3, <2>4
  <1>6. CASE work[p].kind # "briefComplete"
    <2>1. b \in Briefs /\ b.version = brief.version /\ b.hash = brief.hash
      BY <1>1, <1>2, <1>6, NewBriefType
    <2>2. round.status \in Briefed => work[p].kind \notin {"briefComplete", "editBrief"}
      BY DEF IInv, NoFreezeUnderEdit
    <2>3. round.status \in Briefed => b.material = brief.material
      BY <1>1, <1>2, <2>2, NewBriefType
    <2> QED
      BY <1>2, <1>3, <1>4, <2>1, <2>3 DEF SafeBrief, b
  <1> QED
    BY <1>5, <1>6

(* Lock and unlock write, and restore, the brief they read but its teams.  *)
LEMMA RestoredBrief ==
  ASSUME IInv, NEW p \in Requests, work[p].pc = "briefed", briefLease = p,
         work[p].kind \in {"lock", "unlock"}
  PROVE  LET b == work[p].brief
         IN  /\ b.version = brief.version /\ b.hash = brief.hash /\ b.material = brief.material
             /\ SafeBrief(b)
  <1> DEFINE b == work[p].brief
  <1>1. work[p] \in Works /\ b \in Briefs
    BY DEF IInv, TypeOK, Works
  <1>2. brief = NewBrief(work[p], work[p].round, b) /\ b.version > 0
    BY DEF IInv, BriefFence, BriefToWrite, Writing
  <1> HIDE DEF b
  <1>3. b.version = brief.version /\ b.hash = brief.hash /\ b.material = brief.material
    BY <1>1, <1>2, NewBriefType
  <1>4. \A s \in ledger \union built :
          /\ s.version <= brief.version
          /\ s.version = brief.version => s.hash = brief.hash
    BY DEF IInv, SignaturesFollowBrief
  <1> QED
    BY <1>1, <1>2, <1>3, <1>4 DEF SafeBrief, b

(* A request that ends, goes back to its leases or starts: it is not left   *)
(* writing, and the round stays as it was.                                  *)
Leaves(p, w) ==
  /\ w \in Works /\ w.pc \notin Writing
  /\ w.pc # "idle" => w.kind \in Kinds
  /\ work' = [work EXCEPT ![p] = w]
  /\ roundLease' \in {roundLease, Free(roundLease, p)}
  /\ roundLease' = p => w.pc = "round"
  /\ briefLease' = Free(briefLease, p)
  /\ brief' = brief \/ (SafeBrief(brief') /\ (briefLease = p \/ ~BriefExists))
  /\ UNCHANGED <<round, ledger, checked, built>>

LEMMA LeavesKeeps ==
  ASSUME IInv, NEW p \in Requests, NEW w, Leaves(p, w)
  PROVE  IInv'
  <1>1. /\ work'[p] = w
        /\ \A q \in Requests \ {p} : work'[q] = work[q]
    BY DEF IInv, TypeOK, Leaves
  <1>2. \A q \in Requests : roundLease' = q => roundLease = q
    BY SentinelAssumption DEF Leaves, Free
  <1>3. /\ briefLease' # p
        /\ \A q \in Requests \ {p} : briefLease' = q <=> briefLease = q
    BY SentinelAssumption DEF Leaves, Free
  <1>4. \A q \in Requests \ {p} : briefLease = q => brief' = brief
    BY DEF Leaves, IInv, BriefFence
  <1>5. brief' = brief \/ SafeBrief(brief')
    BY DEF Leaves
  <1>6. UNCHANGED <<round, ledger, checked, built>>
    BY DEF Leaves
  <1>7. /\ w.pc \notin Writing
        /\ w.pc # "idle" => w.kind \in Kinds
        /\ roundLease' = p => w.pc = "round"
    BY DEF Leaves
  <1>8. TypeOK'
    BY SentinelAssumption DEF Leaves, Free, IInv, TypeOK, SafeBrief
  <1>9. LeasesHeld'
    BY <1>1, <1>2, <1>3, <1>7 DEF IInv, LeasesHeld
  <1>10. BriefFence'
    <2>1. ASSUME NEW q \in Requests \ {p}
          PROVE  /\ work'[q].pc \in Writing =>
                      work'[q].brief.version > 0 /\ BriefToWrite(q)'.version <= MaxVersion
                 /\ briefLease' = q => BriefExists'
                 /\ briefLease' = q /\ work'[q].pc = "read" => brief' = work'[q].brief
                 /\ briefLease' = q /\ work'[q].pc = "briefed" => brief' = BriefToWrite(q)'
      BY <1>1, <1>3, <1>4 DEF IInv, BriefFence, BriefToWrite, BriefExists
    <2> QED
      BY <1>1, <1>3, <1>7, <2>1 DEF BriefFence
  <1>11. NoHalfBrief'
    BY <1>5 DEF IInv, NoHalfBrief, BriefExists, SafeBrief
  <1>12. RoundFence'
    BY <1>1, <1>2, <1>6, <1>7 DEF IInv, RoundFence
  <1>13. NoFreezeUnderEdit'
    BY <1>1, <1>3, <1>6 DEF IInv, NoFreezeUnderEdit
  <1>14. GatesPassed'
    BY <1>1, <1>6, <1>7 DEF IInv, GatesPassed, GatePassed
  <1>15. SignaturesFollowBrief'
    BY <1>5, <1>6 DEF IInv, SignaturesFollowBrief, SafeBrief
  <1>16. FrozenBriefIntact'
    BY <1>5, <1>6 DEF IInv, FrozenBriefIntact, SafeBrief, BriefIntact
  <1>17. LockedMeansSigned'
    BY <1>5, <1>6 DEF IInv, LockedMeansSigned, SafeBrief, Briefed
  <1> QED
    BY <1>8, <1>9, <1>10, <1>11, <1>12, <1>13, <1>14, <1>15, <1>16, <1>17 DEF IInv

SeedsBrief ==
  /\ ~BriefExists
  /\ \E material \in Materials : brief' = SeedBriefWith(material)

LEMMA AskingLeaves ==
  ASSUME IInv, NEW p \in Requests, Asking(p)
  PROVE  \E w : Leaves(p, w)
  <1>1. ASSUME NEW w \in Works, w.pc = "asked", w.kind \in Kinds, Asks(p, w),
               brief' = brief \/ SeedsBrief
        PROVE  \E u : Leaves(p, u)
    <2>1. work[p].pc = "idle" /\ work' = [work EXCEPT ![p] = w]
      BY <1>1 DEF Asks
    <2>2. roundLease # p /\ briefLease # p
      BY <2>1 DEF IInv, LeasesHeld, Writing
    <2>3. UNCHANGED <<round, ledger, checked, built, roundLease, briefLease>>
      BY <1>1 DEF Asks
    <2>4. Leaves(p, w)
      BY <1>1, <2>1, <2>2, <2>3, SeedBriefSafe DEF Leaves, Free, Writing, SeedsBrief
    <2> QED
      BY <2>4
  <1>2. CASE AskBriefComplete(p)
    <2> DEFINE w == [Idle EXCEPT !.kind = "briefComplete", !.pc = "asked"]
    <2>1. w \in Works /\ w.pc = "asked" /\ w.kind \in Kinds
      BY IdleType DEF Works, Kinds
    <2>2. Asks(p, w) /\ (brief' = brief \/ SeedsBrief)
      BY <1>2 DEF AskBriefComplete
    <2> HIDE DEF w
    <2> QED
      BY <1>1, <2>1, <2>2
  <1>3. CASE AskLock(p)
    <2> DEFINE w == [Idle EXCEPT !.kind = "lock", !.pc = "asked", !.candidate = LockCandidate(round)]
    <2>1. w \in Works /\ w.pc = "asked" /\ w.kind \in Kinds
      BY IdleType, RosterType DEF Works, Kinds
    <2>2. Asks(p, w) /\ (brief' = brief \/ SeedsBrief)
      BY <1>3 DEF AskLock
    <2> HIDE DEF w
    <2> QED
      BY <1>1, <2>1, <2>2
  <1>4. CASE AskUnlock(p)
    <2> DEFINE w == [Idle EXCEPT !.kind = "unlock", !.pc = "asked"]
    <2>1. w \in Works /\ w.pc = "asked" /\ w.kind \in Kinds
      BY IdleType DEF Works, Kinds
    <2>2. Asks(p, w) /\ (brief' = brief \/ SeedsBrief)
      BY <1>4, SentinelAssumption DEF AskUnlock, SeedBrief, SeedsBrief
    <2> HIDE DEF w
    <2> QED
      BY <1>1, <2>1, <2>2
  <1>5. ASSUME NEW material \in Materials, AskEditBrief(p, material)
        PROVE  \E u : Leaves(p, u)
    <2> DEFINE w == [Idle EXCEPT !.kind = "editBrief", !.pc = "asked", !.material = material]
    <2>1. w \in Works /\ w.pc = "asked" /\ w.kind \in Kinds
      BY IdleType DEF Works, Kinds
    <2>2. Asks(p, w) /\ (brief' = brief \/ SeedsBrief)
      BY <1>5, SentinelAssumption DEF AskEditBrief, SeedBrief, SeedsBrief
    <2> HIDE DEF w
    <2> QED
      BY <1>1, <2>1, <2>2
  <1>6. ASSUME NEW material \in Materials, AskUploadImage(p, material)
        PROVE  \E u : Leaves(p, u)
    <2> DEFINE w == [Idle EXCEPT !.kind = "editBrief", !.pc = "asked", !.material = material]
    <2>1. w \in Works /\ w.pc = "asked" /\ w.kind \in Kinds
      BY IdleType DEF Works, Kinds
    <2>2. Asks(p, w) /\ (brief' = brief \/ SeedsBrief)
      BY <1>6, SentinelAssumption DEF AskUploadImage, SeedBrief, SeedsBrief
    <2> HIDE DEF w
    <2> QED
      BY <1>1, <2>1, <2>2
  <1>7. ASSUME NEW material \in Materials, AskDeleteImage(p, material)
        PROVE  \E u : Leaves(p, u)
    <2> DEFINE w == [Idle EXCEPT !.kind = "editBrief", !.pc = "asked", !.material = material]
    <2>1. w \in Works /\ w.pc = "asked" /\ w.kind \in Kinds
      BY IdleType DEF Works, Kinds
    <2>2. Asks(p, w) /\ brief' = brief
      BY <1>7 DEF AskDeleteImage
    <2> HIDE DEF w
    <2> QED
      BY <1>1, <2>1, <2>2
  <1> QED
    BY <1>2, <1>3, <1>4, <1>5, <1>6, <1>7 DEF Asking

(* Where a request stops, or starts over, it leaves. *)
LEMMA EndingLeaves ==
  ASSUME IInv, NEW p \in Requests, work[p].pc # "idle",
         UNCHANGED <<round, ledger, checked, built>>,
         brief' = brief \/ (SafeBrief(brief') /\ briefLease = p),
         Ends(p) \/ \E pc \in {"round", "asked"} : RetriesFrom(p, pc)
  PROVE  \E w : Leaves(p, w)
  <1>1. CASE Ends(p)
    <2>1. Idle.pc = "idle"
      BY DEF Idle
    <2> QED
      BY <1>1, <2>1, IdleType, SentinelAssumption DEF Ends, Leaves, Writing, Free
  <1>2. ASSUME NEW pc \in {"round", "asked"}, RetriesFrom(p, pc)
        PROVE  \E w : Leaves(p, w)
    <2> DEFINE w == [work[p] EXCEPT !.pc = pc, !.round = NewlyCreated, !.brief = NoBrief]
    <2>1. NoBrief \in Briefs
      BY SentinelAssumption, BoundAssumption DEF NoBrief, Briefs
    <2>2. work[p] \in Works /\ work[p].kind \in Kinds
      BY DEF IInv, TypeOK, GatesPassed
    <2>3. w \in Works /\ w.pc = pc /\ w.kind \in Kinds
      BY <2>1, <2>2, NewlyCreatedType DEF Works
    <2>4. work' = [work EXCEPT ![p] = w]
      BY <1>2 DEF RetriesFrom
    <2> HIDE DEF w
    <2> QED
      BY <1>2, <2>3, <2>4, SentinelAssumption DEF RetriesFrom, Leaves, Writing, Free
  <1> QED
    BY <1>1, <1>2

LEMMA LeaseLapsesKeeps ==
  ASSUME IInv, NEW p \in Requests, LeaseLapses(p)
  PROVE  IInv'
  <1>1. /\ UNCHANGED <<round, brief, ledger, checked, built, work>>
        /\ roundLease' \in {roundLease, NoOne} /\ briefLease' \in {briefLease, NoOne}
    BY DEF LeaseLapses
  <1>2. \A q \in Requests :
          /\ roundLease' = q => roundLease = q
          /\ briefLease' = q => briefLease = q
    BY <1>1, SentinelAssumption
  <1>3. TypeOK'
    BY <1>1 DEF IInv, TypeOK
  <1>4. LeasesHeld'
    BY <1>1, <1>2, SentinelAssumption DEF IInv, LeasesHeld, LeaseLapses
  <1>5. BriefFence'
    <2>1. \A q \in Requests : BriefToWrite(q)' = BriefToWrite(q)
      BY <1>1 DEF BriefToWrite
    <2> QED
      BY <1>1, <1>2, <2>1 DEF IInv, BriefFence, BriefExists
  <1>6. NoHalfBrief' /\ RoundFence'
    BY <1>1, <1>2 DEF IInv, NoHalfBrief, BriefExists, RoundFence
  <1>7. NoFreezeUnderEdit'
    BY <1>1, <1>2 DEF IInv, NoFreezeUnderEdit
  <1>8. GatesPassed'
    BY <1>1 DEF IInv, GatesPassed, GatePassed
  <1>9. SignaturesFollowBrief' /\ FrozenBriefIntact' /\ LockedMeansSigned'
    BY <1>1 DEF IInv, SignaturesFollowBrief, FrozenBriefIntact, LockedMeansSigned
  <1> QED
    BY <1>3, <1>4, <1>5, <1>6, <1>7, <1>8, <1>9 DEF IInv

LEMMA AcquireRoundLeaseKeeps ==
  ASSUME IInv, NEW p \in Requests, AcquireRoundLease(p)
  PROVE  IInv'
  <1> DEFINE w == [work[p] EXCEPT !.pc = "round"]
  <1>1. UNCHANGED <<round, brief, ledger, checked, built, briefLease>>
    BY DEF AcquireRoundLease
  <1>2. w \in Works /\ w.pc = "round"
    BY DEF IInv, TypeOK, Works
  <1>3. /\ work' = [work EXCEPT ![p] = w]
        /\ roundLease' = p /\ briefLease # p
    BY DEF AcquireRoundLease, IInv, LeasesHeld, Writing
  <1> HIDE DEF w
  <1>4. /\ work'[p] = w
        /\ \A q \in Requests \ {p} : work'[q] = work[q] /\ roundLease' # q
    BY <1>3 DEF IInv, TypeOK
  <1>5. TypeOK'
    BY <1>1, <1>2, <1>3 DEF IInv, TypeOK
  <1>6. LeasesHeld'
    BY <1>1, <1>2, <1>3, <1>4 DEF IInv, LeasesHeld, Writing
  <1>7. BriefFence'
    <2>1. \A q \in Requests \ {p} : BriefToWrite(q)' = BriefToWrite(q)
      BY <1>4 DEF BriefToWrite
    <2> QED
      BY <1>1, <1>2, <1>3, <1>4, <2>1 DEF IInv, BriefFence, BriefExists, Writing
  <1>8. NoHalfBrief' /\ RoundFence'
    BY <1>1, <1>2, <1>4 DEF IInv, NoHalfBrief, BriefExists, RoundFence, Writing
  <1>9. NoFreezeUnderEdit'
    BY <1>1, <1>3, <1>4 DEF IInv, NoFreezeUnderEdit
  <1>10. GatesPassed'
    <2>1. w.kind \in Kinds
      BY DEF IInv, GatesPassed, AcquireRoundLease, TypeOK, Works, w
    <2> QED
      BY <1>1, <1>2, <1>4, <2>1 DEF IInv, GatesPassed, GatePassed, Writing
  <1>11. SignaturesFollowBrief' /\ FrozenBriefIntact' /\ LockedMeansSigned'
    BY <1>1 DEF IInv, SignaturesFollowBrief, FrozenBriefIntact, LockedMeansSigned
  <1> QED
    BY <1>5, <1>6, <1>7, <1>8, <1>9, <1>10, <1>11 DEF IInv

(* The gates, passed on what was read under the leases. *)
LEMMA ReadRoundAndBriefKeeps ==
  ASSUME IInv, NEW p \in Requests, ReadRoundAndBrief(p)
  PROVE  IInv'
  <1> DEFINE q == NewRound(work[p], round, brief, ledger)
             w == [work[p] EXCEPT !.pc = "read", !.brief = brief, !.round = q]
  <1>1. UNCHANGED <<round, brief, ledger, checked, built, roundLease>>
    BY DEF ReadRoundAndBrief
  <1>2. round \in Rounds /\ brief \in Briefs /\ work[p] \in Works
    BY DEF IInv, TypeOK
  <1>3. /\ q \in Rounds
        /\ work[p].kind = "briefComplete" => q.status = "BriefComplete"
        /\ work[p].kind = "lock" => q.status = "Locked" /\ Occupied(q) = Occupied(round)
        /\ work[p].kind = "unlock" => q.status = "Confirmed"
    BY <1>2, NewRoundType
  <1>4. work' = [work EXCEPT ![p] = w]
    BY DEF ReadRoundAndBrief
  <1> HIDE DEF q
  <1>5. /\ w \in Works /\ w.pc = "read" /\ w.brief = brief /\ w.round = q
        /\ w.kind = work[p].kind /\ w.material = work[p].material
        /\ w.candidate = work[p].candidate
    BY <1>2, <1>3 DEF Works
  <1>6. /\ briefLease = NoOne /\ briefLease' = p /\ BriefExists
        /\ work[p].pc = "round"
        /\ Gate(work[p].kind, round, brief, ledger)
        /\ NewBrief(work[p], round, brief).version <= MaxVersion
    BY DEF ReadRoundAndBrief
  <1> HIDE DEF w
  <1>7. /\ work'[p] = w
        /\ \A r \in Requests \ {p} : work'[r] = work[r]
    BY <1>4 DEF IInv, TypeOK
  <1>8. TypeOK'
    BY <1>1, <1>4, <1>5, <1>6 DEF IInv, TypeOK
  <1>9. LeasesHeld'
    BY <1>1, <1>5, <1>6, <1>7, SentinelAssumption DEF IInv, LeasesHeld, Writing
  <1>10. BriefFence'
    <2>1. NewBrief(w, w.round, brief).version = NewBrief(work[p], round, brief).version
      BY <1>5 DEF NewBrief, FreezeBrief
    <2>2. \A r \in Requests \ {p} : BriefToWrite(r)' = BriefToWrite(r)
      BY <1>7 DEF BriefToWrite
    <2>3. BriefToWrite(p)'.version <= MaxVersion
      BY <1>5, <1>6, <1>7, <2>1 DEF BriefToWrite
    <2> QED
      BY <1>1, <1>5, <1>6, <1>7, <2>2, <2>3 DEF IInv, BriefFence, BriefExists, Writing
  <1>11. NoHalfBrief'
    BY <1>1 DEF IInv, NoHalfBrief, BriefExists
  <1>12. RoundFence'
    BY <1>1, <1>3, <1>5, <1>6, <1>7 DEF IInv, RoundFence, Gate
  <1>13. NoFreezeUnderEdit'
    BY <1>1, <1>5, <1>6, <1>7 DEF IInv, NoFreezeUnderEdit, Gate, Briefed, IsRosterFrozen
  <1>14. GatesPassed'
    <2>1. work[p].kind \in Kinds
      BY <1>6 DEF IInv, GatesPassed
    <2>2. ASSUME work[p].kind = "lock", NEW o \in Occupied(round)
          PROVE  \E s \in ledger : /\ s.occupancy = o
                                    /\ s.version = brief.version
                                    /\ s.hash = HashOf[brief.material]
      BY <1>6, <2>2 DEF Gate, UnsignedSlots, IsSigned, SignaturesFor, BriefIntact,
                        IInv, SignaturesFollowBrief
    <2> QED
      BY <1>1, <1>3, <1>5, <1>6, <1>7, <2>1, <2>2 DEF IInv, GatesPassed, GatePassed, Gate, Writing
  <1>15. SignaturesFollowBrief' /\ FrozenBriefIntact' /\ LockedMeansSigned'
    BY <1>1 DEF IInv, SignaturesFollowBrief, FrozenBriefIntact, LockedMeansSigned
  <1> QED
    BY <1>8, <1>9, <1>10, <1>11, <1>12, <1>13, <1>14, <1>15 DEF IInv

(* The brief is written first, and no one sees it but through the old round. *)
LEMMA WriteBriefKeeps ==
  ASSUME IInv, NEW p \in Requests, WriteBrief(p), work[p].kind # "editBrief"
  PROVE  IInv'
  <1> DEFINE w == [work[p] EXCEPT !.pc = "briefed"]
  <1>1. UNCHANGED <<round, ledger, checked, built, roundLease, briefLease>>
    BY DEF WriteBrief
  <1>2. /\ work[p] \in Works
        /\ work[p].pc = "read" /\ briefLease = p
        /\ brief' = BriefToWrite(p) /\ work' = [work EXCEPT ![p] = w]
    BY DEF WriteBrief, IInv, TypeOK
  <1>3. /\ w \in Works /\ w.pc = "briefed"
        /\ w.kind = work[p].kind /\ w.round = work[p].round /\ w.brief = work[p].brief
        /\ w.material = work[p].material /\ w.candidate = work[p].candidate
    BY <1>2 DEF Works
  <1> HIDE DEF w
  <1>4. /\ work'[p] = w
        /\ \A q \in Requests \ {p} : work'[q] = work[q]
    BY <1>2 DEF IInv, TypeOK
  <1>5. SafeBrief(brief')
    BY <1>2, BriefToWriteSafe
  <1>6. TypeOK'
    BY <1>1, <1>2, <1>3, <1>5 DEF IInv, TypeOK, SafeBrief
  <1>7. LeasesHeld'
    BY <1>1, <1>2, <1>3, <1>4 DEF IInv, LeasesHeld, Writing
  <1>8. BriefFence'
    <2>1. BriefToWrite(p)' = BriefToWrite(p)
      BY <1>3, <1>4 DEF BriefToWrite, NewBrief
    <2>2. \A q \in Requests \ {p} : BriefToWrite(q)' = BriefToWrite(q) /\ briefLease # q
      BY <1>2, <1>4 DEF BriefToWrite
    <2> QED
      BY <1>1, <1>2, <1>3, <1>4, <1>5, <2>1, <2>2
      DEF IInv, BriefFence, BriefExists, Writing, SafeBrief
  <1>9. NoHalfBrief'
    BY <1>5 DEF NoHalfBrief, BriefExists, SafeBrief
  <1>10. RoundFence'
    BY <1>1, <1>2, <1>3, <1>4 DEF IInv, RoundFence, Writing
  <1>11. NoFreezeUnderEdit'
    BY <1>1, <1>3, <1>4 DEF IInv, NoFreezeUnderEdit
  <1>12. GatesPassed'
    BY <1>1, <1>2, <1>3, <1>4 DEF IInv, GatesPassed, GatePassed, Writing
  <1>13. SignaturesFollowBrief'
    BY <1>1, <1>5 DEF IInv, SignaturesFollowBrief, SafeBrief
  <1>14. FrozenBriefIntact'
    BY <1>1, <1>5 DEF IInv, FrozenBriefIntact, SafeBrief, BriefIntact
  <1>15. LockedMeansSigned'
    BY <1>1, <1>5 DEF IInv, LockedMeansSigned, SafeBrief, Briefed
  <1> QED
    BY <1>6, <1>7, <1>8, <1>9, <1>10, <1>11, <1>12, <1>13, <1>14, <1>15 DEF IInv

(* The round is written, and the brief stays or is put back. *)
WritesNewRound(p) ==
  /\ work[p].pc = "briefed" /\ roundLease = p
  /\ round' = work[p].round
  /\ Ends(p)
  /\ UNCHANGED brief \/ RestoreBrief(p)
  /\ UNCHANGED <<ledger, checked, built>>

LEMMA NewRoundKeeps ==
  ASSUME IInv, NEW p \in Requests, WritesNewRound(p)
  PROVE  IInv'
  <1> USE DEF WritesNewRound
  <1>1. /\ briefLease = p /\ work[p] \in Works
        /\ work[p].kind \in {"briefComplete", "lock", "unlock"}
        /\ GatePassed(work[p])
    BY DEF IInv, TypeOK, LeasesHeld, GatesPassed, GatePassed, Writing, Kinds
  <1>2. /\ brief'.version = brief.version
        /\ brief'.hash = brief.hash
        /\ brief'.material = brief.material
        /\ brief' = brief \/ SafeBrief(brief')
    BY <1>1, RestoredBrief DEF RestoreBrief
  <1>3. /\ work' = [work EXCEPT ![p] = Idle] /\ Idle.pc = "idle"
        /\ roundLease' = NoOne /\ briefLease' = NoOne
    BY <1>1 DEF Ends, Free, Idle
  <1>4. /\ work'[p] = Idle
        /\ \A q \in Requests \ {p} : work'[q] = work[q]
    BY <1>3 DEF IInv, TypeOK
  <1>5. /\ brief = NewBrief(work[p], work[p].round, work[p].brief)
        /\ brief.version > 0
    BY <1>1 DEF IInv, BriefFence, BriefToWrite, BriefExists
  <1>6. TypeOK'
    BY <1>1, <1>2, <1>3, IdleType DEF IInv, TypeOK, Works, SafeBrief
  <1>7. LeasesHeld' /\ RoundFence' /\ NoFreezeUnderEdit'
    BY <1>3, SentinelAssumption DEF LeasesHeld, RoundFence, NoFreezeUnderEdit
  <1>8. BriefFence' /\ NoHalfBrief'
    <2>1. \A q \in Requests \ {p} : BriefToWrite(q)' = BriefToWrite(q)
      BY <1>4 DEF BriefToWrite
    <2> QED
      BY <1>2, <1>3, <1>4, <1>5, <2>1, SentinelAssumption
      DEF IInv, BriefFence, NoHalfBrief, BriefExists, Writing
  <1>9. GatesPassed'
    BY <1>3, <1>4 DEF IInv, GatesPassed, GatePassed, Writing
  <1>10. SignaturesFollowBrief'
    BY <1>2 DEF IInv, SignaturesFollowBrief
  <1>11. FrozenBriefIntact'
    <2>1. CASE work[p].kind = "briefComplete"
      <3>1. work[p].brief \in Briefs
        BY <1>1 DEF Works
      <3>2. BriefIntact(brief)
        BY <1>1, <1>5, <2>1, <3>1, NewBriefType
      <3> QED
        BY <1>2, <3>2 DEF FrozenBriefIntact, BriefIntact
    <2>2. CASE work[p].kind = "lock"
      <3>1. brief = [work[p].brief EXCEPT !.teams = work[p].candidate]
        BY <1>5, <2>2 DEF NewBrief
      <3>2. BriefIntact(brief)
        BY <1>1, <2>2, <3>1 DEF GatePassed, BriefIntact, Works, Briefs
      <3> QED
        BY <1>2, <3>2 DEF FrozenBriefIntact, BriefIntact
    <2>3. CASE work[p].kind = "unlock"
      BY <1>1, <2>3 DEF FrozenBriefIntact, GatePassed, Briefed
    <2> QED
      BY <1>1, <2>1, <2>2, <2>3
  <1>12. LockedMeansSigned'
    <2>1. CASE work[p].kind = "lock"
      <3>1. brief = [work[p].brief EXCEPT !.teams = work[p].candidate]
        BY <1>5, <2>1 DEF NewBrief
      <3>2. brief.version = work[p].brief.version /\ brief.material = work[p].brief.material
        BY <1>1, <3>1 DEF Works, Briefs
      <3> QED
        BY <1>1, <1>2, <2>1, <3>2 DEF GatePassed, LockedMeansSigned
    <2>2. CASE work[p].kind \in {"briefComplete", "unlock"}
      BY <1>1, <2>2 DEF GatePassed, LockedMeansSigned
    <2> QED
      BY <1>1, <2>1, <2>2
  <1> QED
    BY <1>6, <1>7, <1>8, <1>9, <1>10, <1>11, <1>12 DEF IInv

-----------------------------------------------------------------------------
(* The next-state relation, action by action. *)

LEMMA RequestStepCases ==
  ASSUME IInv, NEW p \in Requests, RequestStep(p)
  PROVE  \/ \E w : Leaves(p, w)
         \/ AcquireRoundLease(p)
         \/ ReadRoundAndBrief(p)
         \/ WriteBrief(p) /\ work[p].kind # "editBrief"
         \/ WritesNewRound(p)
  <1>1. CASE Reject(p) \/ GiveUp(p) \/ Crash(p)
    <2>1. /\ Ends(p) /\ work[p].pc # "idle"
          /\ UNCHANGED <<round, brief, ledger, checked, built>>
      BY <1>1 DEF Reject, GiveUp, Crash
    <2> QED
      BY <2>1, EndingLeaves
  <1>2. CASE WriteBrief(p) /\ work[p].kind = "editBrief"
    <2>1. /\ Ends(p) /\ work[p].pc = "read" /\ briefLease = p
          /\ UNCHANGED <<round, ledger, checked, built>>
          /\ brief' = BriefToWrite(p)
      BY <1>2 DEF WriteBrief
    <2>2. SafeBrief(brief')
      BY <2>1, BriefToWriteSafe
    <2> QED
      BY <2>1, <2>2, EndingLeaves
  <1>3. CASE BriefWriteRefused(p)
    <2>1. /\ work[p].pc = "read" /\ UNCHANGED <<round, brief, ledger, checked, built>>
          /\ \E pc \in {"round", "asked"} : RetriesFrom(p, pc)
      BY <1>3 DEF BriefWriteRefused
    <2> QED
      BY <2>1, EndingLeaves
  <1>4. CASE BriefWriteFails(p)
    <2>1. /\ Ends(p) /\ work[p].pc = "read"
          /\ UNCHANGED <<round, ledger, checked, built>>
          /\ brief' = brief \/ (briefLease = p /\ brief' = BriefToWrite(p))
      BY <1>4 DEF BriefWriteFails
    <2>2. brief' = brief \/ (SafeBrief(brief') /\ briefLease = p)
      BY <2>1, BriefToWriteSafe
    <2> QED
      BY <2>1, <2>2, EndingLeaves
  <1>5. ASSUME work[p].pc = "briefed", RestoreBrief(p)
        PROVE  brief' = brief \/ (SafeBrief(brief') /\ briefLease = p)
    BY <1>5, RestoredBrief DEF RestoreBrief
  <1>6. CASE RoundWriteRefused(p)
    <2>1. /\ work[p].pc = "briefed" /\ RestoreBrief(p)
          /\ UNCHANGED <<round, ledger, checked, built>>
          /\ \E pc \in {"round", "asked"} : RetriesFrom(p, pc)
      BY <1>6 DEF RoundWriteRefused
    <2> QED
      BY <1>5, <2>1, EndingLeaves
  <1>7. CASE RoundWriteFails(p)
    <2>1. /\ work[p].pc = "briefed" /\ RestoreBrief(p) /\ Ends(p)
          /\ UNCHANGED <<ledger, checked, built>>
          /\ round' = round \/ (roundLease = p /\ round' = work[p].round)
      BY <1>7 DEF RoundWriteFails
    <2>2. CASE round' = round
      BY <1>5, <2>1, <2>2, EndingLeaves
    <2>3. CASE roundLease = p /\ round' = work[p].round
      BY <2>1, <2>3 DEF WritesNewRound
    <2> QED
      BY <2>1, <2>2, <2>3
  <1>8. CASE WriteRound(p)
    BY <1>8 DEF WriteRound, WritesNewRound
  <1> QED
    BY <1>1, <1>2, <1>3, <1>4, <1>6, <1>7, <1>8 DEF RequestStep

(* Every step is of one of these forms. *)
LEMMA NextCases ==
  ASSUME IInv, Next
  PROVE  \/ \E r : SafeRound(r) /\ WritesRound(r)
         \/ SignSteps
         \/ \E p \in Requests :
              \/ \E w : Leaves(p, w)
              \/ AcquireRoundLease(p)
              \/ ReadRoundAndBrief(p)
              \/ WriteBrief(p) /\ work[p].kind # "editBrief"
              \/ WritesNewRound(p)
              \/ LeaseLapses(p)
  <1>1. CASE RoundSteps
    BY <1>1, RoundStepsSafe DEF IInv
  <1>2. ASSUME NEW p \in Requests, Asking(p)
        PROVE  \E w : Leaves(p, w)
    BY <1>2, AskingLeaves
  <1> QED
    BY <1>1, <1>2, RequestStepCases DEF Next

LEMMA NextKeeps == IInv /\ [Next]_vars => IInv'
  <1> SUFFICES ASSUME IInv, [Next]_vars
               PROVE  IInv'
    OBVIOUS
  <1>1. CASE Next
    BY <1>1, NextCases, RoundWriteKeeps, SignStepsKeep, LeavesKeeps, AcquireRoundLeaseKeeps,
       ReadRoundAndBriefKeeps, WriteBriefKeeps, NewRoundKeeps, LeaseLapsesKeeps
  <1>2. CASE UNCHANGED vars
    <2> USE <1>2 DEF vars, IInv
    <2>1. TypeOK' /\ LeasesHeld' /\ NoHalfBrief' /\ RoundFence' /\ NoFreezeUnderEdit'
      BY DEF TypeOK, LeasesHeld, NoHalfBrief, BriefExists, RoundFence, NoFreezeUnderEdit
    <2>2. BriefFence' /\ GatesPassed'
      BY DEF BriefFence, BriefToWrite, BriefExists, GatesPassed, GatePassed
    <2>3. SignaturesFollowBrief' /\ FrozenBriefIntact' /\ LockedMeansSigned'
      BY DEF SignaturesFollowBrief, FrozenBriefIntact, LockedMeansSigned
    <2> QED
      BY <2>1, <2>2, <2>3
  <1> QED
    BY <1>1, <1>2

LEMMA InitKeeps == Init => IInv
  <1> SUFFICES ASSUME Init
               PROVE  IInv
    OBVIOUS
  <1>1. /\ round = NewlyCreated /\ round.status = "Proposed"
        /\ brief \in {NoBrief, SeedBrief} /\ NoBrief.version = 0 /\ SeedBrief.version = 1
        /\ ledger = {} /\ checked = {} /\ built = {}
        /\ roundLease = NoOne /\ briefLease = NoOne
        /\ \A p \in Requests : work[p] = Idle /\ Idle.pc = "idle"
        /\ work \in [Requests -> Works]
    BY IdleType DEF Init, NewlyCreated, NoBrief, SeedBrief, SeedBriefWith, Idle
  <1>2. NoBrief \in Briefs
    BY SentinelAssumption, BoundAssumption DEF NoBrief, Briefs
  <1>3. TypeOK
    BY <1>1, <1>2, NewlyCreatedType, SeedBriefType DEF TypeOK
  <1>4. LeasesHeld /\ BriefFence /\ RoundFence /\ NoFreezeUnderEdit /\ GatesPassed
    BY <1>1, SentinelAssumption
    DEF LeasesHeld, BriefFence, RoundFence, NoFreezeUnderEdit, GatesPassed, Writing
  <1>5. NoHalfBrief /\ SignaturesFollowBrief /\ FrozenBriefIntact /\ LockedMeansSigned
    BY <1>1 DEF NoHalfBrief, BriefExists, SignaturesFollowBrief, FrozenBriefIntact,
                LockedMeansSigned, Briefed
  <1> QED
    BY <1>3, <1>4, <1>5 DEF IInv

-----------------------------------------------------------------------------
(* IInv is an invariant: the leases fence what the gates of lock, unlock and *)
(* brief-complete have read until it is written.                            *)
THEOREM Invariance == Spec => []IInv
  BY InitKeeps, NextKeeps, PTL DEF Spec

(* The three documents, the leases and the requests keep their types; in     *)
(* particular no request writes a brief or a round it has not read.         *)
THEOREM TypeCorrect == Spec => []TypeOK
  <1>1. IInv => TypeOK
    BY DEF IInv
  <1> QED
    BY <1>1, Invariance, PTL

(* lockRound never admits a pilot who has not signed the brief as it is,     *)
(* whatever edits, brief-completes, crashes and lapsed leases come between. *)
THEOREM LockIsSafe == Spec => []LockedMeansSigned
  <1>1. IInv => LockedMeansSigned
    BY DEF IInv
  <1> QED
    BY <1>1, Invariance, PTL

(* assertFrozenBriefIntact never fails because of a brief edit. *)
THEOREM FrozenBriefStaysIntact == Spec => []FrozenBriefIntact
  <1>1. IInv => FrozenBriefIntact
    BY DEF IInv
  <1> QED
    BY <1>1, Invariance, PTL

(* A brief version names one content, for every pilot who signed it. *)
THEOREM VersionsAreUnambiguous == Spec => []OneMaterialPerVersion
  <1>1. IInv => OneMaterialPerVersion
    BY DEF IInv, SignaturesFollowBrief, OneMaterialPerVersion
  <1> QED
    BY <1>1, Invariance, PTL

-----------------------------------------------------------------------------
(* What a step may do to the round and to the brief. *)

LEMMA RoundHistory ==
  ASSUME IInv, Next
  PROVE  /\ round.status = "Complete" => round'.status = "Complete"
         /\ round.status \in Briefed /\ round'.status \in Briefed =>
              Occupied(round') = Occupied(round)
  <1>1. ASSUME NEW r, SafeRound(r), WritesRound(r)
        PROVE  /\ round.status = "Complete" => round'.status = "Complete"
               /\ round.status \in Briefed /\ round'.status \in Briefed =>
                    Occupied(round') = Occupied(round)
    BY <1>1 DEF SafeRound, WritesRound
  <1>2. ASSUME NEW p \in Requests, WritesNewRound(p)
        PROVE  /\ round.status # "Complete"
               /\ round.status \in Briefed /\ round'.status \in Briefed =>
                    Occupied(round') = Occupied(round)
    <2>1. /\ work[p].kind \in {"briefComplete", "lock", "unlock"}
          /\ work[p].pc \in Writing /\ roundLease = p
          /\ round' = work[p].round
      BY <1>2 DEF IInv, WritesNewRound, GatesPassed, GatePassed, Writing, Kinds
    <2>2. work[p].kind = "unlock" => round'.status = "Confirmed"
      BY <2>1 DEF IInv, GatesPassed, GatePassed
    <2> QED
      BY <2>1, <2>2 DEF IInv, RoundFence, Briefed
  <1>3. ASSUME UNCHANGED round
        PROVE  /\ round.status = "Complete" => round'.status = "Complete"
               /\ round.status \in Briefed /\ round'.status \in Briefed =>
                    Occupied(round') = Occupied(round)
    BY <1>3
  <1>4. SignSteps => UNCHANGED round
    BY DEF SignSteps, SignCheck, SignBuild, SignWrite
  <1>5. ASSUME NEW p \in Requests,
               \/ \E w : Leaves(p, w)
               \/ AcquireRoundLease(p) \/ ReadRoundAndBrief(p)
               \/ WriteBrief(p) \/ LeaseLapses(p)
        PROVE  UNCHANGED round
    BY <1>5 DEF Leaves, AcquireRoundLease, ReadRoundAndBrief, WriteBrief, LeaseLapses
  <1> QED
    BY <1>1, <1>2, <1>3, <1>4, <1>5, NextCases

LEMMA BriefHistory ==
  ASSUME IInv, Next
  PROVE  brief' = brief \/ SafeBrief(brief')
  <1>1. ASSUME NEW r, WritesRound(r)
        PROVE  UNCHANGED brief
    BY <1>1 DEF WritesRound
  <1>2. SignSteps => UNCHANGED brief
    BY DEF SignSteps, SignCheck, SignBuild, SignWrite
  <1>3. ASSUME NEW p \in Requests, \E w : Leaves(p, w)
        PROVE  brief' = brief \/ SafeBrief(brief')
    BY <1>3 DEF Leaves
  <1>4. ASSUME NEW p \in Requests,
               AcquireRoundLease(p) \/ ReadRoundAndBrief(p) \/ LeaseLapses(p)
        PROVE  UNCHANGED brief
    BY <1>4 DEF AcquireRoundLease, ReadRoundAndBrief, LeaseLapses
  <1>5. ASSUME NEW p \in Requests, WriteBrief(p)
        PROVE  SafeBrief(brief')
    BY <1>5, BriefToWriteSafe DEF WriteBrief
  <1>6. ASSUME NEW p \in Requests, WritesNewRound(p)
        PROVE  brief' = brief \/ SafeBrief(brief')
    BY <1>6, RestoredBrief DEF WritesNewRound, RestoreBrief
  <1> QED
    BY <1>1, <1>2, <1>3, <1>4, <1>5, <1>6, NextCases

(* No late unlock takes a round out of Complete. *)
THEOREM CompletionIsFinal == Spec => CompleteIsFinal
  <1>1. IInv /\ [Next]_vars =>
          [round.status = "Complete" => round'.status = "Complete"]_vars
    BY RoundHistory
  <1> QED
    BY <1>1, Invariance, PTL DEF Spec, CompleteIsFinal

(* Nobody joins or leaves a roster that pilots are signing or flying. *)
THEOREM FrozenRosterIsFixed == Spec => RosterFixedWhileFrozen
  <1>1. IInv /\ [Next]_vars =>
          [round.status \in Briefed /\ round'.status \in Briefed
             => Occupied(round') = Occupied(round)]_vars
    BY RoundHistory
  <1> QED
    BY <1>1, Invariance, PTL DEF Spec, RosterFixedWhileFrozen

(* The rollback of a failed lock or unlock never undoes a brief-complete. *)
THEOREM BriefHistoryIsLinear == Spec => BriefHistoryLinear
  <1>1. ASSUME IInv, Next
        PROVE  \/ brief'.version > brief.version
               \/ /\ brief'.version = brief.version
                  /\ brief.hash \in {NoHash, brief'.hash}
    BY BriefHistory, <1>1 DEF SafeBrief
  <1>2. IInv /\ [Next]_vars =>
          [\/ brief'.version > brief.version
           \/ /\ brief'.version = brief.version
              /\ brief.hash \in {NoHash, brief'.hash}]_vars
    BY <1>1
  <1> QED
    BY <1>2, Invariance, PTL DEF Spec, BriefHistoryLinear

-----------------------------------------------------------------------------
(* The roster.  What a round shows of its pilots is the case: theorems     *)
(* about the seats, their flags and snapshots, on top of IInv.             *)
(* The inductive invariant. *)

(* No pilot fills two records of r. *)
SeatedOnce(r) ==
  \A pl, q \in Places : \A i \in DOMAIN r.seats[pl], j \in DOMAIN r.seats[q] :
    /\ r.seats[pl][i].pilot = r.seats[q][j].pilot
    /\ r.seats[pl][i].pilot # NoPilot
    => pl = q /\ i = j

(* A record of place pl in a round with this status, next to the ledger L   *)
(* and a brief of version v.  Its flag was earned, if with an older version; *)
(* from brief-complete on with this one.                                    *)
SlotHolds(status, pl, seat, L, v) ==
  /\ seat.signToFly => seat.pilot # NoPilot /\ SignaturesFor(L, <<pl, seat.pilot>>) # {}
  /\ status \in Briefed =>
       /\ seat.signToFly => \E s \in SignaturesFor(L, <<pl, seat.pilot>>) : s.version = v
       /\ seat.pilot # NoPilot => seat.snapshot
  /\ status \in {"Locked", "Complete"} => (seat.pilot # NoPilot => seat.signToFly)
  /\ status = "Complete" => (seat.pilot # NoPilot => seat.accountedFor)

RosterHolds(r, L, v) ==
  /\ SeatedOnce(r)
  /\ \A pl \in Places : \A i \in DOMAIN r.seats[pl] :
       SlotHolds(r.status, pl, r.seats[pl][i], L, v)

(* It holds of the round, and of the one each request is about to write      *)
(* next to the brief it is about to write.                                  *)
RosterInv ==
  /\ RosterHolds(round, ledger, brief.version)
  /\ \A p \in Requests : work[p].pc \in Writing =>
       RosterHolds(work[p].round, ledger, BriefToWrite(p).version)

-----------------------------------------------------------------------------
(* What the operators do to each record. *)

LEMMA SeatsType ==
  ASSUME NEW r \in Rounds, NEW pl \in Places
  PROVE  /\ r.seats[pl] \in Seq(Seats)
         /\ DOMAIN r.seats[pl] = 1 .. Len(r.seats[pl])
         /\ \A i \in DOMAIN r.seats[pl] : r.seats[pl][i] \in Seats
  <1>1. r.seats[pl] \in Seq(Seats)
    BY DEF Rounds
  <1> QED
    BY <1>1

(* r and q have the same records, but for flags, snapshots and accounting. *)
SamePilotsIn(r, q) ==
  \A pl \in Places : /\ DOMAIN q.seats[pl] = DOMAIN r.seats[pl]
                     /\ \A i \in DOMAIN r.seats[pl] : q.seats[pl][i].pilot = r.seats[pl][i].pilot

LEMMA SamePilotsOnce ==
  ASSUME NEW r, NEW q, SamePilotsIn(r, q), SeatedOnce(r)
  PROVE  SeatedOnce(q)
  BY DEF SamePilotsIn, SeatedOnce

LEMMA ApplyToSeats ==
  ASSUME NEW r \in Rounds, NEW L, NEW v
  PROVE  LET q == ApplyTo(r, L, v)
         IN  /\ SamePilotsIn(r, q) /\ q.status = r.status
             /\ \A pl \in Places : \A i \in DOMAIN r.seats[pl] :
                  /\ q.seats[pl][i].snapshot = r.seats[pl][i].snapshot
                  /\ q.seats[pl][i].accountedFor = r.seats[pl][i].accountedFor
                  /\ q.seats[pl][i].signToFly <=>
                       /\ r.seats[pl][i].pilot # NoPilot
                       /\ IsSigned(L, <<pl, r.seats[pl][i].pilot>>, v)
  <1> DEFINE q == ApplyTo(r, L, v)
             S(pl, seat) == [seat EXCEPT !.signToFly =
                               seat.pilot # NoPilot /\ IsSigned(L, <<pl, seat.pilot>>, v)]
  <1>1. q = [r EXCEPT !.seats = [pl \in Places |->
               [i \in 1 .. Len(r.seats[pl]) |-> S(pl, r.seats[pl][i])]]]
    BY DEF ApplyTo, EditSeats
  <1>2. \A pl \in Places, seat \in Seats :
          /\ S(pl, seat).pilot = seat.pilot /\ S(pl, seat).snapshot = seat.snapshot
          /\ S(pl, seat).accountedFor = seat.accountedFor
          /\ S(pl, seat).signToFly <=> /\ seat.pilot # NoPilot
                                       /\ IsSigned(L, <<pl, seat.pilot>>, v)
    BY DEF Seats
  <1> HIDE DEF q, S
  <1>3. /\ q.status = r.status
        /\ \A pl \in Places : q.seats[pl] = [i \in 1 .. Len(r.seats[pl]) |-> S(pl, r.seats[pl][i])]
    BY <1>1 DEF Rounds
  <1>4. \A pl \in Places :
          /\ DOMAIN q.seats[pl] = DOMAIN r.seats[pl]
          /\ \A i \in DOMAIN r.seats[pl] : /\ r.seats[pl][i] \in Seats
                                          /\ q.seats[pl][i] = S(pl, r.seats[pl][i])
    <2> SUFFICES ASSUME NEW pl \in Places
                 PROVE  /\ DOMAIN q.seats[pl] = DOMAIN r.seats[pl]
                        /\ \A i \in DOMAIN r.seats[pl] : /\ r.seats[pl][i] \in Seats
                                                        /\ q.seats[pl][i] = S(pl, r.seats[pl][i])
      OBVIOUS
    <2> QED
      BY <1>3, SeatsType
  <1>5. SamePilotsIn(r, q)
    <2>1. ASSUME NEW pl \in Places, NEW i \in DOMAIN r.seats[pl]
          PROVE  q.seats[pl][i].pilot = r.seats[pl][i].pilot
      <3> DEFINE seat == r.seats[pl][i]
      <3>1. seat \in Seats /\ q.seats[pl][i] = S(pl, seat)
        BY <1>4
      <3> HIDE DEF seat
      <3> QED
        BY <1>2, <3>1 DEF seat
    <2> QED
      BY <1>4, <2>1 DEF SamePilotsIn
  <1>6. ASSUME NEW pl \in Places, NEW i \in DOMAIN r.seats[pl]
        PROVE  /\ q.seats[pl][i].snapshot = r.seats[pl][i].snapshot
               /\ q.seats[pl][i].accountedFor = r.seats[pl][i].accountedFor
               /\ q.seats[pl][i].signToFly <=>
                    /\ r.seats[pl][i].pilot # NoPilot
                    /\ IsSigned(L, <<pl, r.seats[pl][i].pilot>>, v)
    <2> DEFINE seat == r.seats[pl][i]
    <2>1. seat \in Seats /\ q.seats[pl][i] = S(pl, seat)
      BY <1>4
    <2> HIDE DEF seat
    <2> QED
      BY <1>2, <2>1 DEF seat
  <1> QED
    BY <1>3, <1>5, <1>6 DEF q

LEMMA DemoteSupersededSeats ==
  ASSUME NEW r \in Rounds, NEW L, NEW v
  PROVE  LET q == DemoteSuperseded(r, L, v)
         IN  /\ SamePilotsIn(r, q)
             /\ \A pl \in Places : \A i \in DOMAIN r.seats[pl] :
                  /\ q.seats[pl][i].snapshot = r.seats[pl][i].snapshot
                  /\ q.seats[pl][i].signToFly <=>
                       /\ r.seats[pl][i].signToFly
                       /\ ~(/\ r.seats[pl][i].pilot # NoPilot
                            /\ IsSuperseded(L, <<pl, r.seats[pl][i].pilot>>, v))
  <1> DEFINE q == DemoteSuperseded(r, L, v)
             S(pl, seat) == [seat EXCEPT !.signToFly =
                @ /\ ~(seat.pilot # NoPilot /\ IsSuperseded(L, <<pl, seat.pilot>>, v))]
  <1>1. q = [r EXCEPT !.seats = [pl \in Places |->
               [i \in 1 .. Len(r.seats[pl]) |-> S(pl, r.seats[pl][i])]]]
    BY DEF DemoteSuperseded, EditSeats
  <1>2. \A pl \in Places, seat \in Seats :
          /\ S(pl, seat).pilot = seat.pilot /\ S(pl, seat).snapshot = seat.snapshot
          /\ S(pl, seat).signToFly <=>
               /\ seat.signToFly
               /\ ~(seat.pilot # NoPilot /\ IsSuperseded(L, <<pl, seat.pilot>>, v))
    BY DEF Seats
  <1> HIDE DEF q, S
  <1>3. \A pl \in Places : q.seats[pl] = [i \in 1 .. Len(r.seats[pl]) |-> S(pl, r.seats[pl][i])]
    BY <1>1 DEF Rounds
  <1>4. \A pl \in Places :
          /\ DOMAIN q.seats[pl] = DOMAIN r.seats[pl]
          /\ \A i \in DOMAIN r.seats[pl] : /\ r.seats[pl][i] \in Seats
                                          /\ q.seats[pl][i] = S(pl, r.seats[pl][i])
    <2> SUFFICES ASSUME NEW pl \in Places
                 PROVE  /\ DOMAIN q.seats[pl] = DOMAIN r.seats[pl]
                        /\ \A i \in DOMAIN r.seats[pl] : /\ r.seats[pl][i] \in Seats
                                                        /\ q.seats[pl][i] = S(pl, r.seats[pl][i])
      OBVIOUS
    <2> QED
      BY <1>3, SeatsType
  <1>5. SamePilotsIn(r, q)
    <2>1. ASSUME NEW pl \in Places, NEW i \in DOMAIN r.seats[pl]
          PROVE  q.seats[pl][i].pilot = r.seats[pl][i].pilot
      <3> DEFINE seat == r.seats[pl][i]
      <3>1. seat \in Seats /\ q.seats[pl][i] = S(pl, seat)
        BY <1>4
      <3> HIDE DEF seat
      <3> QED
        BY <1>2, <3>1 DEF seat
    <2> QED
      BY <1>4, <2>1 DEF SamePilotsIn
  <1>6. ASSUME NEW pl \in Places, NEW i \in DOMAIN r.seats[pl]
        PROVE  /\ q.seats[pl][i].snapshot = r.seats[pl][i].snapshot
               /\ q.seats[pl][i].signToFly <=>
                    /\ r.seats[pl][i].signToFly
                    /\ ~(/\ r.seats[pl][i].pilot # NoPilot
                         /\ IsSuperseded(L, <<pl, r.seats[pl][i].pilot>>, v))
    <2> DEFINE seat == r.seats[pl][i]
    <2>1. seat \in Seats /\ q.seats[pl][i] = S(pl, seat)
      BY <1>4
    <2> HIDE DEF seat
    <2> QED
      BY <1>2, <2>1 DEF seat
  <1> QED
    BY <1>5, <1>6 DEF q

LEMMA ApplyLockToRoundSeats ==
  ASSUME NEW r \in Rounds, NEW loaded
  PROVE  LET q == ApplyLockToRound(r, loaded)
         IN  /\ SamePilotsIn(r, q)
             /\ \A pl \in Places : \A i \in DOMAIN r.seats[pl] :
                  /\ r.seats[pl][i].snapshot => q.seats[pl][i].snapshot
                  /\ q.seats[pl][i].signToFly <=> r.seats[pl][i].signToFly
  <1> DEFINE q == ApplyLockToRound(r, loaded)
             S(seat) == [seat EXCEPT !.snapshot = @ \/ seat.pilot \in loaded,
                                     !.accountedFor = FALSE]
             seats == [pl \in Places |-> [i \in 1 .. Len(r.seats[pl]) |-> S(r.seats[pl][i])]]
  <1>1. q = [r EXCEPT !.seats = seats, !.status = "Locked", !.groupsBusy = TRUE]
    BY DEF ApplyLockToRound, EditSeats
  <1>2. \A seat \in Seats : /\ S(seat).pilot = seat.pilot
                            /\ seat.snapshot => S(seat).snapshot
                            /\ S(seat).signToFly = seat.signToFly
    BY DEF Seats
  <1>3. \A pl \in Places : seats[pl] = [i \in 1 .. Len(r.seats[pl]) |-> S(r.seats[pl][i])]
    OBVIOUS
  <1> HIDE DEF q, S, seats
  <1>4. q.seats = seats
    BY <1>1 DEF Rounds
  <1>5. \A pl \in Places :
          /\ DOMAIN q.seats[pl] = DOMAIN r.seats[pl]
          /\ \A i \in DOMAIN r.seats[pl] : /\ r.seats[pl][i] \in Seats
                                          /\ q.seats[pl][i] = S(r.seats[pl][i])
    <2> SUFFICES ASSUME NEW pl \in Places
                 PROVE  /\ DOMAIN q.seats[pl] = DOMAIN r.seats[pl]
                        /\ \A i \in DOMAIN r.seats[pl] : /\ r.seats[pl][i] \in Seats
                                                        /\ q.seats[pl][i] = S(r.seats[pl][i])
      OBVIOUS
    <2> QED
      BY <1>3, <1>4, SeatsType
  <1> QED
    BY <1>2, <1>5 DEF SamePilotsIn, q

LEMMA UnlockRoundSeats ==
  ASSUME NEW r \in Rounds
  PROVE  LET q == UnlockRound(r)
         IN  /\ SamePilotsIn(r, q)
             /\ \A pl \in Places : \A i \in DOMAIN r.seats[pl] :
                  q.seats[pl][i].signToFly <=> r.seats[pl][i].signToFly
  <1> DEFINE q == UnlockRound(r)
             S(seat) == [seat EXCEPT !.snapshot = FALSE]
             seats == [pl \in Places |-> [i \in 1 .. Len(r.seats[pl]) |-> S(r.seats[pl][i])]]
  <1>1. q = [r EXCEPT !.seats = seats, !.status = "Confirmed", !.groupsBusy = FALSE]
    BY DEF UnlockRound, EditSeats
  <1>2. \A seat \in Seats : S(seat).pilot = seat.pilot /\ S(seat).signToFly = seat.signToFly
    BY DEF Seats
  <1>3. \A pl \in Places : seats[pl] = [i \in 1 .. Len(r.seats[pl]) |-> S(r.seats[pl][i])]
    OBVIOUS
  <1> HIDE DEF q, S, seats
  <1>4. q.seats = seats
    BY <1>1 DEF Rounds
  <1>5. \A pl \in Places :
          /\ DOMAIN q.seats[pl] = DOMAIN r.seats[pl]
          /\ \A i \in DOMAIN r.seats[pl] : /\ r.seats[pl][i] \in Seats
                                          /\ q.seats[pl][i] = S(r.seats[pl][i])
    <2> SUFFICES ASSUME NEW pl \in Places
                 PROVE  /\ DOMAIN q.seats[pl] = DOMAIN r.seats[pl]
                        /\ \A i \in DOMAIN r.seats[pl] : /\ r.seats[pl][i] \in Seats
                                                        /\ q.seats[pl][i] = S(r.seats[pl][i])
      OBVIOUS
    <2> QED
      BY <1>3, <1>4, SeatsType
  <1> QED
    BY <1>2, <1>5 DEF SamePilotsIn, q

-----------------------------------------------------------------------------
(* Rosters that hold. *)

LEMMA LedgerGrows ==
  ASSUME NEW L, NEW M, L \subseteq M, NEW r, NEW v, RosterHolds(r, L, v)
  PROVE  RosterHolds(r, M, v)
  <1>1. \A o : SignaturesFor(L, o) \subseteq SignaturesFor(M, o)
    BY DEF SignaturesFor
  <1>2. ASSUME NEW pl \in Places, NEW i \in DOMAIN r.seats[pl]
        PROVE  SlotHolds(r.status, pl, r.seats[pl][i], M, v)
    BY <1>1 DEF RosterHolds, SlotHolds
  <1> QED
    BY <1>2 DEF RosterHolds

(* Before the brief is complete its version does not matter. *)
LEMMA OpenHolds ==
  ASSUME NEW r, NEW L, NEW v, NEW w, RosterHolds(r, L, v), r.status \notin Briefed
  PROVE  RosterHolds(r, L, w)
  BY DEF RosterHolds, SlotHolds, Briefed

LEMMA NewlyCreatedHolds ==
  ASSUME NEW L, NEW v
  PROVE  RosterHolds(NewlyCreated, L, v)
  <1>1. \A pl \in Places : DOMAIN NewlyCreated.seats[pl] = {}
    BY DEF NewlyCreated
  <1> QED
    BY <1>1 DEF RosterHolds, SeatedOnce

(* The same records under another status. *)
LEMMA SameRecords ==
  ASSUME NEW r, NEW q, NEW L, NEW v, RosterHolds(r, L, v), q.seats = r.seats,
         q.status = r.status \/ q.status \notin Briefed
  PROVE  RosterHolds(q, L, v)
  BY DEF RosterHolds, SeatedOnce, SlotHolds, Briefed

LEMMA NotSeated ==
  ASSUME NEW r \in Rounds, NEW pilot \in Pilots, ~IsPilotInRound(r, pilot)
  PROVE  \A pl \in Places : \A i \in DOMAIN r.seats[pl] : r.seats[pl][i].pilot # pilot
  BY DEF IsPilotInRound, Occupied, Seated, Occupancies

LEMMA IsSeated ==
  ASSUME NEW r \in Rounds, NEW pl \in Places, NEW i \in DOMAIN r.seats[pl],
         r.seats[pl][i].pilot # NoPilot
  PROVE  <<pl, r.seats[pl][i].pilot>> \in Occupied(r)
  <1>1. r.seats[pl][i].pilot \in Pilots
    BY SeatsType DEF Seats
  <1> QED
    BY <1>1 DEF Occupied, Seated, Occupancies

(* The records of one place change: all but the k-th were there before, one  *)
(* place further down if the first was taken away, and the k-th is new.     *)
LEMMA PlaceHolds ==
  ASSUME NEW r \in Rounds, NEW L, NEW v, RosterHolds(r, L, v), r.status \notin Briefed,
         NEW pl \in Places, NEW s \in Seq(Seats), NEW k \in Nat, NEW d \in {0, 1},
         \A i \in DOMAIN s \ {k} : /\ i + d \in DOMAIN r.seats[pl]
                                   /\ s[i] = r.seats[pl][i + d],
         k \in DOMAIN s => /\ ~s[k].signToFly
                           /\ s[k].pilot # NoPilot => ~IsPilotInRound(r, s[k].pilot)
  PROVE  RosterHolds([r EXCEPT !.seats[pl] = s], L, v)
  <1> DEFINE q == [r EXCEPT !.seats[pl] = s]
  <1>1. /\ q.status = r.status /\ q.seats[pl] = s
        /\ \A o \in Places \ {pl} : q.seats[o] = r.seats[o]
    BY DEF Rounds
  <1> HIDE DEF q
  <1>2. /\ \A o \in Places : \A i \in DOMAIN q.seats[o] : q.seats[o][i] \in Seats
        /\ DOMAIN s = 1 .. Len(s)
        /\ DOMAIN s \subseteq Int
    BY <1>1, SeatsType
  <1>3. k \in DOMAIN s /\ s[k].pilot # NoPilot =>
          \A o \in Places : \A i \in DOMAIN r.seats[o] : r.seats[o][i].pilot # s[k].pilot
    BY <1>1, <1>2, NotSeated DEF Seats
  <1>4. SeatedOnce(q)
    <2> SUFFICES ASSUME NEW o \in Places, NEW u \in Places,
                        NEW i \in DOMAIN q.seats[o], NEW j \in DOMAIN q.seats[u],
                        q.seats[o][i].pilot = q.seats[u][j].pilot,
                        q.seats[o][i].pilot # NoPilot
                 PROVE  o = u /\ i = j
      BY DEF SeatedOnce
    <2> DEFINE at(x, n) == IF x = pl THEN n + d ELSE n
    <2>1. ASSUME NEW x \in Places, NEW n \in DOMAIN q.seats[x], ~(x = pl /\ n = k)
          PROVE  at(x, n) \in DOMAIN r.seats[x] /\ r.seats[x][at(x, n)] = q.seats[x][n]
      BY <1>1, <2>1
    <2>2. CASE ~(o = pl /\ i = k) /\ ~(u = pl /\ j = k)
      <3>1. o = u /\ at(o, i) = at(u, j)
        <4> HIDE DEF at
        <4> QED
          BY <2>1, <2>2 DEF RosterHolds, SeatedOnce
      <3>2. CASE o = pl
        BY <1>1, <1>2, <3>1, <3>2
      <3>3. CASE o # pl
        BY <3>1, <3>3
      <3> QED
        BY <3>2, <3>3
    <2> HIDE DEF at
    <2>3. CASE o = pl /\ i = k /\ ~(u = pl /\ j = k)
      BY <1>1, <1>3, <2>1, <2>3
    <2>4. CASE ~(o = pl /\ i = k) /\ u = pl /\ j = k
      BY <1>1, <1>3, <2>1, <2>4
    <2> QED
      BY <2>2, <2>3, <2>4
  <1>5. ASSUME NEW o \in Places, NEW i \in DOMAIN q.seats[o]
        PROVE  SlotHolds(q.status, o, q.seats[o][i], L, v)
    <2>1. CASE o = pl /\ i = k
      BY <1>1, <2>1 DEF SlotHolds, Briefed
    <2>2. CASE o = pl /\ i # k
      BY <1>1, <2>2 DEF RosterHolds
    <2>3. CASE o # pl
      BY <1>1, <2>3 DEF RosterHolds
    <2> QED
      BY <2>1, <2>2, <2>3
  <1> QED
    BY <1>4, <1>5 DEF RosterHolds, q

-----------------------------------------------------------------------------
(* Requests on the round blob alone. *)

LEMMA OpenIsNotBriefed ==
  ASSUME ~IsRosterFrozen(round.status)
  PROVE  round.status \notin Briefed
  BY DEF IsRosterFrozen, Briefed

LEMMA RoundStepsHold ==
  ASSUME TypeOK, RosterHolds(round, ledger, brief.version), RoundSteps
  PROVE  RosterHolds(round', ledger, brief.version)
  <1> DEFINE Holds(r) == RosterHolds(r, ledger, brief.version)
  <1>0. round \in Rounds
    BY DEF TypeOK
  <1>1. ASSUME NEW to \in Statuses \ Briefed, NEW from, Transition(from, to)
        PROVE  Holds(round')
    <2>1. round' = [round EXCEPT !.status = to]
      BY <1>1 DEF Transition, WritesRound
    <2>2. round'.seats = round.seats /\ round'.status = to
      BY <1>0, <2>1 DEF Rounds
    <2> QED
      BY <2>2, SameRecords
  <1>2. CASE Confirm \/ Reopen \/ Cancel \/ Uncancel
    BY <1>1, <1>2 DEF Confirm, Reopen, Cancel, Uncancel, Statuses, Briefed
  <1>3. CASE Complete
    <2>1. /\ round.status = "Locked" /\ EverySlotAccountedFor(round)
          /\ round' = [round EXCEPT !.status = "Complete"]
      BY <1>3 DEF Complete, Transition, WritesRound
    <2>2. round'.seats = round.seats /\ round'.status = "Complete"
      BY <1>0, <2>1 DEF Rounds
    <2>3. ASSUME NEW pl \in Places, NEW i \in DOMAIN round.seats[pl],
                 round.seats[pl][i].pilot # NoPilot
          PROVE  round.seats[pl][i].accountedFor
      <3>1. <<pl, round.seats[pl][i].pilot>> \in Occupied(round)
        BY <1>0, <2>3, IsSeated
      <3>2. PICK j \in DOMAIN round.seats[pl] : /\ round.seats[pl][j].pilot = round.seats[pl][i].pilot
                                               /\ round.seats[pl][j].accountedFor
        BY <2>1, <3>1 DEF EverySlotAccountedFor, Seated
      <3> QED
        BY <2>3, <3>2 DEF RosterHolds, SeatedOnce
    <2>4. ASSUME NEW pl \in Places, NEW i \in DOMAIN round.seats[pl]
          PROVE  SlotHolds("Complete", pl, round.seats[pl][i], ledger, brief.version)
      BY <2>1, <2>3 DEF RosterHolds, SlotHolds, Briefed
    <2> QED
      BY <2>2, <2>4 DEF RosterHolds, SeatedOnce
  <1>4. ASSUME NEW t \in Teams, AddTeam(t)
        PROVE  Holds(round')
    <2>1. round' = [round EXCEPT !.team[t] = "entered"]
      BY <1>4 DEF AddTeam, WritesRound
    <2>2. round'.seats = round.seats /\ round'.status = round.status
      BY <1>0, <2>1 DEF Rounds
    <2> QED
      BY <2>2, SameRecords
  <1>5. ASSUME NEW t \in Teams, RemoveTeam(t)
        PROVE  Holds(round')
    <2> DEFINE seats == [pl \in Places |-> IF pl[1] = t THEN <<>> ELSE round.seats[pl]]
    <2>1. /\ round.status \notin Briefed
          /\ round' = [round EXCEPT !.team[t] = "removed", !.seats = seats]
      BY <1>5, OpenIsNotBriefed DEF RemoveTeam, WritesRound
    <2>2. \A pl \in Places : \A i \in DOMAIN seats[pl] :
            i \in DOMAIN round.seats[pl] /\ seats[pl][i] = round.seats[pl][i]
      OBVIOUS
    <2> HIDE DEF seats
    <2>3. round'.seats = seats /\ round'.status = round.status
      BY <1>0, <2>1 DEF Rounds
    <2>4. SeatedOnce(round')
      BY <2>2, <2>3 DEF RosterHolds, SeatedOnce
    <2>5. \A pl \in Places : \A i \in DOMAIN seats[pl] :
            SlotHolds(round.status, pl, seats[pl][i], ledger, brief.version)
      BY <2>2 DEF RosterHolds
    <2> QED
      BY <2>3, <2>4, <2>5 DEF RosterHolds
  <1>6. ASSUME NEW pilot \in Pilots, NEW pl \in Places, AddPilot(pilot, pl)
        PROVE  Holds(round')
    <2> DEFINE old == round.seats[pl]
               s == Append(old, NewSeat(pilot, FALSE))
    <2>1. /\ round.status \notin Briefed /\ ~IsPilotInRound(round, pilot)
          /\ round' = [round EXCEPT !.seats[pl] = s]
      BY <1>6, OpenIsNotBriefed DEF AddPilot, WritesRound
    <2>2. old \in Seq(Seats) /\ NewSeat(pilot, FALSE) \in Seats
      BY <1>0, SeatsType, NewSeatType
    <2>3. /\ s \in Seq(Seats) /\ Len(old) + 1 \in Nat
          /\ DOMAIN old = 1 .. Len(old) /\ DOMAIN s = 1 .. Len(old) + 1
          /\ \A i \in DOMAIN s \ {Len(old) + 1} : s[i] = old[i]
          /\ s[Len(old) + 1] = NewSeat(pilot, FALSE)
      <3> DEFINE seat == NewSeat(pilot, FALSE)
      <3>1. old \in Seq(Seats) /\ seat \in Seats
        BY <2>2
      <3> HIDE DEF old, seat
      <3>2. Len(old) \in Nat /\ DOMAIN old = 1 .. Len(old)
        BY <3>1
      <3>3. /\ Append(old, seat) \in Seq(Seats)
            /\ DOMAIN Append(old, seat) = 1 .. Len(old) + 1
            /\ \A i \in 1 .. Len(old) : Append(old, seat)[i] = old[i]
            /\ Append(old, seat)[Len(old) + 1] = seat
        BY <3>1
      <3>4. s = Append(old, seat)
        BY DEF seat
      <3> HIDE DEF s
      <3>5. /\ s \in Seq(Seats) /\ DOMAIN s = 1 .. Len(old) + 1
            /\ \A i \in 1 .. Len(old) : s[i] = old[i]
            /\ s[Len(old) + 1] = seat
        BY <3>3, <3>4
      <3>6. \A i \in (1 .. Len(old) + 1) \ {Len(old) + 1} : i \in 1 .. Len(old)
        BY <3>2
      <3> QED
        BY <3>2, <3>5, <3>6 DEF seat
    <2> HIDE DEF s, old
    <2>4. \A i \in DOMAIN s \ {Len(old) + 1} : i + 0 \in DOMAIN old /\ s[i] = old[i + 0]
      BY <2>2, <2>3
    <2>5. ~s[Len(old) + 1].signToFly /\ s[Len(old) + 1].pilot = pilot
      BY <2>3 DEF NewSeat
    <2> QED
      BY <1>0, <2>1, <2>3, <2>4, <2>5, PlaceHolds DEF old
  <1>7. ASSUME NEW pilot \in Pilots, NEW pl \in Places, RegisterSelf(pilot, pl)
        PROVE  Holds(round')
    <2> DEFINE old == round.seats[pl]
               s == <<NewSeat(pilot, TRUE)>> \o (IF old # <<>> THEN Tail(old) ELSE <<>>)
    <2>1. /\ round.status \notin Briefed /\ ~IsPilotInRound(round, pilot)
          /\ round' = [round EXCEPT !.seats[pl] = s]
      BY <1>7, OpenIsNotBriefed DEF RegisterSelf, WritesRound, HasSlot
    <2>2. old \in Seq(Seats) /\ NewSeat(pilot, TRUE) \in Seats
      BY <1>0, SeatsType, NewSeatType
    <2>3. /\ s \in Seq(Seats) /\ s[1] = NewSeat(pilot, TRUE)
          /\ \A i \in DOMAIN s \ {1} : i + 0 \in DOMAIN old /\ s[i] = old[i + 0]
      <3> DEFINE rest == IF old # <<>> THEN Tail(old) ELSE <<>>
      <3>1. /\ rest \in Seq(Seats)
            /\ \A i \in 1 .. Len(rest) : i + 1 \in 1 .. Len(old) /\ rest[i] = old[i + 1]
        BY <2>2
      <3> HIDE DEF rest
      <3>2. s = <<NewSeat(pilot, TRUE)>> \o rest
        BY DEF rest
      <3> HIDE DEF s
      <3>3. /\ s \in Seq(Seats) /\ Len(s) = Len(rest) + 1 /\ s[1] = NewSeat(pilot, TRUE)
            /\ \A i \in 2 .. Len(s) : s[i] = rest[i - 1]
        <4> DEFINE seat == NewSeat(pilot, TRUE)
        <4>1. seat \in Seats /\ s = <<seat>> \o rest /\ rest \in Seq(Seats)
          BY <2>2, <3>1, <3>2
        <4> HIDE DEF seat
        <4>2. s \in Seq(Seats) /\ Len(s) = 1 + Len(rest) /\ s[1] = seat
              /\ \A i \in 1 .. Len(rest) : s[1 + i] = rest[i]
          BY <4>1
        <4> QED
          BY <3>1, <4>2 DEF seat
      <3>4. ASSUME NEW i \in DOMAIN s \ {1}
            PROVE  i + 0 \in DOMAIN old /\ s[i] = old[i + 0]
        <4>1. i \in 2 .. Len(s) /\ i - 1 \in 1 .. Len(rest)
          BY <3>1, <3>3
        <4>2. (i - 1) + 1 = i /\ i + 0 = i
          BY <4>1
        <4> QED
          BY <2>2, <3>1, <3>3, <4>1, <4>2
      <3> QED
        BY <3>3, <3>4
    <2> HIDE DEF s, old
    <2>4. ~s[1].signToFly /\ s[1].pilot = pilot
      BY <2>3 DEF NewSeat
    <2> QED
      BY <1>0, <2>1, <2>3, <2>4, PlaceHolds DEF old
  <1>8. ASSUME NEW pl \in Places, RemovePilot(pl)
        PROVE  Holds(round')
    <2> DEFINE old == round.seats[pl]
               s == Tail(old)
    <2>1. /\ round.status \notin Briefed /\ old # <<>>
          /\ round' = [round EXCEPT !.seats[pl] = s]
      BY <1>8, OpenIsNotBriefed DEF RemovePilot, WritesRound, HasSlot
    <2>2. old \in Seq(Seats)
      BY <1>0, SeatsType
    <2>3. /\ s \in Seq(Seats) /\ 0 \notin DOMAIN s
          /\ \A i \in DOMAIN s \ {0} : i + 1 \in DOMAIN old /\ s[i] = old[i + 1]
      BY <2>1, <2>2
    <2> HIDE DEF s, old
    <2> QED
      BY <1>0, <2>1, <2>3, PlaceHolds DEF old
  <1>9. ASSUME NEW o \in Occupancies, UnregisterSelf(o)
        PROVE  Holds(round')
    <2>1. PICK pl \in Places : pl = o[1]
      BY DEF Occupancies
    <2> DEFINE old == round.seats[pl]
    <2>2. PICK k \in DOMAIN old :
            /\ round.status \notin Briefed
            /\ round' = [round EXCEPT !.seats[pl][k] = NewSeat(NoPilot, FALSE)]
      BY <1>9, <2>1, OpenIsNotBriefed DEF UnregisterSelf, WritesRound
    <2> DEFINE s == [old EXCEPT ![k] = NewSeat(NoPilot, FALSE)]
    <2>3. old \in Seq(Seats) /\ NewSeat(NoPilot, FALSE) \in Seats
      BY <1>0, <2>1, SeatsType, NewSeatType
    <2>4. /\ s \in Seq(Seats) /\ s[k] = NewSeat(NoPilot, FALSE) /\ k \in Nat
          /\ \A i \in DOMAIN s \ {k} : i + 0 \in DOMAIN old /\ s[i] = old[i + 0]
      <3> DEFINE seat == NewSeat(NoPilot, FALSE)
      <3>1. k \in DOMAIN old
        OBVIOUS
      <3> HIDE DEF old, seat
      <3>2. s \in Seq(Seats)
        BY <2>3, <3>1, SeatPut DEF seat
      <3>3. DOMAIN s = DOMAIN old /\ s[k] = seat /\ \A i \in DOMAIN old \ {k} : s[i] = old[i]
        BY <3>1 DEF seat
      <3>4. \A i \in DOMAIN old : i \in Nat /\ i + 0 = i
        BY <2>3
      <3> QED
        BY <3>1, <3>2, <3>3, <3>4 DEF seat
    <2>5. round' = [round EXCEPT !.seats[pl] = s]
      BY <2>2
    <2> HIDE DEF s, old
    <2>6. ~s[k].signToFly /\ s[k].pilot = NoPilot
      BY <2>4 DEF NewSeat
    <2>7. \A i \in DOMAIN s \ {k} : i + 0 \in DOMAIN round.seats[pl] /\ s[i] = round.seats[pl][i + 0]
      BY <2>4 DEF old
    <2>8. round.status \notin Briefed /\ s \in Seq(Seats) /\ k \in Nat
      BY <2>2, <2>4
    <2> HIDE <2>2, <2>3, <2>4
    <2> QED
      BY <1>0, <2>5, <2>6, <2>7, <2>8, PlaceHolds
  <1>10. ASSUME NEW pl \in Places, NEW value \in BOOLEAN, UpdateAccounted(pl, value)
         PROVE  Holds(round')
    <2> DEFINE old == round.seats[pl]
               s == [old EXCEPT ![1].accountedFor = value]
    <2>1. /\ round.status = "Locked" /\ old # <<>>
          /\ round' = [round EXCEPT !.seats[pl] = s]
      BY <1>10 DEF UpdateAccounted, WritesRound, HasSlot
    <2>2. old \in Seq(Seats) /\ \A i \in DOMAIN old : old[i] \in Seats
      BY <1>0, SeatsType
    <2>3. /\ DOMAIN s = DOMAIN old
          /\ \A i \in DOMAIN s : /\ s[i].pilot = old[i].pilot
                                  /\ s[i].snapshot = old[i].snapshot
                                  /\ s[i].signToFly = old[i].signToFly
      BY <2>1, <2>2 DEF Seats
    <2> HIDE DEF s, old
    <2>4. /\ round'.status = round.status /\ round'.seats[pl] = s
          /\ \A q \in Places \ {pl} : round'.seats[q] = round.seats[q]
      BY <1>0, <2>1 DEF Rounds
    <2>5. SamePilotsIn(round, round')
      BY <2>3, <2>4 DEF SamePilotsIn, old
    <2>6. ASSUME NEW q \in Places, NEW i \in DOMAIN round'.seats[q]
          PROVE  SlotHolds(round'.status, q, round'.seats[q][i], ledger, brief.version)
      <3>1. CASE q = pl
        BY <2>1, <2>3, <2>4, <3>1 DEF RosterHolds, SlotHolds, old
      <3>2. CASE q # pl
        BY <2>4, <3>2 DEF RosterHolds
      <3> QED
        BY <3>1, <3>2
    <2> QED
      BY <2>5, <2>6, SamePilotsOnce DEF RosterHolds
  <1>11. CASE GroupsDone \/ CreateGroups
    <2>1. \E busy \in BOOLEAN : round' = [round EXCEPT !.groupsBusy = busy]
      BY <1>11 DEF GroupsDone, CreateGroups, WritesRound
    <2>2. round'.seats = round.seats /\ round'.status = round.status
      BY <1>0, <2>1 DEF Rounds
    <2> QED
      BY <2>2, SameRecords
  <1>12. CASE ReflectRoundSignToFly
    <2> DEFINE q == ApplyTo(round, ledger, brief.version)
    <2>1. round.status = "BriefComplete" /\ round' = q
      BY <1>12 DEF ReflectRoundSignToFly, WritesRound
    <2>2. /\ SamePilotsIn(round, q) /\ q.status = round.status
          /\ \A pl \in Places : \A i \in DOMAIN round.seats[pl] :
               /\ q.seats[pl][i].snapshot = round.seats[pl][i].snapshot
               /\ q.seats[pl][i].signToFly =>
                    /\ round.seats[pl][i].pilot # NoPilot
                    /\ IsSigned(ledger, <<pl, round.seats[pl][i].pilot>>, brief.version)
      BY <1>0, ApplyToSeats
    <2> HIDE DEF q
    <2>3. ASSUME NEW pl \in Places, NEW i \in DOMAIN q.seats[pl]
          PROVE  SlotHolds(q.status, pl, q.seats[pl][i], ledger, brief.version)
      <3>1. i \in DOMAIN round.seats[pl] /\ q.seats[pl][i].pilot = round.seats[pl][i].pilot
        BY <2>2 DEF SamePilotsIn
      <3>2. SlotHolds(round.status, pl, round.seats[pl][i], ledger, brief.version)
        BY <3>1 DEF RosterHolds
      <3> QED
        BY <2>1, <2>2, <3>1, <3>2 DEF SlotHolds, IsSigned, Briefed
    <2> QED
      BY <2>1, <2>2, <2>3, SamePilotsOnce DEF RosterHolds
  <1> QED
    BY <1>2, <1>3, <1>4, <1>5, <1>6, <1>7, <1>8, <1>9, <1>10, <1>11, <1>12 DEF RoundSteps

-----------------------------------------------------------------------------
(* What a request that passed its gates is going to write. *)

LEMMA NewRoundHolds ==
  ASSUME IInv, NEW w \in Works, RosterHolds(round, ledger, brief.version),
         Gate(w.kind, round, brief, ledger)
  PROVE  RosterHolds(NewRound(w, round, brief, ledger), ledger,
                     NewBrief(w, round, brief).version)
  <1> DEFINE q == NewRound(w, round, brief, ledger)
             v == NewBrief(w, round, brief).version
  <1>1. round \in Rounds /\ brief \in Briefs /\ ledger \subseteq Signatures
    BY DEF IInv, TypeOK
  <1>2. \A s \in ledger : s.version \in Int /\ s.version <= brief.version
    BY <1>1 DEF IInv, SignaturesFollowBrief, Signatures
  <1>3. /\ v \in Int /\ brief.version \in Int /\ v >= brief.version
        /\ w.kind # "briefComplete" => v = brief.version
    BY <1>1, NewBriefType DEF Briefs
  <1>4. \A pl \in Places : \A i \in DOMAIN round.seats[pl] :
          SlotHolds(round.status, pl, round.seats[pl][i], ledger, brief.version)
    BY DEF RosterHolds
  <1>5. CASE w.kind = "briefComplete"
    <2> DEFINE d == DemoteSuperseded(round, ledger, v)
    <2>1. v = FreezeBrief(brief, round).version
      BY <1>5 DEF NewBrief
    <2> HIDE DEF v
    <2>2. /\ SamePilotsIn(round, d) /\ d \in Rounds
          /\ \A pl \in Places : \A i \in DOMAIN round.seats[pl] :
               /\ d.seats[pl][i].snapshot = round.seats[pl][i].snapshot
               /\ d.seats[pl][i].signToFly =>
                    /\ round.seats[pl][i].signToFly
                    /\ ~(/\ round.seats[pl][i].pilot # NoPilot
                         /\ IsSuperseded(ledger, <<pl, round.seats[pl][i].pilot>>, v))
      BY <1>1, DemoteSupersededSeats, DemoteSupersededType
    <2>3. q = [d EXCEPT !.status = "BriefComplete"]
      BY <1>5, <2>1 DEF NewRound
    <2> HIDE DEF d, q
    <2>4. q.status = "BriefComplete" /\ q.seats = d.seats
      BY <2>2, <2>3 DEF Rounds
    <2>5. ASSUME NEW pl \in Places, NEW i \in DOMAIN round.seats[pl],
                 round.seats[pl][i].pilot # NoPilot
          PROVE  round.seats[pl][i].snapshot
      <3> DEFINE o == <<pl, round.seats[pl][i].pilot>>
      <3>1. o \in Occupied(round)
        BY <1>1, <2>5, IsSeated
      <3>2. PICK b \in BuildBriefTeams(round) : b[2] = o[2]
        BY <1>5, <3>1 DEF Gate, RosterComplete
      <3>3. b[1] \in Places
        BY RosterType DEF Occupancies
      <3>4. PICK j \in DOMAIN round.seats[b[1]] : /\ round.seats[b[1]][j].pilot = b[2]
                                                 /\ round.seats[b[1]][j].snapshot
        BY <3>2 DEF BuildBriefTeams, Seated
      <3> QED
        BY <2>5, <3>2, <3>3, <3>4 DEF RosterHolds, SeatedOnce
    <2>6. ASSUME NEW pl \in Places, NEW i \in DOMAIN q.seats[pl]
          PROVE  SlotHolds(q.status, pl, q.seats[pl][i], ledger, v)
      <3> DEFINE seat == round.seats[pl][i]
                 S == SignaturesFor(ledger, <<pl, seat.pilot>>)
      <3>1. i \in DOMAIN round.seats[pl] /\ q.seats[pl][i].pilot = seat.pilot
        BY <2>2, <2>4 DEF SamePilotsIn
      <3>2. SlotHolds(round.status, pl, seat, ledger, brief.version)
        BY <1>4, <3>1
      <3>3. ASSUME q.seats[pl][i].signToFly
            PROVE  seat.pilot # NoPilot /\ \E s \in S : s.version = v
        <4>1. seat.pilot # NoPilot /\ S # {}
          BY <2>2, <2>4, <3>1, <3>2, <3>3 DEF SlotHolds
        <4>2. ~IsSuperseded(ledger, <<pl, seat.pilot>>, v)
          BY <2>2, <2>4, <3>1, <3>3, <4>1
        <4>3. PICK s \in S : ~(s.version < v)
          BY <4>1, <4>2 DEF IsSuperseded
        <4>4. s \in ledger
          BY DEF SignaturesFor
        <4> QED
          BY <1>2, <1>3, <4>1, <4>3, <4>4
      <3>4. q.seats[pl][i].pilot # NoPilot => q.seats[pl][i].snapshot
        BY <2>2, <2>4, <2>5, <3>1
      <3> QED
        BY <2>4, <3>1, <3>3, <3>4 DEF SlotHolds
    <2>7. SeatedOnce(q)
      <3>1. SamePilotsIn(round, q)
        BY <2>2, <2>4 DEF SamePilotsIn
      <3> QED
        BY <3>1, SamePilotsOnce DEF RosterHolds
    <2> QED
      BY <2>6, <2>7 DEF RosterHolds, q, v
  <1>6. CASE w.kind = "lock"
    <2> DEFINE a == ApplyTo(round, ledger, brief.version)
    <2>1. /\ SamePilotsIn(round, a) /\ a \in Rounds
          /\ \A pl \in Places : \A i \in DOMAIN round.seats[pl] :
               /\ a.seats[pl][i].snapshot = round.seats[pl][i].snapshot
               /\ a.seats[pl][i].signToFly <=>
                    /\ round.seats[pl][i].pilot # NoPilot
                    /\ IsSigned(ledger, <<pl, round.seats[pl][i].pilot>>, brief.version)
      BY <1>1, ApplyToSeats, ApplyToType
    <2>2. q = ApplyLockToRound(a, LockSnapshots(w.candidate))
      BY <1>6 DEF NewRound
    <2> HIDE DEF a, q, v
    <2>3. /\ SamePilotsIn(a, q) /\ q.status = "Locked"
          /\ \A pl \in Places : \A i \in DOMAIN a.seats[pl] :
               /\ a.seats[pl][i].snapshot => q.seats[pl][i].snapshot
               /\ q.seats[pl][i].signToFly <=> a.seats[pl][i].signToFly
      BY <2>1, <2>2, ApplyLockToRoundSeats, ApplyLockToRoundType
    <2>4. /\ round.status = "BriefComplete"
          /\ \A o \in Occupied(round) : IsSigned(ledger, o, brief.version)
      BY <1>6 DEF Gate, UnsignedSlots
    <2>5. ASSUME NEW pl \in Places, NEW i \in DOMAIN q.seats[pl]
          PROVE  SlotHolds(q.status, pl, q.seats[pl][i], ledger, v)
      <3> DEFINE seat == round.seats[pl][i]
      <3>1. /\ i \in DOMAIN round.seats[pl] /\ i \in DOMAIN a.seats[pl]
            /\ q.seats[pl][i].pilot = seat.pilot
        BY <2>1, <2>3 DEF SamePilotsIn
      <3>2. SlotHolds(round.status, pl, seat, ledger, brief.version)
        BY <1>4, <3>1
      <3>3. seat.pilot # NoPilot => IsSigned(ledger, <<pl, seat.pilot>>, brief.version)
        BY <1>1, <2>4, <3>1, IsSeated
      <3>4. q.seats[pl][i].signToFly <=> seat.pilot # NoPilot
        BY <2>1, <2>3, <3>1, <3>3
      <3>5. seat.pilot # NoPilot => q.seats[pl][i].snapshot
        BY <2>1, <2>3, <2>4, <3>1, <3>2 DEF SlotHolds, Briefed
      <3>6. v = brief.version
        BY <1>3, <1>6
      <3> QED
        BY <2>3, <3>1, <3>3, <3>4, <3>5, <3>6 DEF SlotHolds, IsSigned
    <2>6. SeatedOnce(q)
      BY <2>1, <2>3, SamePilotsOnce DEF RosterHolds
    <2> QED
      BY <2>5, <2>6 DEF RosterHolds, q, v
  <1>7. CASE w.kind = "unlock"
    <2>1. q = UnlockRound(round)
      BY <1>7 DEF NewRound
    <2> HIDE DEF q, v
    <2>2. /\ SamePilotsIn(round, q) /\ q.status = "Confirmed"
          /\ \A pl \in Places : \A i \in DOMAIN round.seats[pl] :
               q.seats[pl][i].signToFly <=> round.seats[pl][i].signToFly
      BY <1>1, <2>1, UnlockRoundSeats, UnlockRoundType
    <2>3. ASSUME NEW pl \in Places, NEW i \in DOMAIN q.seats[pl]
          PROVE  SlotHolds(q.status, pl, q.seats[pl][i], ledger, v)
      <3>1. i \in DOMAIN round.seats[pl] /\ q.seats[pl][i].pilot = round.seats[pl][i].pilot
        BY <2>2 DEF SamePilotsIn
      <3> QED
        BY <1>4, <2>2, <3>1 DEF SlotHolds, Briefed
    <2> QED
      BY <2>2, <2>3, SamePilotsOnce DEF RosterHolds, q, v
  <1>8. CASE w.kind \notin {"briefComplete", "lock", "unlock"}
    BY <1>8, NewlyCreatedHolds DEF NewRound
  <1> QED
    BY <1>5, <1>6, <1>7, <1>8

-----------------------------------------------------------------------------
(* The invariant is inductive. *)

(* The steps that write no round: the ledger may grow, and the version of    *)
(* the brief may rise while the brief is not complete.                      *)
LEMMA RoundStays ==
  ASSUME RosterInv, UNCHANGED round, ledger \subseteq ledger',
         round.status \in Briefed => brief'.version = brief.version,
         \A p \in Requests : work'[p].pc \in Writing =>
           \/ /\ work[p].pc \in Writing
              /\ work'[p].round = work[p].round
              /\ BriefToWrite(p)'.version = BriefToWrite(p).version
           \/ RosterHolds(work'[p].round, ledger, BriefToWrite(p)'.version)
  PROVE  RosterInv'
  <1>1. RosterHolds(round, ledger, brief'.version)
    BY OpenHolds DEF RosterInv
  <1>2. RosterHolds(round', ledger', brief'.version)
    BY <1>1, LedgerGrows
  <1>3. ASSUME NEW p \in Requests, work'[p].pc \in Writing
        PROVE  RosterHolds(work'[p].round, ledger', BriefToWrite(p)'.version)
    <2>1. RosterHolds(work'[p].round, ledger, BriefToWrite(p)'.version)
      BY <1>3 DEF RosterInv
    <2> QED
      BY <2>1, LedgerGrows
  <1> QED
    BY <1>2, <1>3 DEF RosterInv

LEMMA RosterNext == IInv /\ RosterInv /\ [Next]_vars => RosterInv'
  <1> SUFFICES ASSUME IInv, RosterInv, [Next]_vars
               PROVE  RosterInv'
    OBVIOUS
  <1>1. CASE RoundSteps
    <2>1. UNCHANGED <<brief, ledger, work>>
      BY <1>1, RoundStepsSafe DEF IInv, WritesRound
    <2>2. RosterHolds(round', ledger, brief.version)
      BY <1>1, RoundStepsHold DEF IInv, RosterInv
    <2> QED
      BY <2>1, <2>2 DEF RosterInv, BriefToWrite
  <1>2. CASE SignSteps
    <2>1. UNCHANGED <<round, brief, work>> /\ ledger \subseteq ledger'
      BY <1>2 DEF SignSteps, SignCheck, SignBuild, SignWrite
    <2>2. \A p \in Requests : BriefToWrite(p)' = BriefToWrite(p)
      BY <2>1 DEF BriefToWrite
    <2> QED
      BY <2>1, <2>2, RoundStays
  <1>3. ASSUME NEW p \in Requests, \E w : Leaves(p, w)
        PROVE  RosterInv'
    <2>1. PICK w : Leaves(p, w)
      BY <1>3
    <2>2. /\ work' = [work EXCEPT ![p] = w] /\ w.pc \notin Writing
          /\ UNCHANGED <<round, ledger>>
          /\ brief' = brief \/ SafeBrief(brief')
      BY <2>1 DEF Leaves
    <2>3. /\ work'[p].pc \notin Writing
          /\ \A q \in Requests \ {p} : work'[q] = work[q] /\ BriefToWrite(q)' = BriefToWrite(q)
      BY <2>2 DEF IInv, TypeOK, BriefToWrite
    <2>4. round.status \in Briefed => brief'.version = brief.version
      BY <2>2 DEF SafeBrief
    <2> QED
      BY <2>2, <2>3, <2>4, RoundStays
  <1>4. ASSUME NEW p \in Requests, AcquireRoundLease(p)
        PROVE  RosterInv'
    <2>1. /\ UNCHANGED <<round, brief, ledger>>
          /\ work' = [work EXCEPT ![p] = [work[p] EXCEPT !.pc = "round"]]
          /\ work[p] \in Works
      BY <1>4 DEF AcquireRoundLease, IInv, TypeOK
    <2>2. /\ work'[p].pc = "round"
          /\ \A q \in Requests \ {p} : work'[q] = work[q] /\ BriefToWrite(q)' = BriefToWrite(q)
      BY <2>1 DEF IInv, TypeOK, Works, BriefToWrite
    <2> QED
      BY <2>1, <2>2, RoundStays DEF Writing
  <1>5. ASSUME NEW p \in Requests, ReadRoundAndBrief(p)
        PROVE  RosterInv'
    <2> DEFINE q == NewRound(work[p], round, brief, ledger)
               w == [work[p] EXCEPT !.pc = "read", !.brief = brief, !.round = q]
    <2>1. /\ UNCHANGED <<round, brief, ledger>>
          /\ work' = [work EXCEPT ![p] = w]
          /\ Gate(work[p].kind, round, brief, ledger)
          /\ work[p] \in Works
      BY <1>5 DEF ReadRoundAndBrief, IInv, TypeOK
    <2>2. RosterHolds(q, ledger, NewBrief(work[p], round, brief).version)
      BY <2>1, NewRoundHolds DEF RosterInv
    <2> HIDE DEF q
    <2>3. /\ w.round = q /\ w.brief = brief /\ w.kind = work[p].kind
          /\ w.material = work[p].material /\ w.candidate = work[p].candidate
      BY <2>1 DEF Works
    <2> HIDE DEF w
    <2>4. /\ work'[p] = w
          /\ \A r \in Requests \ {p} : work'[r] = work[r] /\ BriefToWrite(r)' = BriefToWrite(r)
      BY <2>1 DEF IInv, TypeOK, BriefToWrite
    <2>5. BriefToWrite(p)'.version = NewBrief(work[p], round, brief).version
      <3>1. BriefToWrite(p)' = NewBrief(w, q, brief)
        BY <2>3, <2>4 DEF BriefToWrite
      <3>2. NewBrief(w, q, brief).version = NewBrief(work[p], round, brief).version
        BY <2>3 DEF NewBrief, FreezeBrief
      <3> QED
        BY <3>1, <3>2
    <2>6. RosterHolds(work'[p].round, ledger, BriefToWrite(p)'.version)
      BY <2>2, <2>3, <2>4, <2>5
    <2> QED
      BY <2>1, <2>4, <2>6, RoundStays
  <1>6. ASSUME NEW p \in Requests, WriteBrief(p), work[p].kind # "editBrief"
        PROVE  RosterInv'
    <2> DEFINE w == [work[p] EXCEPT !.pc = "briefed"]
    <2>1. /\ UNCHANGED <<round, ledger>>
          /\ work' = [work EXCEPT ![p] = w]
          /\ work[p].pc = "read" /\ briefLease = p
          /\ brief' = BriefToWrite(p) /\ work[p] \in Works
      BY <1>6 DEF WriteBrief, IInv, TypeOK
    <2>2. /\ w.round = work[p].round /\ w.brief = work[p].brief /\ w.kind = work[p].kind
          /\ w.material = work[p].material /\ w.candidate = work[p].candidate
      BY <2>1 DEF Works
    <2> HIDE DEF w
    <2>3. /\ work'[p] = w
          /\ \A q \in Requests \ {p} : work'[q] = work[q] /\ BriefToWrite(q)' = BriefToWrite(q)
      BY <2>1 DEF IInv, TypeOK, BriefToWrite
    <2>4. BriefToWrite(p)' = BriefToWrite(p)
      BY <2>2, <2>3 DEF BriefToWrite, NewBrief
    <2>5. round.status \in Briefed => brief'.version = brief.version
      BY <2>1, BriefToWriteSafe DEF SafeBrief
    <2> QED
      BY <2>1, <2>2, <2>3, <2>4, <2>5, RoundStays DEF Writing
  <1>7. ASSUME NEW p \in Requests, WritesNewRound(p)
        PROVE  RosterInv'
    <2>1. /\ work[p].pc = "briefed" /\ roundLease = p /\ round' = work[p].round
          /\ UNCHANGED ledger /\ work' = [work EXCEPT ![p] = Idle]
      BY <1>7 DEF WritesNewRound, Ends
    <2>2. briefLease = p /\ brief = BriefToWrite(p)
      BY <2>1 DEF IInv, LeasesHeld, BriefFence, Writing
    <2>3. brief'.version = brief.version
      BY <1>7, <2>1, <2>2, RestoredBrief DEF WritesNewRound, RestoreBrief
    <2>4. RosterHolds(round', ledger', brief'.version)
      BY <2>1, <2>2, <2>3 DEF RosterInv, Writing
    <2>5. /\ work'[p].pc \notin Writing
          /\ \A q \in Requests \ {p} : work'[q] = work[q] /\ BriefToWrite(q)' = BriefToWrite(q)
      BY <2>1 DEF IInv, TypeOK, BriefToWrite, Idle, Writing
    <2> QED
      BY <2>1, <2>4, <2>5 DEF RosterInv
  <1>8. ASSUME UNCHANGED vars \/ \E p \in Requests : LeaseLapses(p)
        PROVE  RosterInv'
    <2>1. UNCHANGED <<round, brief, ledger, work>>
      BY <1>8 DEF vars, LeaseLapses
    <2> QED
      BY <2>1 DEF RosterInv, BriefToWrite
  <1>9. ASSUME NEW p \in Requests, Asking(p) \/ RequestStep(p)
        PROVE  RosterInv'
    BY <1>3, <1>4, <1>5, <1>6, <1>7, <1>9, AskingLeaves, RequestStepCases
  <1> QED
    BY <1>1, <1>2, <1>8, <1>9 DEF Next

LEMMA RosterInit == Init => RosterInv
  BY NewlyCreatedHolds DEF Init, RosterInv, Idle, Writing

-----------------------------------------------------------------------------
(* A roster that holds stays one: a lock, a reopened brief and a new version *)
(* of it never leave a flag that is not backed by a signature.              *)
THEOREM RosterInvariance == Spec => [](IInv /\ RosterInv)
  <1>1. Init => IInv /\ RosterInv
    BY InitKeeps, RosterInit
  <1>2. (IInv /\ RosterInv) /\ [Next]_vars => (IInv /\ RosterInv)'
    BY NextKeeps, RosterNext
  <1> QED
    BY <1>1, <1>2, PTL DEF Spec

(* From brief-complete on, the flags, the sweep and the completion of a      *)
(* round say what the pilots did (applyTo, demoteSuperseded,                *)
(* assertEverySlotSigned and assertEverySlotAccountedFor).                  *)
THEOREM FrozenRoundStaysTrue == Spec => []FrozenRoundIsTrue
  <1>1. ASSUME IInv, RosterInv
        PROVE  FrozenRoundIsTrue
    <2>1. round \in Rounds /\ ledger \subseteq Signatures
      BY <1>1 DEF IInv, TypeOK
    <2>2. \A pl \in Places : \A i \in DOMAIN round.seats[pl] :
            SlotHolds(round.status, pl, round.seats[pl][i], ledger, brief.version)
      BY <1>1 DEF RosterInv, RosterHolds
    <2>3. \A s \in ledger : s.version <= brief.version
      BY <1>1 DEF IInv, SignaturesFollowBrief
    <2>4. FlagsTellTheTruth
      BY <2>2, <2>3 DEF FlagsTellTheTruth, SlotHolds, IsSigned, SignaturesFor
    <2>5. CompleteMeansAccounted
      <3> SUFFICES ASSUME round.status = "Complete", NEW o \in Occupied(round)
                   PROVE  o \in Seated(round, LAMBDA seat : seat.accountedFor)
        BY DEF CompleteMeansAccounted, EverySlotAccountedFor
      <3>1. o \in Occupancies /\ o[1] \in Places /\ o[2] # NoPilot
        BY SentinelAssumption, RosterType DEF Occupancies
      <3>2. PICK i \in DOMAIN round.seats[o[1]] : round.seats[o[1]][i].pilot = o[2]
        BY DEF Occupied, Seated
      <3>3. round.seats[o[1]][i].accountedFor
        BY <2>2, <3>1, <3>2 DEF SlotHolds
      <3> QED
        BY <3>1, <3>2, <3>3 DEF Seated
    <2> QED
      BY <2>4, <2>5 DEF FrozenRoundIsTrue
  <1> QED
    BY <1>1, RosterInvariance, PTL

(* Coordinators and pilots seat nobody twice, and brief-complete lets no     *)
(* pilot without safety details into a frozen roster (assertRosterComplete). *)
THEOREM RosterStaysSound == Spec => []RosterIsSound
  <1>1. ASSUME IInv, RosterInv
        PROVE  RosterIsSound
    <2>1. PilotSeatedOnce
      BY <1>1 DEF RosterInv, RosterHolds, SeatedOnce, PilotSeatedOnce
    <2>2. FrozenRosterSnapshotted
      <3> SUFFICES ASSUME round.status \in Briefed, NEW o \in Occupied(round)
                   PROVE  o \in BuildBriefTeams(round)
        BY DEF FrozenRosterSnapshotted
      <3>1. o \in Occupancies /\ o[1] \in Places /\ o[2] # NoPilot
        BY SentinelAssumption, RosterType DEF Occupancies
      <3>2. PICK i \in DOMAIN round.seats[o[1]] : round.seats[o[1]][i].pilot = o[2]
        BY DEF Occupied, Seated
      <3>3. round.seats[o[1]][i].snapshot
        BY <1>1, <3>1, <3>2 DEF RosterInv, RosterHolds, SlotHolds
      <3> QED
        BY <3>1, <3>2, <3>3 DEF BuildBriefTeams, Seated
    <2> QED
      BY <2>1, <2>2 DEF RosterIsSound
  <1> QED
    BY <1>1, RosterInvariance, PTL

=============================================================================
