--------------------------- MODULE RoundLifecycle ---------------------------
(***************************************************************************)
(* One round of the British Club Challenge from Proposed to Complete: the  *)
(* round blob rounds/{id}.json, its brief round-briefs/{id}.json and the   *)
(* sign-to-fly ledger signatures/{id}/, and the API requests that race on  *)
(* them.  There is no database: the only exclusion is the 30 second lease  *)
(* on a blob, and the only atomic step is the write of one blob.           *)
(*                                                                         *)
(* A request that writes the round only (confirm, addPilot, complete...)   *)
(* holds the round lease from its read to its write, and a write under a   *)
(* lapsed lease is refused, so its leased read-modify-write is one atomic  *)
(* action guarded by the lease being free.  A request that writes both     *)
(* blobs (brief-complete, lock, unlock), or writes the brief under both    *)
(* leases (brief edits), is modelled step by step: the unleased pre-read,  *)
(* the two lease acquisitions, the leased reads, the brief write, the      *)
(* round write, the restore of the brief, and at every point the lapse of  *)
(* a lease, a retry, a failure or a crash.                                 *)
(***************************************************************************)
EXTENDS Integers, Sequences, FiniteSets

CONSTANTS
  Pilots,           \* pilots who may be seated
  Documented,       \* those whose pilots/{id}.json can be read at lock
  Teams,            \* ids of teams that may be entered; an id is used once
  MaxTeams,         \* round.maxTeams
  MaxPilotsInTeam,  \* config.maxPilotsInTeam
  Materials,        \* values of the material fields of a brief
  BlankMaterial,    \* the material fields of a brief nobody has edited
  Hashes,           \* digests
  HashOf,           \* computeBriefHash on the material fields
  Requests,         \* concurrent requests on both blobs
  KindsOf,          \* BOUND: what each of them may be (all kinds: no bound)
  NoOne,            \* no request: a free lease
  NoPilot,          \* the pilotId of an Empty slot
  NoHash,           \* the hash of a brief that was never frozen
  MaxVersion,       \* BOUND: versions of the brief
  MaxRecords        \* BOUND: slot records kept for one place

(* SHA-256 is taken to be collision-free, the premise of the code itself. *)
ASSUME HashAssumption ==
  /\ HashOf \in [Materials -> Hashes]
  /\ \A m, n \in Materials : HashOf[m] = HashOf[n] => m = n
  /\ NoHash \notin Hashes

ASSUME SentinelAssumption ==
  /\ Documented \subseteq Pilots
  /\ BlankMaterial \in Materials
  /\ NoOne \notin Requests
  /\ NoPilot \notin Pilots

ASSUME BoundAssumption ==
  /\ KindsOf \in [Requests -> SUBSET {"briefComplete", "lock", "unlock", "editBrief"}]
  /\ MaxTeams \in Nat
  /\ MaxPilotsInTeam \in Nat
  /\ MaxVersion \in Nat \ {0}
  /\ MaxRecords \in Nat \ {0}

VARIABLES
  round,       \* rounds/{id}.json
  brief,       \* round-briefs/{id}.json; version 0 while the blob is missing
  ledger,      \* signatures/{id}/*
  checked,     \* sign requests that passed their checks on the round
  built,       \* signatures built from the brief and not yet written
  roundLease,  \* holder of the live lease on the round blob
  briefLease,  \* holder of the live lease on the brief blob
  work         \* the memory of each request on both blobs

vars == <<round, brief, ledger, checked, built, roundLease, briefLease, work>>

-----------------------------------------------------------------------------
(* The documents.                                                          *)

Statuses == {"Proposed", "Confirmed", "BriefComplete", "Locked", "Complete", "Cancelled"}
Places == Teams \X (1 .. MaxPilotsInTeam)

(* One pilot's tenure of one place: what a signature attaches to. *)
Occupancies == Places \X Pilots

(* A slot record.  It is Filled exactly when it names a pilot. *)
Seats == [pilot : Pilots \union {NoPilot}, snapshot : BOOLEAN,
          signToFly : BOOLEAN, accountedFor : BOOLEAN]

(* The records of team.pilots with a given place, in array order: the code  *)
(* finds a slot by the first record with its place, and its sorts by place  *)
(* keep that order.  groupsBusy is pureTrack.status pending or processing.  *)
Rounds == [status : Statuses, team : [Teams -> {"unused", "entered", "removed"}],
           seats : [Places -> Seq(Seats)], groupsBusy : BOOLEAN]

Briefs == [version : 0 .. MaxVersion, hash : Hashes \union {NoHash},
           material : Materials, teams : SUBSET Occupancies]

Signatures == [occupancy : Occupancies, version : 1 .. MaxVersion, hash : Hashes]

NewlyCreated == [status |-> "Proposed", team |-> [t \in Teams |-> "unused"],
                 seats |-> [pl \in Places |-> <<>>], groupsBusy |-> FALSE]

NoBrief == [version |-> 0, hash |-> NoHash, material |-> BlankMaterial, teams |-> {}]

(* buildInitialBrief, and the placeholder of mutatePureTrackEchoes. *)
SeedBriefWith(material) ==
  [version |-> 1, hash |-> NoHash, material |-> material, teams |-> {}]

SeedBrief == SeedBriefWith(BlankMaterial)

BriefExists == brief.version > 0

(* A round whose roster may no longer change. *)
IsRosterFrozen(status) == status \notin {"Proposed", "Confirmed"}

(* The statuses in which the brief is the one pilots sign or have signed. *)
Briefed == {"BriefComplete", "Locked", "Complete"}

Seated(r, Sees(_)) ==
  {o \in Occupancies : \E i \in DOMAIN r.seats[o[1]] :
      r.seats[o[1]][i].pilot = o[2] /\ Sees(r.seats[o[1]][i])}

Occupied(r) == Seated(r, LAMBDA seat : TRUE)

IsPilotInRound(r, pilot) == \E pl \in Places : <<pl, pilot>> \in Occupied(r)

(* The slot record a handler finds for a place: the first one. *)
FindSlot(r, pl) == Head(r.seats[pl])
HasSlot(r, pl) == r.seats[pl] # <<>>

IsSlotAvailable(r, pl) == HasSlot(r, pl) => FindSlot(r, pl).pilot = NoPilot

(* The first available place of a team. *)
IsChosenPlace(r, pl) ==
  /\ IsSlotAvailable(r, pl)
  /\ \A n \in 1 .. pl[2] - 1 : ~IsSlotAvailable(r, <<pl[1], n>>)

EditSeats(r, New(_, _)) ==
  [r EXCEPT !.seats = [pl \in Places |->
     [i \in 1 .. Len(r.seats[pl]) |-> New(pl, r.seats[pl][i])]]]

-----------------------------------------------------------------------------
(* The ledger, resolved against a version of the brief.                    *)

(* Mutant: a signature belongs to the place, whoever gave it. *)
SignaturesForPlace(L, o) == {s \in L : s.occupancy[1] = o[1]}

SignaturesFor(L, o) == {s \in L : s.occupancy = o}

(* The newest signature of the occupancy is one of this version. *)
IsSigned(L, o, version) ==
  /\ \E s \in SignaturesFor(L, o) : s.version = version
  /\ \A s \in SignaturesFor(L, o) : s.version <= version

IsSuperseded(L, o, version) ==
  /\ SignaturesFor(L, o) # {}
  /\ \A s \in SignaturesFor(L, o) : s.version < version

UnsignedSlots(r, L, version) == {o \in Occupied(r) : ~IsSigned(L, o, version)}

ApplyTo(r, L, version) ==
  EditSeats(r, LAMBDA pl, seat : [seat EXCEPT !.signToFly =
    seat.pilot # NoPilot /\ IsSigned(L, <<pl, seat.pilot>>, version)])

DemoteSuperseded(r, L, version) ==
  EditSeats(r, LAMBDA pl, seat : [seat EXCEPT !.signToFly =
    @ /\ ~(seat.pilot # NoPilot /\ IsSuperseded(L, <<pl, seat.pilot>>, version))])

-----------------------------------------------------------------------------
(* The four requests on both blobs, as functions of what they read.        *)

Kinds == {"briefComplete", "lock", "unlock", "editBrief"}

(* pc: idle, asked (waiting for the round lease), round (waiting for the    *)
(* brief lease), read (both documents read, every gate passed, both new     *)
(* documents in memory), briefed (brief written, round not yet).  brief is  *)
(* the brief as read, round the round to be written, candidate the roster   *)
(* a lock took from its unleased pre-read, material what an edit asks for.  *)
Works == [kind : Kinds \union {"none"}, pc : {"idle", "asked", "round", "read", "briefed"},
          material : Materials, candidate : SUBSET Occupancies,
          round : Rounds, brief : Briefs]

Idle == [kind |-> "none", pc |-> "idle", material |-> BlankMaterial,
         candidate |-> {}, round |-> NewlyCreated, brief |-> NoBrief]

(* Only a slot that already carries a snapshot enters the brief. *)
BuildBriefTeams(r) == Seated(r, LAMBDA seat : seat.snapshot)

(* assertRosterComplete looks pilots up by id and place number. *)
RosterComplete(r) ==
  \A o \in Occupied(r) : \E b \in BuildBriefTeams(r) :
    b[2] = o[2] /\ b[1][2] = o[1][2]

(* Mutant: a changed hash does not raise the version. *)
FreezeBriefKeepingVersion(b, r) ==
  [b EXCEPT !.teams = BuildBriefTeams(r), !.hash = HashOf[b.material]]

FreezeBrief(b, r) ==
  LET newHash == HashOf[b.material]
  IN  [b EXCEPT !.teams = BuildBriefTeams(r), !.hash = newHash,
                !.version = IF b.hash \in {NoHash, newHash} THEN @ ELSE @ + 1]

(* buildLockCandidate on the unleased pre-read: the slots that have a        *)
(* snapshot, or get one there because the pilot document could be loaded.   *)
LockCandidate(r) ==
  Seated(r, LAMBDA seat : seat.snapshot \/ seat.pilot \in Documented)

(* The pilots whose snapshot that pre-read loaded. *)
LockSnapshots(candidate) == {o[2] : o \in candidate} \intersect Documented

ApplyLockToRound(r, loaded) ==
  LET stamped == EditSeats(r, LAMBDA pl, seat :
                   [seat EXCEPT !.snapshot = @ \/ seat.pilot \in loaded,
                                !.accountedFor = FALSE])
  IN  [stamped EXCEPT !.status = "Locked", !.groupsBusy = TRUE]

UnlockRound(r) ==
  LET cleared == EditSeats(r, LAMBDA pl, seat : [seat EXCEPT !.snapshot = FALSE])
  IN  [cleared EXCEPT !.status = "Confirmed", !.groupsBusy = FALSE]

(* The brief is frozen and its material fields still digest to its hash. *)
BriefIntact(b) == b.hash # NoHash /\ HashOf[b.material] = b.hash

(* Mutant: a gate that is checked on the unleased pre-read only. *)
GateWithoutEditCheck(kind, r, b, L) ==
  /\ kind = "briefComplete" => r.status = "Confirmed" /\ RosterComplete(r)
  /\ kind = "lock" => /\ r.status = "BriefComplete"
                      /\ BriefIntact(b)
                      /\ UnsignedSlots(r, L, b.version) = {}
  /\ kind = "unlock" => r.status = "Locked" /\ ~r.groupsBusy

(* Everything checked under the leases, before anything is written, on the  *)
(* round r, the brief b and the ledger L.                                   *)
Gate(kind, r, b, L) ==
  /\ kind = "briefComplete" => r.status = "Confirmed" /\ RosterComplete(r)
  /\ kind = "lock" => /\ r.status = "BriefComplete"
                      /\ BriefIntact(b)
                      /\ UnsignedSlots(r, L, b.version) = {}
  /\ kind = "unlock" => r.status = "Locked" /\ ~r.groupsBusy
  /\ kind = "editBrief" => ~IsRosterFrozen(r.status)

(* The brief a request writes, from the round r and the brief b it read. *)
NewBrief(w, r, b) ==
  CASE w.kind = "briefComplete" -> FreezeBrief(b, r)
    [] w.kind = "lock"          -> [b EXCEPT !.teams = w.candidate]
    [] w.kind = "editBrief"     -> [b EXCEPT !.material = w.material]
    [] OTHER                    -> b

(* Mutant: brief-complete demotes the flags only when it raised the version. *)
NewRoundDemotingOnce(w, r, b, L) ==
  CASE w.kind = "briefComplete" ->
         [(IF FreezeBrief(b, r).version = b.version THEN r
           ELSE DemoteSuperseded(r, L, FreezeBrief(b, r).version))
            EXCEPT !.status = "BriefComplete"]
    [] w.kind = "lock" ->
         ApplyLockToRound(ApplyTo(r, L, b.version), LockSnapshots(w.candidate))
    [] w.kind = "unlock" -> UnlockRound(r)
    [] OTHER -> NewlyCreated

(* The round it writes; a brief edit writes none. *)
NewRound(w, r, b, L) ==
  CASE w.kind = "briefComplete" ->
         [DemoteSuperseded(r, L, FreezeBrief(b, r).version) EXCEPT !.status = "BriefComplete"]
    [] w.kind = "lock" ->
         ApplyLockToRound(ApplyTo(r, L, b.version), LockSnapshots(w.candidate))
    [] w.kind = "unlock" -> UnlockRound(r)
    [] OTHER -> NewlyCreated

-----------------------------------------------------------------------------
Init ==
  /\ round = NewlyCreated
  /\ brief \in {NoBrief, SeedBrief}
  /\ ledger = {}
  /\ checked = {}
  /\ built = {}
  /\ roundLease = NoOne
  /\ briefLease = NoOne
  /\ work = [p \in Requests |-> Idle]

(***************************************************************************)
(* Requests on the round blob alone.                                       *)
(***************************************************************************)

(* A leased read-modify-write of the round blob. *)
WritesRound(r) ==
  /\ roundLease = NoOne
  /\ round' = r
  /\ UNCHANGED <<brief, ledger, checked, built, roundLease, briefLease, work>>

Transition(from, to) ==
  /\ round.status \in from
  /\ WritesRound([round EXCEPT !.status = to])

Confirm == Transition({"Proposed"}, "Confirmed")
Reopen == Transition({"BriefComplete"}, "Confirmed")
Cancel == Transition({"Proposed", "Confirmed"}, "Cancelled")
Uncancel == Transition({"Cancelled"}, "Proposed")

(* The post-flight sweep covers every Filled slot record. *)
EverySlotAccountedFor(r) ==
  \A o \in Occupied(r) : o \in Seated(r, LAMBDA seat : seat.accountedFor)

Complete ==
  /\ EverySlotAccountedFor(round)
  /\ Transition({"Locked"}, "Complete")

EnteredTeams(r) == {t \in Teams : r.team[t] = "entered"}

AddTeam(t) ==
  /\ ~IsRosterFrozen(round.status)
  /\ Cardinality(EnteredTeams(round)) < MaxTeams
  /\ round.team[t] = "unused"
  /\ WritesRound([round EXCEPT !.team[t] = "entered"])

RemoveTeam(t) ==
  /\ ~IsRosterFrozen(round.status)
  /\ round.team[t] = "entered"
  /\ WritesRound([round EXCEPT !.team[t] = "removed",
                    !.seats = [pl \in Places |-> IF pl[1] = t THEN <<>> ELSE @[pl]]])

NewSeat(pilot, snapshot) == [pilot |-> pilot, snapshot |-> snapshot,
                             signToFly |-> FALSE, accountedFor |-> FALSE]

(* A coordinator seats a pilot: always a new record, without a snapshot. *)
AddPilot(pilot, pl) ==
  /\ ~IsRosterFrozen(round.status)
  /\ round.team[pl[1]] = "entered"
  /\ ~IsPilotInRound(round, pilot)
  /\ IsChosenPlace(round, pl)
  /\ Len(round.seats[pl]) < MaxRecords
  /\ WritesRound([round EXCEPT !.seats[pl] = Append(@, NewSeat(pilot, FALSE))])

RemovePilot(pl) ==
  /\ ~IsRosterFrozen(round.status)
  /\ HasSlot(round, pl)
  /\ WritesRound([round EXCEPT !.seats[pl] = Tail(@)])

(* Mutant: whether the pilot is in the round is checked before the lease only. *)
RegisterSelfUnchecked(pilot, pl) ==
  /\ ~IsRosterFrozen(round.status)
  /\ round.team[pl[1]] = "entered"
  /\ IsChosenPlace(round, pl)
  /\ WritesRound([round EXCEPT !.seats[pl] =
       <<NewSeat(pilot, TRUE)>> \o (IF HasSlot(round, pl) THEN Tail(@) ELSE <<>>)])

(* A pilot takes the first record of the chosen place, created if missing. *)
RegisterSelf(pilot, pl) ==
  /\ ~IsRosterFrozen(round.status)
  /\ round.team[pl[1]] = "entered"
  /\ ~IsPilotInRound(round, pilot)
  /\ IsChosenPlace(round, pl)
  /\ WritesRound([round EXCEPT !.seats[pl] =
       <<NewSeat(pilot, TRUE)>> \o (IF HasSlot(round, pl) THEN Tail(@) ELSE <<>>)])

(* Mutant: a pilot may leave a frozen roster. *)
UnregisterSelfAnytime(o) ==
  /\ SignaturesFor(ledger, o) = {}
  /\ \E i \in DOMAIN round.seats[o[1]] :
       /\ round.seats[o[1]][i].pilot = o[2]
       /\ WritesRound([round EXCEPT !.seats[o[1]][i] = NewSeat(NoPilot, FALSE)])

(* A pilot who never signed for the place leaves an Empty record behind. *)
UnregisterSelf(o) ==
  /\ ~IsRosterFrozen(round.status)
  /\ SignaturesFor(ledger, o) = {}
  /\ \E i \in DOMAIN round.seats[o[1]] :
       /\ round.seats[o[1]][i].pilot = o[2]
       /\ WritesRound([round EXCEPT !.seats[o[1]][i] = NewSeat(NoPilot, FALSE)])

UpdateAccounted(pl, value) ==
  /\ round.status = "Locked"
  /\ HasSlot(round, pl)
  /\ FindSlot(round, pl).pilot # NoPilot
  /\ WritesRound([round EXCEPT !.seats[pl][1].accountedFor = value])

(* The group-creation job ends, in whatever way... *)
GroupsDone ==
  /\ round.groupsBusy
  /\ WritesRound([round EXCEPT !.groupsBusy = FALSE])

(* ...and a coordinator may start it again. *)
CreateGroups ==
  /\ round.status \in {"Locked", "Complete"}
  /\ ~round.groupsBusy
  /\ WritesRound([round EXCEPT !.groupsBusy = TRUE])

(* The reflect job of the queue, or its endpoint: the queue may deliver a   *)
(* message late or twice and the endpoint has no limit, so it can run at    *)
(* any time.                                                                *)
ReflectRoundSignToFly ==
  /\ round.status = "BriefComplete"
  /\ BriefExists
  /\ WritesRound(ApplyTo(round, ledger, brief.version))

(***************************************************************************)
(* Signing takes no lease.  What a request has read may be stale when it   *)
(* uses it; any number of requests can be waiting with the same values.    *)
(***************************************************************************)

(* The pilot himself, or a coordinator who signs on his behalf. *)
SignCheck(o) ==
  /\ round.status = "BriefComplete"
  /\ HasSlot(round, o[1])
  /\ FindSlot(round, o[1]).pilot = o[2]
  /\ checked' = checked \union {o}
  /\ UNCHANGED <<round, brief, ledger, built, roundLease, briefLease, work>>

SignBuild(o) ==
  /\ o \in checked
  /\ BriefExists
  /\ BriefIntact(brief)
  /\ built' = built \union {[occupancy |-> o, version |-> brief.version,
                             hash |-> HashOf[brief.material]]}
  /\ UNCHANGED <<round, brief, ledger, checked, roundLease, briefLease, work>>

SignWrite(s) ==
  /\ s \in built
  /\ ledger' = ledger \union {s}
  /\ UNCHANGED <<round, brief, checked, built, roundLease, briefLease, work>>

(***************************************************************************)
(* Requests on both blobs.                                                 *)
(***************************************************************************)

Free(lease, p) == IF lease = p THEN NoOne ELSE lease

(* The request is over, one way or another, and its leases released. *)
Ends(p) ==
  /\ work' = [work EXCEPT ![p] = Idle]
  /\ roundLease' = Free(roundLease, p)
  /\ briefLease' = Free(briefLease, p)

Asks(p, w) ==
  /\ work[p].pc = "idle"
  /\ w.kind \in KindsOf[p]
  /\ work' = [work EXCEPT ![p] = w]
  /\ UNCHANGED <<round, ledger, checked, built, roundLease, briefLease>>

(* The unleased preamble of each request. *)
AskBriefComplete(p) ==
  /\ round.status = "Confirmed"
  /\ BriefExists
  /\ Asks(p, [Idle EXCEPT !.kind = "briefComplete", !.pc = "asked"])
  /\ UNCHANGED brief

AskLock(p) ==
  /\ round.status = "BriefComplete"
  /\ BriefExists
  /\ Asks(p, [Idle EXCEPT !.kind = "lock", !.pc = "asked",
                          !.candidate = LockCandidate(round)])
  /\ UNCHANGED brief

(* No status check before the lease, and a missing brief is created. *)
AskUnlock(p) ==
  /\ Asks(p, [Idle EXCEPT !.kind = "unlock", !.pc = "asked"])
  /\ brief' = IF BriefExists THEN brief ELSE SeedBrief

(* A missing brief is created with those of the edited values that are its *)
(* times, which the write under the leases then repeats.                   *)
AskEditBrief(p, material) ==
  /\ ~IsRosterFrozen(round.status)
  /\ Asks(p, [Idle EXCEPT !.kind = "editBrief", !.pc = "asked", !.material = material])
  /\ brief' \in IF BriefExists THEN {brief} ELSE {SeedBrief, SeedBriefWith(material)}

(* The images of a brief are material too.  An upload creates a missing     *)
(* brief like an edit; a deletion looks at the status under its leases only. *)
AskUploadImage(p, material) ==
  /\ ~IsRosterFrozen(round.status)
  /\ Asks(p, [Idle EXCEPT !.kind = "editBrief", !.pc = "asked", !.material = material])
  /\ brief' = IF BriefExists THEN brief ELSE SeedBrief

AskDeleteImage(p, material) ==
  /\ BriefExists
  /\ Asks(p, [Idle EXCEPT !.kind = "editBrief", !.pc = "asked", !.material = material])
  /\ UNCHANGED brief

AcquireRoundLease(p) ==
  /\ work[p].pc = "asked"
  /\ roundLease = NoOne
  /\ roundLease' = p
  /\ work' = [work EXCEPT ![p].pc = "round"]
  /\ UNCHANGED <<round, brief, ledger, checked, built, briefLease>>

(* The brief lease is taken second, by a request whose round lease may have *)
(* lapsed while it waited.  It then reads the round, the brief and the      *)
(* ledger, passes its gates and changes both documents in memory.           *)
ReadRoundAndBrief(p) ==
  /\ work[p].pc = "round"
  /\ briefLease = NoOne
  /\ BriefExists
  /\ Gate(work[p].kind, round, brief, ledger)
  /\ NewBrief(work[p], round, brief).version <= MaxVersion
  /\ briefLease' = p
  /\ work' = [work EXCEPT ![p] =
       [@ EXCEPT !.pc = "read", !.brief = brief,
                 !.round = NewRound(work[p], round, brief, ledger)]]
  /\ UNCHANGED <<round, brief, ledger, checked, built, roundLease>>

Reject(p) ==
  /\ work[p].pc = "round"
  /\ briefLease = NoOne
  /\ BriefExists
  /\ ~Gate(work[p].kind, round, brief, ledger)
  /\ Ends(p)
  /\ UNCHANGED <<round, brief, ledger, checked, built>>

(* Mutant: every write of the brief raises its version. *)
BriefToWriteBumped(p) ==
  [NewBrief(work[p], work[p].round, work[p].brief) EXCEPT !.version = @ + 1]

BriefToWrite(p) == NewBrief(work[p], work[p].round, work[p].brief)

WriteBrief(p) ==
  /\ work[p].pc = "read"
  /\ briefLease = p
  /\ brief' = BriefToWrite(p)
  /\ IF work[p].kind = "editBrief"
     THEN Ends(p)
     ELSE /\ work' = [work EXCEPT ![p].pc = "briefed"]
          /\ UNCHANGED <<roundLease, briefLease>>
  /\ UNCHANGED <<round, ledger, checked, built>>

(* Mutant: the write of the round does not present the lease. *)
WriteRoundUnfenced(p) ==
  /\ work[p].pc = "briefed"
  /\ round' = work[p].round
  /\ Ends(p)
  /\ UNCHANGED <<brief, ledger, checked, built>>

WriteRound(p) ==
  /\ work[p].pc = "briefed"
  /\ roundLease = p
  /\ round' = work[p].round
  /\ Ends(p)
  /\ UNCHANGED <<brief, ledger, checked, built>>

(* Mutant: the restore does not present the lease. *)
RestoreBriefUnfenced(p) ==
  brief' = IF work[p].kind \in {"lock", "unlock"} THEN work[p].brief ELSE brief

(* Lock and unlock put the brief they read back, if their lease still holds. *)
RestoreBrief(p) ==
  brief' = IF work[p].kind \in {"lock", "unlock"} /\ briefLease = p
           THEN work[p].brief ELSE brief

(* A 412 re-runs the leased part: first under a new brief lease alone, then *)
(* under both.  After the last attempt the request gives up (GiveUp).       *)
RetriesFrom(p, pc) ==
  /\ work' = [work EXCEPT ![p] = [@ EXCEPT !.pc = pc, !.round = NewlyCreated,
                                           !.brief = NoBrief]]
  /\ briefLease' = Free(briefLease, p)
  /\ roundLease' = IF pc = "asked" THEN Free(roundLease, p) ELSE roundLease

BriefWriteRefused(p) ==
  /\ work[p].pc = "read"
  /\ briefLease # p
  /\ \E pc \in {"round", "asked"} : RetriesFrom(p, pc)
  /\ UNCHANGED <<round, brief, ledger, checked, built>>

RoundWriteRefused(p) ==
  /\ work[p].pc = "briefed"
  /\ roundLease # p
  /\ RestoreBrief(p)
  /\ \E pc \in {"round", "asked"} : RetriesFrom(p, pc)
  /\ UNCHANGED <<round, ledger, checked, built>>

(* The write fails with another error, perhaps after it was applied. *)
BriefWriteFails(p) ==
  /\ work[p].pc = "read"
  /\ brief' \in {brief} \union (IF briefLease = p THEN {BriefToWrite(p)} ELSE {})
  /\ Ends(p)
  /\ UNCHANGED <<round, ledger, checked, built>>

RoundWriteFails(p) ==
  /\ work[p].pc = "briefed"
  /\ round' \in {round} \union (IF roundLease = p THEN {work[p].round} ELSE {})
  /\ RestoreBrief(p)
  /\ Ends(p)
  /\ UNCHANGED <<ledger, checked, built>>

(* No lease after the last attempt. *)
GiveUp(p) ==
  /\ work[p].pc \in {"asked", "round"}
  /\ Ends(p)
  /\ UNCHANGED <<round, brief, ledger, checked, built>>

(* The host dies; its leases run out. *)
Crash(p) ==
  /\ work[p].pc \in {"read", "briefed"}
  /\ Ends(p)
  /\ UNCHANGED <<round, brief, ledger, checked, built>>

(* A slow request outlives its leases.  Both last 30 seconds and the brief  *)
(* lease is always the younger, so the round lease lapses first.            *)
LeaseLapses(p) ==
  /\ \/ /\ roundLease = p
        /\ roundLease' = NoOne
        /\ UNCHANGED briefLease
     \/ /\ briefLease = p
        /\ roundLease # p
        /\ briefLease' = NoOne
        /\ UNCHANGED roundLease
  /\ UNCHANGED <<round, brief, ledger, checked, built, work>>

-----------------------------------------------------------------------------
RoundSteps ==
  \/ Confirm \/ Reopen \/ Cancel \/ Uncancel \/ Complete
  \/ \E t \in Teams : AddTeam(t) \/ RemoveTeam(t)
  \/ \E pilot \in Pilots, pl \in Places : AddPilot(pilot, pl) \/ RegisterSelf(pilot, pl)
  \/ \E pl \in Places : RemovePilot(pl)
  \/ \E o \in Occupancies : UnregisterSelf(o)
  \/ \E pl \in Places, value \in BOOLEAN : UpdateAccounted(pl, value)
  \/ GroupsDone \/ CreateGroups \/ ReflectRoundSignToFly

SignSteps ==
  \/ \E o \in Occupancies : SignCheck(o) \/ SignBuild(o)
  \/ \E s \in built : SignWrite(s)

Asking(p) ==
  \/ AskBriefComplete(p) \/ AskLock(p) \/ AskUnlock(p)
  \/ \E material \in Materials :
       AskEditBrief(p, material) \/ AskUploadImage(p, material) \/ AskDeleteImage(p, material)

RequestStep(p) ==
  \/ AcquireRoundLease(p) \/ ReadRoundAndBrief(p) \/ Reject(p)
  \/ WriteBrief(p) \/ WriteRound(p)
  \/ BriefWriteRefused(p) \/ RoundWriteRefused(p)
  \/ BriefWriteFails(p) \/ RoundWriteFails(p)
  \/ GiveUp(p) \/ Crash(p)

Next ==
  \/ RoundSteps
  \/ SignSteps
  \/ \E p \in Requests : Asking(p) \/ RequestStep(p) \/ LeaseLapses(p)

Spec == Init /\ [][Next]_vars

-----------------------------------------------------------------------------
(* The state has its type. *)
TypeOK ==
  /\ round \in Rounds
  /\ brief \in Briefs
  /\ ledger \subseteq Signatures
  /\ checked \subseteq Occupancies
  /\ built \subseteq Signatures
  /\ roundLease \in Requests \union {NoOne}
  /\ briefLease \in Requests \union {NoOne}
  /\ work \in [Requests -> Works]

(* LockedMeansSigned: in a Locked or Complete round every seated pilot has   *)
(* signed the very brief the round was locked with - its version, and the   *)
(* digest of its material fields as they are now.  The gate of lock is      *)
(* checked on documents read earlier than they are written, while edits,    *)
(* brief-completes and signatures go on.                                    *)
LockedMeansSigned ==
  round.status \in {"Locked", "Complete"} =>
    \A o \in Occupied(round) : \E s \in ledger :
      s.occupancy = o /\ s.version = brief.version /\ s.hash = HashOf[brief.material]

(* FrozenBriefIntact: from brief-complete on, the material fields of the     *)
(* brief are those its hash was computed from (what assertFrozenBriefIntact *)
(* calls mutated out-of-band never comes from a brief edit).                *)
FrozenBriefIntact == round.status \in Briefed => BriefIntact(brief)

(* OneMaterialPerVersion: two signatures of one version were given to the   *)
(* same material fields, whatever crashed or was rolled back in between.    *)
OneMaterialPerVersion ==
  \A s, t \in ledger : s.version = t.version => s.hash = t.hash

(* FlagsTellTheTruth: a slot that shows signToFly from brief-complete on     *)
(* belongs to a pilot whose newest signature is of the current brief, and   *)
(* once locked every seated pilot's slot shows it (the reflect job no longer *)
(* runs then).                                                              *)
FlagsTellTheTruth ==
  \A pl \in Places : \A i \in DOMAIN round.seats[pl] :
    LET seat == round.seats[pl][i]
    IN  /\ round.status \in Briefed /\ seat.signToFly =>
             seat.pilot # NoPilot /\ IsSigned(ledger, <<pl, seat.pilot>>, brief.version)
        /\ round.status \in {"Locked", "Complete"} /\ seat.pilot # NoPilot => seat.signToFly

(* FrozenRosterSnapshotted: from brief-complete on, every seated pilot has a *)
(* snapshot of safety details, as assertRosterComplete wants.               *)
FrozenRosterSnapshotted ==
  round.status \in Briefed => Occupied(round) \subseteq BuildBriefTeams(round)

(* CompleteMeansAccounted: in a Complete round every seated pilot was        *)
(* accounted for, and still is (assertEverySlotAccountedFor).               *)
CompleteMeansAccounted == round.status = "Complete" => EverySlotAccountedFor(round)

(* PilotSeatedOnce: no pilot fills two slot records of the round, though     *)
(* coordinators and the pilot seat him by different handlers.               *)
PilotSeatedOnce ==
  \A pl, q \in Places : \A i \in DOMAIN round.seats[pl], j \in DOMAIN round.seats[q] :
    /\ round.seats[pl][i].pilot = round.seats[q][j].pilot
    /\ round.seats[pl][i].pilot # NoPilot
    => pl = q /\ i = j

(* RosterIsSound: the seats of the round, as coordinators, the pilot and a   *)
(* brief-complete leave them.                                               *)
RosterIsSound == FrozenRosterSnapshotted /\ PilotSeatedOnce

(* FrozenRoundIsTrue: what a frozen round shows of its pilots is the case.   *)
FrozenRoundIsTrue == FlagsTellTheTruth /\ CompleteMeansAccounted

(* RosterFixedWhileFrozen: no step, and no late write of an older copy,      *)
(* changes who is seated while the round stays briefed, flown or complete.  *)
RosterFixedWhileFrozen ==
  [][round.status \in Briefed /\ round'.status \in Briefed
       => Occupied(round') = Occupied(round)]_vars

(* BriefHistoryLinear: the version of the brief never falls, and a version   *)
(* once frozen keeps its hash; a restore after a failed lock or unlock must *)
(* not bring an older version back.                                         *)
BriefHistoryLinear ==
  [][\/ brief'.version > brief.version
     \/ /\ brief'.version = brief.version
        /\ brief.hash \in {NoHash, brief'.hash}]_vars

(* CompleteIsFinal: no transition, and no late write of an unlock that read  *)
(* the round while it was Locked, takes a round out of Complete.            *)
CompleteIsFinal ==
  [][round.status = "Complete" => round'.status = "Complete"]_vars

-----------------------------------------------------------------------------
(* Why they hold: the inductive invariant.                                 *)

Writing == {"read", "briefed"}

(* Who holds a lease is where the request is; and as the round lease is the  *)
(* older, a request that still has it while writing has both.               *)
LeasesHeld ==
  \A p \in Requests :
    /\ roundLease = p => work[p].pc \in {"round"} \union Writing
    /\ briefLease = p => work[p].pc \in Writing
    /\ roundLease = p /\ work[p].pc \in Writing => briefLease = p

(* While its brief lease lives, no one else changes the brief. *)
BriefFence ==
  \A p \in Requests :
    /\ work[p].pc \in Writing => work[p].brief.version > 0 /\ BriefToWrite(p).version <= MaxVersion
    /\ briefLease = p => BriefExists
    /\ briefLease = p /\ work[p].pc = "read" => brief = work[p].brief
    /\ briefLease = p /\ work[p].pc = "briefed" => brief = BriefToWrite(p)

(* A missing brief is missing altogether. *)
NoHalfBrief == BriefExists \/ brief = NoBrief

(* While its round lease lives, the round is the one a request read. *)
RoundFence ==
  \A p \in Requests : roundLease = p /\ work[p].pc \in Writing =>
    /\ work[p].kind = "briefComplete" => round.status = "Confirmed"
    /\ work[p].kind = "unlock" => round.status = "Locked"
    /\ work[p].kind = "lock" => /\ round.status = "BriefComplete"
                               /\ Occupied(work[p].round) = Occupied(round)

(* An edit or a brief-complete with a live brief lease keeps the round out   *)
(* of the statuses in which its brief is frozen.                            *)
NoFreezeUnderEdit ==
  \A p \in Requests :
    briefLease = p /\ work[p].kind \in {"briefComplete", "editBrief"}
      => round.status \notin Briefed

(* What the gates established of the round a request is about to write. *)
GatePassed(w) ==
  /\ w.kind = "briefComplete" => w.round.status = "BriefComplete"
  /\ w.kind = "unlock" => w.round.status = "Confirmed"
  /\ w.kind = "editBrief" => w.pc = "read"
  /\ w.kind = "lock" =>
       /\ w.round.status = "Locked"
       /\ BriefIntact(w.brief)
       /\ \A o \in Occupied(w.round) : \E s \in ledger :
            /\ s.occupancy = o
            /\ s.version = w.brief.version
            /\ s.hash = HashOf[w.brief.material]

GatesPassed ==
  \A p \in Requests :
    /\ work[p].pc # "idle" => work[p].kind \in Kinds
    /\ work[p].pc \in Writing => GatePassed(work[p])

(* No signature is ahead of the brief, and those of its version have its     *)
(* hash; also the signatures not yet written.                               *)
SignaturesFollowBrief ==
  \A s \in ledger \union built :
    /\ s.version <= brief.version
    /\ s.version = brief.version => s.hash = brief.hash
    /\ \A t \in ledger \union built : s.version = t.version => s.hash = t.hash

IInv ==
  /\ TypeOK
  /\ LeasesHeld
  /\ BriefFence
  /\ NoHalfBrief
  /\ RoundFence
  /\ NoFreezeUnderEdit
  /\ GatesPassed
  /\ SignaturesFollowBrief
  /\ FrozenBriefIntact
  /\ LockedMeansSigned

-----------------------------------------------------------------------------
(* What the documentation says and the code does not do.                   *)

(* UnlockKeepsRosterReady: an unlock clears the snapshots so that they are   *)
(* re-taken at next lock (unlockRound), so it does not turn a roster that   *)
(* could be brief-completed into one that cannot.                           *)
UnlockKeepsRosterReady ==
  [][round.status = "Locked" /\ round'.status = "Confirmed" /\ RosterComplete(round)
       => RosterComplete(round')]_vars
=============================================================================
