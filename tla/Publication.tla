----------------------------- MODULE Publication -----------------------------
(***************************************************************************)
(* What the public sees of one season: the season blob with its list of    *)
(* rounds and its league, the results blob, and the rounds' entries in     *)
(* rounds.json.  Requests write a round, publish its entry and ask their   *)
(* host for a recomputation of the season; a host runs one at a time.      *)
(***************************************************************************)
EXTENDS Naturals, FiniteSetsExt

CONSTANTS
  Hosts,       \* processes that run the API
  Rounds,
  None,        \* no holder of a lease
  Worlds,      \* BOUND: sets of kinds of rarer event that may happen together
  MaxVersion,  \* BOUND: writes of a round
  MaxWrites,   \* BOUND: writes of all rounds
  MaxFaults    \* BOUND: faults

ASSUME PublicationAssumption ==
  /\ None \notin Hosts \union Rounds
  /\ UNION Worlds \subseteq {"create", "overlap", "admin", "fail", "unread", "giveUp", "lapse",
                             "crash", "append"}
  /\ MaxVersion \in Nat \ {0} /\ MaxWrites \in Nat /\ MaxFaults \in Nat

VARIABLES
  record,   \* the version of each round's blob; 0 when there is none
  season,   \* seasons/{year}.json: the rounds it lists, and the versions its league counts
  results,  \* results/{year}.json: the versions it shows
  index,    \* rounds.json: the version each entry shows; 0 when there is no entry
  created,  \* rounds whose creation was reported
  tasks,    \* requests under way
  writer,   \* the round whose creation holds the lease of the season blob
  lock,     \* the host that holds the lease of seasons/{year}.json.lock
  builder,  \* the host that holds the lease of rounds.json to rebuild it
  pass,     \* the recomputation each host runs
  faults    \* the kinds of rarer event that may happen, and how many faults have

blobs == <<record, season, results, index>>
leases == <<writer, lock, builder>>
vars == <<blobs, created, tasks, leases, pass, faults>>

-----------------------------------------------------------------------------
(* Version 1 of a round is Proposed; it is Complete from version 2 on, and *)
(* every further version has other scores.                                 *)
Versions == 0 .. MaxVersion
Completed(version) == version >= 2
Nothing == [r \in Rounds |-> 0]
Seasons == [listed : SUBSET Rounds, league : [Rounds -> Versions]]
NoSeason == [listed |-> {}, league |-> Nothing]

NoPass == [pc |-> "idle", listed |-> {}, unread |-> {}, table |-> Nothing, dirty |-> FALSE]

TypeOK ==
  /\ record \in [Rounds -> Versions]
  /\ season \in Seasons
  /\ results \in [Rounds -> Versions] /\ index \in [Rounds -> Versions]
  /\ created \subseteq Rounds
  /\ \A t \in tasks :
       /\ t.round \in Rounds /\ t.version \in Versions /\ t.host \in Hosts
       /\ t.pc \in {"write", "append", "leased", "fallback", "publish", "recompute"}
       /\ t.season \in Seasons /\ t.admin \in BOOLEAN
  /\ writer \in Rounds \union {None} /\ {lock, builder} \subseteq Hosts \union {None}
  /\ \A h \in Hosts :
       /\ pass[h].pc \in {"idle", "lock", "rounds", "results", "index", "copy"}
       /\ pass[h].listed \subseteq Rounds /\ pass[h].unread \subseteq pass[h].listed
       /\ pass[h].table \in [Rounds -> Versions] /\ pass[h].dirty \in BOOLEAN
       /\ pass[h].pc = "idle" => pass[h] = NoPass
  /\ faults \in [kinds : Worlds, count : 0 .. MaxFaults]

world == faults.kinds

Fault(kind) ==
  /\ kind \in world
  /\ faults.count < MaxFaults
  /\ faults' = [faults EXCEPT !.count = @ + 1]

Request(r, version, h) ==
  [round |-> r, version |-> version, host |-> h, pc |-> "publish", season |-> NoSeason,
   admin |-> FALSE]
Becomes(t, pc) == tasks' = (tasks \ {t}) \union {[t EXCEPT !.pc = pc]}
Ends(t) == tasks' = tasks \ {t}

-----------------------------------------------------------------------------
(* Creating a round.                                                       *)

(* The season is read first, to see that it exists. *)
BeginCreate(r, h) ==
  /\ "create" \in world
  /\ record[r] = 0 /\ \A t \in tasks : t.round # r
  /\ tasks' = tasks \union {[Request(r, 1, h) EXCEPT !.pc = "write", !.season = season]}
  /\ UNCHANGED <<blobs, created, leases, pass, faults>>

WriteRound(t) ==
  /\ t.pc = "write"
  /\ record' = [record EXCEPT ![t.round] = 1]
  /\ Becomes(t, "append")
  /\ UNCHANGED <<season, results, index, created, leases, pass, faults>>

TakeLease(t) ==
  /\ t.pc = "append" /\ writer = None
  /\ writer' = t.round
  /\ Becomes(t, "leased")
  /\ UNCHANGED <<blobs, created, lock, builder, pass, faults>>

Append(t) ==
  /\ t.pc = "leased" /\ writer = t.round
  /\ season' = [season EXCEPT !.listed = @ \union {t.round}]
  /\ writer' = None
  /\ Becomes(t, "publish")
  /\ UNCHANGED <<record, results, index, created, lock, builder, pass, faults>>

(* The lease is taken, and not waited for; or the write under it fails. *)
AppendFails(t) ==
  /\ \/ t.pc = "append" /\ writer # None /\ UNCHANGED <<writer, faults>>
     \/ t.pc = "leased" /\ Fault("append") /\ writer' = None
  /\ Becomes(t, "fallback")
  /\ UNCHANGED <<blobs, created, lock, builder, pass>>

(* The season as it was read at first is written back, with the round. *)
Fallback(t) ==
  /\ t.pc = "fallback"
  /\ IF writer # None
     THEN UNCHANGED season /\ Ends(t)
     ELSE /\ season' = [t.season EXCEPT !.listed = @ \union {t.round}]
          /\ Becomes(t, "publish")
  /\ UNCHANGED <<record, results, index, created, leases, pass, faults>>

-----------------------------------------------------------------------------
(* Writing a round, and its entry in rounds.json.                          *)

(* Requests for one round overlap only in some worlds. *)
MayAskFor(r) == "overlap" \in world \/ \A t \in tasks : t.round # r

(* Completions, rescores, validations: the round is written under its      *)
(* lease.                                                                  *)
Commit(r, h) ==
  /\ record[r] \in 1 .. MaxVersion - 1 /\ MayAskFor(r)
  /\ MapThenSumSet(LAMBDA q : record[q], Rounds) < MaxWrites
  /\ record' = [record EXCEPT ![r] = @ + 1]
  /\ tasks' = tasks \union {Request(r, record'[r], h)}
  /\ UNCHANGED <<season, results, index, created, leases, pass, faults>>

(* An administrator has a round published again, and its season computed:  *)
(* the round is read without its lease.                                    *)
RecomputeRound(r, h) ==
  /\ Fault("admin")
  /\ record[r] > 0 /\ MayAskFor(r)
  /\ tasks' = tasks \union {[Request(r, record[r], h) EXCEPT !.admin = TRUE]}
  /\ UNCHANGED <<blobs, created, leases, pass>>

Shows(t) ==
  /\ index' = [index EXCEPT ![t.round] = t.version]
  /\ created' = created \union {t.round}
  /\ IF t.admin \/ Completed(t.version) THEN Becomes(t, "recompute") ELSE Ends(t)

(* Mutant: the entry is written without the lease of rounds.json. *)
PublishUnleased(t) ==
  /\ t.pc = "publish"
  /\ Shows(t)
  /\ UNCHANGED <<record, season, results, leases, pass, faults>>

(* After the round's lease is released, and from the round as committed. *)
Publish(t) ==
  /\ t.pc = "publish"
  /\ builder = None
  /\ Shows(t)
  /\ UNCHANGED <<record, season, results, leases, pass, faults>>

(* The round is committed, but its entry cannot be written. *)
PublishFails(t) ==
  /\ t.pc = "publish"
  /\ Fault("fail")
  /\ Ends(t)
  /\ UNCHANGED <<blobs, created, leases, pass>>

-----------------------------------------------------------------------------
(* Recomputing the season.                                                 *)

(* Mutant: a call that finds a recomputation under way only waits for it. *)
RecomputeSeasonJoins(h) ==
  IF pass[h].pc # "idle" THEN UNCHANGED pass
  ELSE pass' = [pass EXCEPT ![h].pc = "lock"]

(* A call that finds a recomputation under way has it run once more. *)
RecomputeSeason(h) ==
  IF pass[h].pc # "idle" THEN pass' = [pass EXCEPT ![h].dirty = TRUE]
  ELSE pass' = [pass EXCEPT ![h].pc = "lock"]

Recompute(t) ==
  /\ t.pc = "recompute"
  /\ RecomputeSeason(t.host)
  /\ Ends(t)
  /\ UNCHANGED <<blobs, created, leases, faults>>

(* Mutant: the wish for another pass outlives the pass. *)
EndsPassStillDirty(h) ==
  /\ pass' = [pass EXCEPT ![h] = IF @.dirty THEN [NoPass EXCEPT !.pc = "lock", !.dirty = TRUE]
                                 ELSE NoPass]
  /\ lock' = IF lock = h THEN None ELSE lock
  /\ builder' = IF builder = h THEN None ELSE builder

(* A pass is over, done or failed. *)
EndsPass(h) ==
  /\ pass' = [pass EXCEPT ![h] = IF @.dirty THEN [NoPass EXCEPT !.pc = "lock"] ELSE NoPass]
  /\ lock' = IF lock = h THEN None ELSE lock
  /\ builder' = IF builder = h THEN None ELSE builder

TakeLock(h) ==
  /\ pass[h].pc = "lock" /\ lock = None
  /\ lock' = h
  /\ pass' = [pass EXCEPT ![h].pc = "rounds", ![h].listed = season.listed,
                          ![h].unread = season.listed]
  /\ UNCHANGED <<blobs, created, tasks, writer, builder, faults>>

(* A minute of waiting was not enough. *)
GivesUp(h) ==
  /\ pass[h].pc = "lock" /\ lock \notin {None, h}
  /\ Fault("giveUp")
  /\ EndsPass(h)
  /\ UNCHANGED <<blobs, created, tasks, writer>>

(* The rounds are read in any order. *)
ReadRound(h) ==
  /\ pass[h].pc = "rounds"
  /\ \E r \in pass[h].unread :
       pass' = [pass EXCEPT ![h].unread = @ \ {r},
                            ![h].table[r] = IF Completed(record[r]) THEN record[r] ELSE 0]
  /\ UNCHANGED <<blobs, created, tasks, leases, faults>>

(* A round that cannot be read is left out. *)
SkipRound(h) ==
  /\ pass[h].pc = "rounds"
  /\ Fault("unread")
  /\ \E r \in pass[h].unread : pass' = [pass EXCEPT ![h].unread = @ \ {r}]
  /\ UNCHANGED <<blobs, created, tasks, leases>>

(* The whole season blob is replaced, without its lease. *)
SwapSeason(h) ==
  /\ pass[h].pc = "rounds" /\ pass[h].unread = {}
  /\ IF writer # None
     THEN EndsPass(h) /\ UNCHANGED season
     ELSE /\ season' = [listed |-> pass[h].listed, league |-> pass[h].table]
          /\ pass' = [pass EXCEPT ![h].pc = "results"]
          /\ UNCHANGED <<lock, builder>>
  /\ UNCHANGED <<record, results, index, created, tasks, writer, faults>>

SwapResults(h) ==
  /\ pass[h].pc = "results"
  /\ results' = pass[h].table
  /\ pass' = [pass EXCEPT ![h].pc = "index"]
  /\ UNCHANGED <<record, season, index, created, tasks, leases, faults>>

(* Under the lease of rounds.json every entry is made anew from its round. *)
RebuildIndex(h) ==
  /\ pass[h].pc = "index" /\ builder = None
  /\ builder' = h
  /\ pass' = [pass EXCEPT ![h].pc = "copy",
                          ![h].table = [r \in Rounds |-> IF index[r] = 0 THEN 0 ELSE record[r]]]
  /\ UNCHANGED <<blobs, created, tasks, writer, lock, faults>>

SwapIndex(h) ==
  /\ pass[h].pc = "copy"
  /\ IF builder = h THEN index' = pass[h].table ELSE UNCHANGED index
  /\ EndsPass(h)
  /\ UNCHANGED <<record, season, results, created, tasks, writer, faults>>

(* Some read or write of a pass fails. *)
PassFails(h) ==
  /\ pass[h].pc \notin {"idle", "lock"}
  /\ Fault("fail")
  /\ EndsPass(h)
  /\ UNCHANGED <<blobs, created, tasks, writer>>

-----------------------------------------------------------------------------
(* The host dies with its requests and its pass; their leases run out. *)
Crash(h) ==
  /\ Fault("crash")
  /\ pass' = [pass EXCEPT ![h] = NoPass]
  /\ tasks' = {t \in tasks : t.host # h}
  /\ UNCHANGED <<blobs, created, leases>>

(* The lock also lapses when its holder cannot renew it. *)
Lapse ==
  /\ \/ /\ writer # None /\ ~\E t \in tasks : t.round = writer /\ t.pc = "leased"
        /\ writer' = None
        /\ UNCHANGED <<lock, builder, faults>>
     \/ /\ builder # None /\ pass[builder].pc # "copy"
        /\ builder' = None
        /\ UNCHANGED <<writer, lock, faults>>
     \/ /\ lock # None
        /\ IF pass[lock].pc \in {"idle", "lock"} THEN UNCHANGED faults ELSE Fault("lapse")
        /\ lock' = None
        /\ UNCHANGED <<writer, builder>>
  /\ UNCHANGED <<blobs, created, tasks, pass>>

-----------------------------------------------------------------------------
(* Without creations in the world, the rounds are there from the start. *)
Init ==
  /\ faults \in [kinds : Worlds, count : {0}]
  /\ LET created0 == IF "create" \in world THEN {} ELSE Rounds
         record0 == [r \in Rounds |-> IF r \in created0 THEN 1 ELSE 0]
     IN /\ record = record0 /\ index = record0 /\ created = created0
        /\ season = [NoSeason EXCEPT !.listed = created0]
  /\ results = Nothing
  /\ tasks = {}
  /\ writer = None /\ lock = None /\ builder = None
  /\ pass = [h \in Hosts |-> NoPass]

Proceeds(t) ==
  \/ WriteRound(t) \/ TakeLease(t) \/ Append(t) \/ AppendFails(t) \/ Fallback(t)
  \/ Publish(t) \/ Recompute(t)

Computes(h) ==
  \/ TakeLock(h) \/ ReadRound(h) \/ SwapSeason(h) \/ SwapResults(h)
  \/ RebuildIndex(h) \/ SwapIndex(h)

Quiet ==
  /\ tasks = {} /\ writer = None /\ lock = None /\ builder = None
  /\ \A h \in Hosts : pass[h].pc = "idle"

(* The bounds may allow nothing more. *)
AtRest == Quiet /\ UNCHANGED vars

Next ==
  \/ \E t \in tasks : Proceeds(t) \/ PublishFails(t)
  \/ \E h \in Hosts :
       \/ \E r \in Rounds : BeginCreate(r, h) \/ Commit(r, h) \/ RecomputeRound(r, h)
       \/ Computes(h) \/ GivesUp(h) \/ SkipRound(h) \/ PassFails(h) \/ Crash(h)
  \/ Lapse \/ AtRest

Spec == Init /\ [][Next]_vars

(* Hosts run what they have started, and leases end. *)
TaskOf(h) == \E t \in {t \in tasks : t.host = h} : Proceeds(t)
Fairness ==
  /\ \A h \in Hosts : SF_vars(Computes(h)) /\ SF_vars(TaskOf(h))
  /\ WF_vars(Lapse)

FairSpec == Spec /\ Fairness

-----------------------------------------------------------------------------
(* Properties.                                                             *)

(* Recomputations neither fail nor lose their lock, and no creation writes *)
(* the season meanwhile: it does so without regard to them.                *)
Undisturbed == world \intersect {"create", "fail", "unread", "giveUp", "lapse", "crash"} = {}

(* When all is quiet, the league and the results count every completed     *)
(* round as it stands, however the calls of several hosts overlapped       *)
(* (recomputeSeason: one pass per host at a time, one per season).         *)
LeagueIsCurrent ==
  Quiet /\ Undisturbed =>
    \A r \in season.listed : Completed(record[r]) =>
      season.league[r] = record[r] /\ results[r] = record[r]

(* When all is quiet, each round's entry in rounds.json shows the round as *)
(* it stands, if no two requests for one round overlapped: neither a       *)
(* rebuilt index nor a late entry is left behind (updateRoundsIndex).      *)
IndexIsCurrent ==
  Quiet /\ world \intersect {"overlap", "fail", "crash"} = {} =>
    \A r \in created : index[r] = record[r]

(* League and results are of the same pass when all is quiet and no pass   *)
(* broke off between the two.                                              *)
ResultsMatchLeague ==
  Quiet /\ world \intersect {"create", "fail", "crash", "lapse"} = {} => results = season.league

(* Both of a season's tables are right, and right together.                *)
SeasonIsCurrent == LeagueIsCurrent /\ ResultsMatchLeague

(* Every recomputation ends. *)
RecomputeEnds == \A h \in Hosts : pass[h].pc # "idle" ~> pass[h].pc = "idle"

=============================================================================
