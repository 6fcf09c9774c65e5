------------------------------ MODULE Rescoring ------------------------------
(***************************************************************************)
(* The rescoring of one Locked round.  An administrator's request takes a  *)
(* guard blob, writes the status of a job and queues it; a worker scores   *)
(* the tracks of the round as it read it, for minutes and without a lease, *)
(* and applies what it found under the round's lease.  Meanwhile flights   *)
(* are uploaded, entered by hand or removed.                               *)
(***************************************************************************)
EXTENDS Naturals, FiniteSets

CONSTANTS
  Slots,
  Jobs,        \* requests, each of which draws the id of its job
  Workers,     \* concurrent invocations of the queue worker
  Worlds,      \* BOUND: sets of kinds of rarer event that may happen together
  MaxDequeue,  \* deliveries of a message before it is poison
  MaxFlights,  \* BOUND: flights
  MaxFaults    \* BOUND: faults

VARIABLES
  flight,   \* the flight of each slot
  guard,    \* rescore-jobs/active/{round}.json: "free", "held", or "stale" after 12 minutes
  job,      \* rescore-jobs/{job}.json: the job's status
  asking,   \* what each request is doing
  queue,    \* messages waiting: a job and its deliveries so far
  run,      \* what each invocation is doing
  ids,      \* flight ids in use
  faults    \* the kinds of rarer event that may happen, and how many faults have

requests == <<guard, job, asking>>
vars == <<flight, requests, queue, run, ids, faults>>

-----------------------------------------------------------------------------
(* "score" is the flight whose track the score was computed from; that of  *)
(* an entry made by hand is entered with it.                               *)
NoFlight == [id |-> 0, manual |-> FALSE, score |-> 0]
NoUpdates == [s \in Slots |-> 0]
Idle == [pc |-> "idle", job |-> 0, count |-> 0, holds |-> TRUE, updates |-> NoUpdates,
         partial |-> FALSE, throws |-> FALSE]

Ended == {"completed", "partial", "failed"}
Messages == [job : Jobs, count : 0 .. MaxDequeue - 1]

TypeOK ==
  /\ flight \in [Slots -> [id : 0 .. ids, manual : BOOLEAN, score : 0 .. ids]]
  /\ guard \in {"free", "held", "stale"}
  /\ job \in [Jobs -> {"none", "queued", "running"} \union Ended]
  /\ asking \in [Jobs -> {"new", "create", "look", "replace", "recreate", "write", "send",
                          "release", "over"}]
  /\ queue \subseteq Messages
  /\ run \in [Workers -> [pc : {"idle", "begin", "score", "commit", "finish", "catch", "release"},
                          job : Jobs \union {0}, count : 0 .. MaxDequeue, holds : BOOLEAN,
                          updates : [Slots -> 0 .. ids], partial : BOOLEAN, throws : BOOLEAN]]
  /\ ids \in 0 .. MaxFlights /\ faults \in [kinds : Worlds, count : 0 .. MaxFaults]

world == faults.kinds

Fault(kind) ==
  /\ kind \in world
  /\ faults.count < MaxFaults
  /\ faults' = [faults EXCEPT !.count = @ + 1]

-----------------------------------------------------------------------------
(* The flights of the round, each written under its lease.                 *)

NewFlight(s, manual) ==
  /\ ids < MaxFlights
  /\ ids' = ids + 1
  /\ flight' = [flight EXCEPT ![s] = [id |-> ids', manual |-> manual,
                                      score |-> IF manual THEN 0 ELSE ids']]
  /\ UNCHANGED <<requests, queue, run, faults>>

Upload(s) == NewFlight(s, FALSE)
EnterByHand(s) == "manual" \in world /\ NewFlight(s, TRUE)

Remove(s) ==
  /\ "delete" \in world /\ flight[s].id # 0
  /\ flight' = [flight EXCEPT ![s] = NoFlight]
  /\ UNCHANGED <<requests, queue, run, ids, faults>>

-----------------------------------------------------------------------------
(* rescoreRound and its guard.                                             *)

Does(j, at, next) == asking[j] = at /\ asking' = [asking EXCEPT ![j] = next]

Ask(j) == Does(j, "new", "create") /\ UNCHANGED <<flight, guard, job, queue, run, ids, faults>>

(* acquireActiveGuard.  The blob is created only if there is none.         *)
Create(j) ==
  /\ IF guard = "free"
     THEN guard' = "held" /\ Does(j, "create", "write")
     ELSE UNCHANGED guard /\ Does(j, "create", "look")
  /\ UNCHANGED <<flight, job, queue, run, ids, faults>>

(* It was released since, or is in the way, or is old enough to be deleted. *)
Look(j) ==
  /\ Does(j, "look", CASE guard = "free" -> "recreate"
                       [] guard = "held" -> "over"
                       [] guard = "stale" -> "replace")
  /\ UNCHANGED <<flight, guard, job, queue, run, ids, faults>>

Replace(j) ==
  /\ Does(j, "replace", "recreate")
  /\ guard' = "free"
  /\ UNCHANGED <<flight, job, queue, run, ids, faults>>

Recreate(j) ==
  /\ IF guard = "free"
     THEN guard' = "held" /\ Does(j, "recreate", "write")
     ELSE UNCHANGED guard /\ Does(j, "recreate", "over")
  /\ UNCHANGED <<flight, job, queue, run, ids, faults>>

WriteQueued(j) ==
  /\ Does(j, "write", "send")
  /\ job' = [job EXCEPT ![j] = "queued"]
  /\ UNCHANGED <<flight, guard, queue, run, ids, faults>>

Send(j) ==
  /\ Does(j, "send", "over")
  /\ queue' = queue \union {[job |-> j, count |-> 0]}
  /\ UNCHANGED <<flight, guard, job, run, ids, faults>>

(* The job is not written, or not queued, or is but nobody hears of it.    *)
(* Mutant: a job that could not be queued leaves the guard. *)
RequestFailsHolding(j) ==
  /\ \/ Does(j, "write", "over") /\ Fault("status") /\ UNCHANGED queue
     \/ Does(j, "send", "over") /\ Fault("send") /\ UNCHANGED queue
     \/ Does(j, "send", "over") /\ Fault("lostSend")
        /\ queue' = queue \union {[job |-> j, count |-> 0]}
  /\ UNCHANGED <<flight, guard, job, run, ids>>
RequestFails(j) ==
  /\ \/ Does(j, "write", "release") /\ Fault("status") /\ UNCHANGED queue
     \/ Does(j, "send", "release") /\ Fault("send") /\ UNCHANGED queue
     \/ Does(j, "send", "release") /\ Fault("lostSend")
        /\ queue' = queue \union {[job |-> j, count |-> 0]}
  /\ UNCHANGED <<flight, guard, job, run, ids>>

GiveBack(j) ==
  /\ Does(j, "release", "over")
  /\ guard' = "free"
  /\ UNCHANGED <<flight, job, queue, run, ids, faults>>

RequestDies(j) ==
  /\ \E at \in {"write", "send", "release"} : Does(j, at, "over")
  /\ Fault("lostRequest")
  /\ UNCHANGED <<flight, guard, job, queue, run, ids>>

(* Twelve minutes have passed.                                             *)
GuardAges ==
  /\ guard = "held" /\ guard' = "stale"
  /\ Fault("stale")
  /\ UNCHANGED <<flight, job, asking, queue, run, ids>>

-----------------------------------------------------------------------------
(* rescoreWorker.                                                          *)

At(w, pc) == run[w].pc = pc
Goto(w, pc) == run' = [run EXCEPT ![w].pc = pc]
Frame == UNCHANGED <<asking, ids>>

Dequeue(w, m) ==
  /\ At(w, "idle")
  /\ run' = [run EXCEPT ![w] = [Idle EXCEPT !.pc = "begin", !.job = m.job, !.count = m.count + 1]]
  /\ queue' = queue \ {m}
  /\ UNCHANGED <<flight, guard, job, faults>> /\ Frame

Begin(w) ==
  /\ At(w, "begin")
  /\ IF job[run[w].job] = "none"
     THEN Goto(w, "release") /\ UNCHANGED job
     ELSE Goto(w, "score") /\ job' = [job EXCEPT ![run[w].job] = "running"]
  /\ UNCHANGED <<flight, guard, queue, faults>> /\ Frame

(* buildRescoreUpdates: each track of the round as it was read is scored,  *)
(* or fails to be, or is left when the time is up.                         *)
Scorable == {s \in Slots : flight[s].id # 0 /\ ~flight[s].manual}

Score(w) ==
  /\ At(w, "score")
  /\ \E scored \in SUBSET Scorable : \E left \in SUBSET (Scorable \ scored) :
       run' = [run EXCEPT ![w].pc = "commit", ![w].partial = left # {},
                 ![w].updates = [s \in Slots |-> IF s \in scored THEN flight[s].id ELSE 0]]
  /\ UNCHANGED <<flight, guard, job, queue, faults>> /\ Frame

IsCurrent(s, id) == ~flight[s].manual /\ flight[s].id = id

Commit(w) ==
  /\ At(w, "commit")
  /\ LET updates == run[w].updates
     IN flight' = [s \in Slots |->
                     IF updates[s] # 0 /\ IsCurrent(s, updates[s])
                     THEN [flight[s] EXCEPT !.score = updates[s]] ELSE flight[s]]
  /\ Goto(w, "finish")
  /\ UNCHANGED <<guard, job, queue, faults>> /\ Frame

Finish(w) ==
  /\ At(w, "finish")
  /\ job' = [job EXCEPT ![run[w].job] = IF run[w].partial THEN "partial" ELSE "completed"]
  /\ Goto(w, "release")
  /\ UNCHANGED <<flight, guard, queue, faults>> /\ Frame

(* A read or a write fails: the job is marked as failed, even when its     *)
(* scores are in the round.                                                *)
WorkFails(w) ==
  /\ run[w].pc \in {"begin", "score", "commit", "finish"}
  /\ Fault("storage")
  /\ Goto(w, "catch")
  /\ UNCHANGED <<flight, guard, job, queue>> /\ Frame

(* Mutant: the catch only logs. *)
MarkFailedNot(w) ==
  /\ At(w, "catch")
  /\ Goto(w, "release")
  /\ UNCHANGED <<flight, guard, job, queue, faults>> /\ Frame
MarkFailed(w) ==
  /\ At(w, "catch")
  /\ job' = IF job[run[w].job] = "none" THEN job ELSE [job EXCEPT ![run[w].job] = "failed"]
  /\ Goto(w, "release")
  /\ UNCHANGED <<flight, guard, queue, faults>> /\ Frame

(* That fails too: the guard is released, and the message comes back.      *)
MarkFails(w) ==
  /\ At(w, "catch")
  /\ Fault("storage")
  /\ run' = [run EXCEPT ![w].pc = "release", ![w].throws = TRUE]
  /\ UNCHANGED <<flight, guard, job, queue>> /\ Frame

(* A message comes back to the queue, if this delivery still holds it and  *)
(* has not been the last.                                                  *)
ComesBack(w) ==
  IF run[w].holds /\ run[w].count < MaxDequeue
  THEN {[job |-> run[w].job, count |-> run[w].count]} ELSE {}

Release(w) ==
  /\ At(w, "release")
  /\ guard' = "free"
  /\ queue' = IF run[w].throws THEN queue \union ComesBack(w) ELSE queue
  /\ run' = [run EXCEPT ![w] = Idle]
  /\ UNCHANGED <<flight, job, faults>> /\ Frame

Crash(w) ==
  /\ ~At(w, "idle")
  /\ Fault("crash")
  /\ queue' = queue \union ComesBack(w)
  /\ run' = [run EXCEPT ![w] = Idle]
  /\ UNCHANGED <<flight, guard, job>> /\ Frame

(* The message is delivered again while this invocation still runs.        *)
Stall(w) ==
  /\ ~At(w, "idle") /\ run[w].holds
  /\ Fault("stall")
  /\ queue' = queue \union ComesBack(w)
  /\ run' = [run EXCEPT ![w].holds = FALSE]
  /\ UNCHANGED <<flight, guard, job>> /\ Frame

-----------------------------------------------------------------------------
Init ==
  /\ flight = [s \in Slots |-> NoFlight]
  /\ guard = "free" /\ job = [j \in Jobs |-> "none"] /\ asking = [j \in Jobs |-> "new"]
  /\ queue = {} /\ run = [w \in Workers |-> Idle] /\ ids = 0
  /\ faults \in [kinds : Worlds, count : {0}]

Requests(j) ==
  \/ Create(j) \/ Look(j) \/ Replace(j) \/ Recreate(j) \/ WriteQueued(j) \/ Send(j) \/ GiveBack(j)

Proceeds(w) ==
  \/ Begin(w) \/ Score(w) \/ Commit(w) \/ Finish(w) \/ MarkFailed(w) \/ Release(w)

Deliver(j) == \E w \in Workers, m \in {m \in queue : m.job = j} : Dequeue(w, m)

AtRest ==
  /\ queue = {} /\ \A w \in Workers : At(w, "idle")
  /\ \A j \in Jobs : asking[j] \in {"new", "over"}
  /\ UNCHANGED vars

Next ==
  \/ \E s \in Slots : Upload(s) \/ EnterByHand(s) \/ Remove(s)
  \/ \E j \in Jobs : Ask(j) \/ Requests(j) \/ RequestFails(j) \/ RequestDies(j) \/ Deliver(j)
  \/ GuardAges \/ AtRest
  \/ \E w \in Workers : Proceeds(w) \/ WorkFails(w) \/ MarkFails(w) \/ Crash(w) \/ Stall(w)

Spec == Init /\ [][Next]_vars

(* The queue delivers, and the host runs what it has started.              *)
Fairness ==
  /\ \A j \in Jobs : WF_vars(Requests(j)) /\ SF_vars(Deliver(j))
  /\ \A w \in Workers : WF_vars(Proceeds(w))

FairSpec == Spec /\ Fairness

-----------------------------------------------------------------------------
(* The score of a flight is that of its own track, and one entered by hand *)
(* keeps the score it came with: a job that scored the track of a flight   *)
(* which was replaced meanwhile leaves the new one alone (applyUpdates).   *)
ScoreIsItsOwn ==
  \A s \in Slots : flight[s].score = IF flight[s].manual THEN 0 ELSE flight[s].id

(* A guard in the way of new jobs belongs to a request that is going to    *)
(* queue a job or give up, to a message or to a worker: no refused         *)
(* enqueue, missing job or failed job leaves it behind (rescoreRound's     *)
(* catch, rescoreWorker's finally).  A host that dies leaves it until it   *)
(* is stale.                                                               *)
Holds(j) == asking[j] \in {"write", "send", "release"}
GuardIsServed ==
  guard = "held" /\ {"crash", "lostRequest"} \intersect world = {} =>
    \/ \E j \in Jobs : Holds(j)
    \/ queue # {}
    \/ \E w \in Workers : ~At(w, "idle")

(* A job neither touches what is not its own nor stays in the way.         *)
JobsAreSafe == ScoreIsItsOwn /\ GuardIsServed

(* A job whose message was queued comes to an end: completed, partial or   *)
(* failed.  (Not when its message is poison, which takes two faults here.) *)
JobsEnd == \A j \in Jobs : (\E m \in queue : m.job = j) ~> job[j] \in Ended
=============================================================================
