------------------------------- MODULE Flights -------------------------------
(***************************************************************************)
(* The flight of one slot of one round: its IGC blob, the validation of    *)
(* its signature by the FAI server through a queue and a worker, the       *)
(* override of an invalid verdict, and whether the score counts it.        *)
(* Transactions under the round's lease are single steps; what a request   *)
(* reads before them, and does after them, are steps of their own.         *)
(***************************************************************************)
EXTENDS Naturals, FiniteSets

CONSTANTS
  Workers,     \* concurrent invocations of the queue worker
  Pilots,
  None,        \* nobody: no pilot, no holder of the guard
  Worlds,      \* BOUND: sets of kinds of rarer event that may happen together
  MaxDequeue,  \* deliveries of a message before it is poison
  MaxIds,      \* BOUND: flights and attempts
  MaxFaults    \* BOUND: faults, and times a job is sent again by hand

ASSUME FlightsAssumption ==
  /\ None \notin Workers \union Pilots /\ Pilots # {}
  /\ UNION Worlds \subseteq
       {"manual", "delete", "update", "config", "allow", "revalidate", "reseat",
        "complete", "crash", "stall", "lapse", "error", "result", "lostSend",
        "lostRequest", "renewal", "redispatch", "orphans"}
  /\ MaxDequeue \in Nat \ {0}
  /\ {MaxIds, MaxFaults} \subseteq Nat

VARIABLES
  status,   \* of the round: Confirmed (its roster is open), Locked or Complete
  pilot,    \* who sits in the slot
  flight,   \* slot.flight
  counted,  \* the flight the round was last scored with; 0 when it counted none
  blobs,    \* IGC blobs, by the id of the flight they were uploaded for
  enabled,  \* config.flightSignatureValidationEnabled
  durable,  \* the validation-result blob of each attempt
  guard,    \* the worker that holds the lease of igc-validation/active.json
  calls,    \* how often the IGC of each attempt was sent to the FAI server
  asked,    \* requests that have passed the checks they make without the lease
  unsent,   \* attempts written to the round whose job is not queued yet
  trash,    \* superseded IGC blobs that a request is about to delete
  queue,    \* messages waiting: a job and its deliveries so far
  poison,   \* jobs whose message was given up by the host
  run,      \* what each invocation is doing
  ids,      \* flight and attempt ids in use
  faults    \* the kinds of rarer event that may happen, and how many faults have

round == <<status, pilot, flight, counted>>
requests == <<asked, unsent, trash>>
messages == <<queue, poison>>
vars == <<round, blobs, enabled, durable, guard, calls, requests, messages, run, ids, faults>>

-----------------------------------------------------------------------------
(* "passed" is valid or unverified: the score counts both.  "failed" is     *)
(* unverified with the FAI status WORKER_FAILED.                           *)
Verdicts == {"passed", "invalid"}
Signatures == Verdicts \union {"none", "pending", "failed"}

NoFlight == [id |-> 0, igc |-> 0, manual |-> FALSE, sig |-> "none",
             attempt |-> 0, overridden |-> FALSE]
NoJob == [id |-> 0, attempt |-> 0]
Idle == [pc |-> "idle", job |-> NoJob, count |-> 0, holds |-> TRUE, result |-> "none"]

Jobs == [id : 1 .. MaxIds, attempt : 1 .. MaxIds]

Runs == [pc : {"idle", "resolve", "guard", "check", "call", "calling", "record", "apply",
               "publish"},
         job : Jobs \union {NoJob}, count : 0 .. MaxDequeue, holds : BOOLEAN,
         result : Signatures]

TypeOK ==
  /\ status \in {"Confirmed", "Locked", "Complete"}
  /\ pilot \in Pilots \union {None}
  /\ flight \in [id : 0 .. MaxIds, igc : 0 .. MaxIds, manual : BOOLEAN, sig : Signatures,
                 attempt : 0 .. MaxIds, overridden : BOOLEAN]
  /\ counted \in 0 .. MaxIds /\ blobs \subseteq 1 .. MaxIds /\ enabled \in BOOLEAN
  /\ durable \in [1 .. MaxIds -> Verdicts \union {"none"}]
  /\ guard \in Workers \union {None}
  /\ calls \in [1 .. MaxIds -> Nat]
  /\ asked \subseteq [op : {"upload", "manual", "delete", "revalidate"},
                      pilot : Pilots \union {None}, id : 0 .. MaxIds, enabled : BOOLEAN]
  /\ unsent \subseteq [job : Jobs, old : 0 .. MaxIds, by : {"upload", "revalidate", "script"}]
  /\ trash \subseteq 1 .. MaxIds
  /\ queue \subseteq [job : Jobs, count : 0 .. MaxDequeue - 1]
  /\ poison \subseteq Jobs
  /\ run \in [Workers -> Runs]
  /\ ids \in 0 .. MaxIds /\ faults \in [kinds : Worlds, count : 0 .. MaxFaults]

world == faults.kinds

Fault(kind) ==
  /\ kind \in world
  /\ faults.count < MaxFaults
  /\ faults' = [faults EXCEPT !.count = @ + 1]

(* Scoring leaves a flight out when its signature is invalid and no        *)
(* administrator has overridden that.                                      *)
Disqualified(f) == ~f.manual /\ ~f.overridden /\ enabled /\ f.sig = "invalid"

Counted(f) == IF Disqualified(f) THEN 0 ELSE f.id

(* A write of the slot's flight that scores the round, or that does not. *)
WriteScored(f) == flight' = f /\ counted' = Counted(f) /\ UNCHANGED <<status, pilot>>
WriteUnscored(f) == flight' = f /\ UNCHANGED <<status, pilot, counted>>

-----------------------------------------------------------------------------
(* Requests for the slot.                                                  *)

(* flight-igcs/{roundId}/{pilotId}/{flightId}.igc *)
IgcPath(id) == id

Request(op) == [op |-> op, pilot |-> pilot, id |-> 0, enabled |-> enabled]

(* The upload is read, scored and stored under a fresh id. *)
BeginUpload ==
  /\ status = "Locked" /\ pilot # None
  /\ ids < MaxIds
  /\ ids' = ids + 1
  /\ blobs' = blobs \union {IgcPath(ids')}
  /\ asked' = asked \union {[Request("upload") EXCEPT !.id = ids']}
  /\ UNCHANGED <<round, enabled, durable, guard, calls, unsent, trash, messages, run, faults>>

Begin(op) ==
  /\ op \in world
  /\ CASE op = "manual" -> status = "Locked" /\ pilot # None
       [] op = "delete" -> status = "Locked" /\ flight.igc # 0
       [] op = "revalidate" -> enabled
  /\ asked' = asked \union {Request(op)}
  /\ UNCHANGED <<round, blobs, enabled, durable, guard, calls, unsent, trash, messages, run, ids,
                 faults>>

Uploaded(r) ==
  [NoFlight EXCEPT !.id = r.id, !.igc = IgcPath(r.id),
                   !.sig = IF r.enabled THEN "pending" ELSE "none",
                   !.attempt = IF r.enabled THEN r.id ELSE 0]

(* Mutant: the round is not looked at again under the lease. *)
StillUploadableUnchecked(r) == pilot = r.pilot /\ enabled = r.enabled

StillUploadable(r) == status = "Locked" /\ pilot = r.pilot /\ enabled = r.enabled

CommitUpload(r) ==
  /\ r \in asked /\ r.op = "upload"
  /\ StillUploadable(r)
  /\ asked' = asked \ {r}
  /\ WriteUnscored(Uploaded(r))
  /\ LET old == {flight.igc} \ {0, IgcPath(r.id)}
     IN IF r.enabled
        THEN /\ unsent' = unsent \union
                  {[job |-> [id |-> r.id, attempt |-> r.id],
                    old |-> IF old = {} THEN 0 ELSE flight.igc, by |-> "upload"]}
             /\ UNCHANGED trash
        ELSE trash' = trash \union old /\ UNCHANGED unsent
  /\ UNCHANGED <<blobs, enabled, durable, guard, calls, messages, run, ids, faults>>

(* Mutant: a refused upload keeps its blob. *)
CommitRefusedLeavesBlob(r) ==
  /\ r \in asked /\ r.op = "upload"
  /\ IF StillUploadable(r) THEN Fault("error") ELSE UNCHANGED faults
  /\ asked' = asked \ {r}
  /\ UNCHANGED <<round, blobs, enabled, durable, guard, calls, unsent, trash, messages, run, ids>>

(* Whatever stops the commit, the request deletes the blob it has stored. *)
CommitRefused(r) ==
  /\ r \in asked /\ r.op = "upload"
  /\ IF StillUploadable(r) THEN Fault("error") ELSE UNCHANGED faults
  /\ asked' = asked \ {r}
  /\ blobs' = blobs \ {IgcPath(r.id)}
  /\ UNCHANGED <<round, enabled, durable, guard, calls, unsent, trash, messages, run, ids>>

(* The commit is written, but the lease was not renewed: reported as an error. *)
CommitUnrenewed(r) ==
  /\ r \in asked /\ r.op = "upload"
  /\ StillUploadable(r)
  /\ Fault("renewal")
  /\ asked' = asked \ {r}
  /\ WriteUnscored(Uploaded(r))
  /\ blobs' = blobs \ {IgcPath(r.id)}
  /\ UNCHANGED <<enabled, durable, guard, calls, unsent, trash, messages, run, ids>>

(* The round's status is not looked at again. *)
CommitManual(r) ==
  /\ r \in asked /\ r.op = "manual"
  /\ pilot # None /\ ids < MaxIds
  /\ ids' = ids + 1
  /\ asked' = asked \ {r}
  /\ trash' = trash \union ({flight.igc} \ {0})
  /\ WriteUnscored([NoFlight EXCEPT !.id = ids', !.manual = TRUE])
  /\ UNCHANGED <<blobs, enabled, durable, guard, calls, unsent, messages, run, faults>>

CommitDelete(r) ==
  /\ r \in asked /\ r.op = "delete"
  /\ asked' = asked \ {r}
  /\ IF flight.igc = 0 THEN UNCHANGED <<round, trash>>
     ELSE WriteUnscored(NoFlight) /\ trash' = trash \union {flight.igc}
  /\ UNCHANGED <<blobs, enabled, durable, guard, calls, unsent, messages, run, ids, faults>>

Revalidated(a) == [flight EXCEPT !.sig = "pending", !.attempt = a]

CommitRevalidate(r) ==
  /\ r \in asked /\ r.op = "revalidate"
  /\ flight.igc \in blobs /\ ~flight.manual /\ ids < MaxIds
  /\ ids' = ids + 1
  /\ asked' = asked \ {r}
  /\ WriteScored(Revalidated(ids'))
  /\ \/ /\ unsent' = unsent \union {[job |-> [id |-> flight.id, attempt |-> ids'], old |-> 0,
                                     by |-> "revalidate"]}
        /\ UNCHANGED faults
     \/ Fault("renewal") /\ UNCHANGED unsent
  /\ UNCHANGED <<blobs, enabled, durable, guard, calls, trash, messages, run>>

(* The job is sent, then the IGC blob the upload has replaced is deleted. *)
Send(u) ==
  /\ u \in unsent
  /\ unsent' = unsent \ {u}
  /\ queue' = queue \union {[job |-> u.job, count |-> 0]}
  /\ trash' = trash \union ({u.old} \ {0})
  /\ UNCHANGED <<round, blobs, enabled, durable, guard, calls, asked, poison, run, ids, faults>>

IsCurrent(job) == flight.id = job.id /\ flight.attempt = job.attempt

(* Mutant: the request leaves the flight as it is when the queue refuses the job. *)
SendFailsPending(u) ==
  /\ u \in unsent
  /\ Fault("lostSend")
  /\ unsent' = unsent \ {u}
  /\ trash' = trash \union ({u.old} \ {0})
  /\ UNCHANGED <<round, blobs, enabled, durable, guard, calls, asked, messages, run, ids>>

(* The queue refuses the job: the request lets the flight pass as          *)
(* unverified, a script gives up.                                          *)
SendFails(u) ==
  /\ u \in unsent
  /\ Fault("lostSend")
  /\ unsent' = unsent \ {u}
  /\ trash' = trash \union ({u.old} \ {0})
  /\ LET fallback == [flight EXCEPT !.sig = "passed"]
     IN IF ~IsCurrent(u.job) \/ u.by = "script" THEN UNCHANGED round
        ELSE IF u.by = "revalidate" THEN WriteScored(fallback)
        ELSE WriteUnscored(fallback)
  /\ UNCHANGED <<blobs, enabled, durable, guard, calls, asked, messages, run, ids>>

DeleteOldIgc(i) ==
  /\ i \in trash
  /\ trash' = trash \ {i}
  /\ blobs' = blobs \ {i}
  /\ UNCHANGED <<round, enabled, durable, guard, calls, asked, unsent, messages, run, ids, faults>>

(* The host of a request dies before, or after, its commit. *)
RequestDies ==
  /\ Fault("lostRequest")
  /\ \/ \E r \in asked : asked' = asked \ {r} /\ UNCHANGED <<unsent, trash>>
     \/ \E u \in unsent : unsent' = unsent \ {u} /\ UNCHANGED <<asked, trash>>
     \/ \E i \in trash : trash' = trash \ {i} /\ UNCHANGED <<asked, unsent>>
  /\ UNCHANGED <<round, blobs, enabled, durable, guard, calls, messages, run, ids>>

-----------------------------------------------------------------------------
(* Requests of a single transaction, and the round.                        *)

(* logFlight: a flight without a track. *)
LogFlight(manual) ==
  /\ "update" \in world
  /\ status = "Locked" /\ pilot # None /\ flight = NoFlight /\ ids < MaxIds
  /\ ids' = ids + 1
  /\ WriteUnscored([NoFlight EXCEPT !.id = ids', !.manual = manual])
  /\ UNCHANGED <<blobs, enabled, durable, guard, calls, requests, messages, run, faults>>

UpdateFlight(manual) ==
  /\ "update" \in world
  /\ status = "Locked" /\ flight # NoFlight
  /\ WriteUnscored([flight EXCEPT !.manual = manual])
  /\ UNCHANGED <<blobs, enabled, durable, guard, calls, requests, messages, run, ids, faults>>

(* The IGC blob, if any, is left behind. *)
DeleteFlight ==
  /\ "update" \in world
  /\ status = "Locked" /\ flight # NoFlight
  /\ WriteUnscored(NoFlight)
  /\ UNCHANGED <<blobs, enabled, durable, guard, calls, requests, messages, run, ids, faults>>

AllowIgc ==
  /\ "allow" \in world
  /\ flight # NoFlight /\ ~flight.manual
  /\ flight.overridden \/ flight.sig = "invalid"
  /\ WriteScored([flight EXCEPT !.overridden = TRUE])
  /\ UNCHANGED <<blobs, enabled, durable, guard, calls, requests, messages, run, ids, faults>>

Complete ==
  /\ "complete" \in world
  /\ status = "Locked"
  /\ status' = "Complete"
  /\ counted' = Counted(flight)
  /\ UNCHANGED <<pilot, flight, blobs, enabled, durable, guard, calls, requests, messages, run,
                 ids, faults>>

SetConfig ==
  /\ "config" \in world
  /\ enabled' = ~enabled
  /\ UNCHANGED <<round, blobs, durable, guard, calls, requests, messages, run, ids, faults>>

(* Unlocking the round and reopening its brief, and the way back. *)
Unlock == status = "Locked" /\ status' = "Confirmed" /\ UNCHANGED <<pilot, flight>>
Lock == status = "Confirmed" /\ status' = "Locked" /\ UNCHANGED <<pilot, flight>>

(* A pilot takes the empty slot, or gives it up: neither touches its flight. *)
RegisterSelf(p) == status = "Confirmed" /\ pilot = None /\ pilot' = p /\ UNCHANGED <<status, flight>>
UnregisterSelf ==
  status = "Confirmed" /\ pilot # None /\ pilot' = None /\ UNCHANGED <<status, flight>>

(* A coordinator removes the slot with what is in it. *)
RemovePilot == status = "Confirmed" /\ pilot' = None /\ flight' = NoFlight /\ UNCHANGED status

Reseat ==
  /\ "reseat" \in world
  /\ Unlock \/ Lock \/ UnregisterSelf \/ RemovePilot \/ \E p \in Pilots : RegisterSelf(p)
  /\ UNCHANGED <<counted, blobs, enabled, durable, guard, calls, requests, messages, run, ids,
                 faults>>

(* updateRound: another date scores the round anew, while it is not frozen. *)
UpdateRound ==
  /\ "reseat" \in world /\ status = "Confirmed"
  /\ counted' = Counted(flight)
  /\ UNCHANGED <<status, pilot, flight, blobs, enabled, durable, guard, calls, requests, messages,
                 run, ids, faults>>

-----------------------------------------------------------------------------
(* Scripts of the operators.                                               *)

(* pendingJobs, remainsEligible: a validation that waits without a result  *)
(* is sent once more, as the attempt it is, when its round is older than   *)
(* any request that could still be about to send it.                       *)
Redispatch ==
  /\ Fault("redispatch")
  /\ flight.sig = "pending" /\ flight.igc # 0 /\ ~flight.manual
  /\ durable[flight.attempt] = "none"
  /\ ~\E u \in unsent : u.job.attempt = flight.attempt
  /\ unsent' = unsent \union
       {[job |-> [id |-> flight.id, attempt |-> flight.attempt], old |-> 0, by |-> "script"]}
  /\ UNCHANGED <<round, blobs, enabled, durable, guard, calls, asked, trash, messages, run, ids>>

(* reconcileOrphanIgcs: a track that no flight names, and that is older    *)
(* than any request that may still name it.                                *)
DeleteOrphan(i) ==
  /\ "orphans" \in world
  /\ i \in blobs \ {flight.igc}
  /\ ~\E r \in asked : r.op = "upload" /\ IgcPath(r.id) = i
  /\ blobs' = blobs \ {i}
  /\ UNCHANGED <<round, enabled, durable, guard, calls, requests, messages, run, ids, faults>>

-----------------------------------------------------------------------------
(* The worker.                                                             *)

Releases(w) == guard' = IF guard = w THEN None ELSE guard

Finishes(w) == run' = [run EXCEPT ![w] = Idle] /\ UNCHANGED messages
Goes(w, pc) == run' = [run EXCEPT ![w].pc = pc] /\ UNCHANGED messages
GoesWith(w, pc, result) ==
  run' = [run EXCEPT ![w].pc = pc, ![w].result = result] /\ UNCHANGED messages

(* The invocation ends without being done with its message. *)
GivesBack(w) ==
  /\ run' = [run EXCEPT ![w] = Idle]
  /\ IF ~run[w].holds THEN UNCHANGED messages
     ELSE IF run[w].count < MaxDequeue
          THEN /\ queue' = queue \union {[job |-> run[w].job, count |-> run[w].count]}
               /\ UNCHANGED poison
          ELSE poison' = poison \union {run[w].job} /\ UNCHANGED queue

Forget(attempt) == durable' = [durable EXCEPT ![attempt] = "none"]

Applicable(job) == IsCurrent(job) /\ ~flight.manual

Dequeue(w, m) ==
  /\ run[w].pc = "idle"
  /\ m \in queue
  /\ queue' = queue \ {m}
  /\ IF ~Applicable(m.job)
     THEN Forget(m.job.attempt) /\ UNCHANGED run
     ELSE /\ run' = [run EXCEPT ![w] =
                       [pc |-> IF flight.sig = "pending" THEN "resolve" ELSE "apply",
                        job |-> m.job, count |-> m.count + 1, holds |-> TRUE,
                        result |-> flight.sig]]
          /\ UNCHANGED durable
  /\ UNCHANGED <<round, blobs, enabled, guard, calls, requests, poison, ids, faults>>

Resolve(w) ==
  /\ run[w].pc = "resolve"
  /\ LET result == durable[run[w].job.attempt]
     IN IF result # "none" THEN GoesWith(w, "apply", result) ELSE Goes(w, "guard")
  /\ UNCHANGED <<round, blobs, enabled, durable, guard, calls, requests, ids, faults>>

(* Mutant: the result is not looked for again under the guard. *)
AcquireUnchecked(w) ==
  /\ run[w].pc = "guard" /\ guard = None
  /\ IF run[w].job.id \in blobs
     THEN Goes(w, "check") /\ guard' = w
     ELSE GivesBack(w) /\ UNCHANGED guard
  /\ UNCHANGED <<round, blobs, enabled, durable, calls, requests, ids, faults>>

(* Under the guard: a result that another worker has left, or the IGC. *)
Acquire(w) ==
  /\ run[w].pc = "guard" /\ guard = None
  /\ LET result == durable[run[w].job.attempt]
     IN IF result # "none"
        THEN GoesWith(w, "apply", result) /\ UNCHANGED guard
        ELSE IF IgcPath(run[w].job.id) \in blobs
        THEN Goes(w, "check") /\ guard' = w
        ELSE GivesBack(w) /\ UNCHANGED guard
  /\ UNCHANGED <<round, blobs, enabled, durable, calls, requests, ids, faults>>

(* A copy of the message, with no deliveries, is queued in its place. *)
Contended(w) ==
  /\ run[w].pc = "guard" /\ guard \notin {None, w}
  /\ run' = [run EXCEPT ![w] = Idle]
  /\ queue' = queue \union {[job |-> run[w].job, count |-> 0]}
  /\ UNCHANGED <<round, blobs, enabled, durable, guard, calls, requests, poison, ids, faults>>

(* After the wait between two calls, the round and the config are read again. *)
Check(w) ==
  /\ run[w].pc = "check"
  /\ IF ~Applicable(run[w].job)
     THEN Finishes(w) /\ Forget(run[w].job.attempt) /\ Releases(w)
     ELSE /\ UNCHANGED durable
          /\ IF flight.sig # "pending"
             THEN GoesWith(w, "apply", flight.sig) /\ Releases(w)
             ELSE /\ UNCHANGED guard
                  /\ IF enabled THEN Goes(w, "call") ELSE GoesWith(w, "record", "passed")
  /\ UNCHANGED <<round, blobs, enabled, calls, requests, ids, faults>>

(* A guard that cannot be renewed lets no call through. *)
Call(w) ==
  /\ run[w].pc = "call"
  /\ IF guard = w
     THEN Goes(w, "calling") /\ calls' = [calls EXCEPT ![run[w].job.attempt] = @ + 1]
     ELSE GivesBack(w) /\ UNCHANGED calls
  /\ UNCHANGED <<round, blobs, enabled, durable, guard, requests, ids, faults>>

(* A call that fails leaves the signature unverified. *)
CallReturns(w) ==
  /\ run[w].pc = "calling"
  /\ \E verdict \in Verdicts : GoesWith(w, "record", verdict)
  /\ UNCHANGED <<round, blobs, enabled, durable, guard, calls, requests, ids, faults>>

(* The result is only ever created; the guard that was lost while the      *)
(* worker held it may or may not be reported when it is released.          *)
Record(w) ==
  /\ run[w].pc = "record"
  /\ IF durable[run[w].job.attempt] # "none"
     THEN GivesBack(w) /\ UNCHANGED durable
     ELSE /\ durable' = [durable EXCEPT ![run[w].job.attempt] = run[w].result]
          /\ Goes(w, "apply") \/ (guard # w /\ GivesBack(w))
  /\ Releases(w)
  /\ UNCHANGED <<round, blobs, enabled, calls, requests, ids, faults>>

(* The verdict is written with the attempt of its job. *)
Judged(job, result) == [flight EXCEPT !.sig = result, !.attempt = job.attempt]

(* Mutant: a verdict belongs to a flight, whatever its attempt. *)
VerdictOfFlight(job, result) ==
  IF flight.id = job.id /\ ~flight.manual /\ flight.sig # "failed"
  THEN {Judged(job, result)}
  ELSE {}

(* What the slot's flight becomes by a verdict, if the verdict is for it. *)
Verdict(job, result) ==
  IF Applicable(job) /\ flight.sig # "failed" THEN {Judged(job, result)} ELSE {}

Apply(w) ==
  /\ run[w].pc = "apply"
  /\ IF Verdict(run[w].job, run[w].result) = {}
     THEN Finishes(w) /\ Forget(run[w].job.attempt) /\ UNCHANGED round
     ELSE /\ \E f \in Verdict(run[w].job, run[w].result) : WriteScored(f)
          /\ Goes(w, "publish")
          /\ UNCHANGED durable
  /\ UNCHANGED <<blobs, enabled, guard, calls, requests, ids, faults>>

(* The verdict is written, but an error is reported. *)
ApplyUnrenewed(w) ==
  /\ run[w].pc = "apply"
  /\ Fault("renewal")
  /\ \E f \in Verdict(run[w].job, run[w].result) : WriteScored(f)
  /\ GivesBack(w)
  /\ UNCHANGED <<blobs, enabled, durable, guard, calls, requests, ids>>

(* The public index, the result blob and the season follow. *)
Publish(w) ==
  /\ run[w].pc = "publish"
  /\ Forget(run[w].job.attempt)
  /\ Finishes(w)
  /\ UNCHANGED <<round, blobs, enabled, guard, calls, requests, ids, faults>>

(* A read or a write fails.  A failed call is no error. *)
Throws(w) ==
  /\ run[w].pc \notin {"idle", "calling"}
  /\ IF run[w].pc = "record" THEN Fault("result") ELSE Fault("error")
  /\ Releases(w)
  /\ GivesBack(w)
  /\ UNCHANGED <<round, blobs, enabled, durable, calls, requests, ids>>

-----------------------------------------------------------------------------
(* Hosts, the guard and the poison queue.                                  *)

Crash(w) ==
  /\ run[w].pc # "idle"
  /\ Fault("crash")
  /\ GivesBack(w)
  /\ UNCHANGED <<round, blobs, enabled, durable, guard, calls, requests, ids>>

(* A stalled host no longer hides the message: it is delivered again. *)
Stall(w) ==
  /\ run[w].pc # "idle" /\ run[w].holds /\ run[w].count < MaxDequeue
  /\ Fault("stall")
  /\ queue' = queue \union {[job |-> run[w].job, count |-> run[w].count]}
  /\ run' = [run EXCEPT ![w].holds = FALSE]
  /\ UNCHANGED <<round, blobs, enabled, durable, guard, calls, requests, poison, ids>>

(* The guard ends a minute after its holder died, or failed to renew it.   *)
(* A call is shorter than what is left of the lease renewed before it.     *)
Lapse ==
  /\ guard # None
  /\ run[guard].pc # "calling"
  /\ IF run[guard].pc \in {"check", "call", "record"} THEN Fault("lapse") ELSE UNCHANGED faults
  /\ guard' = None
  /\ UNCHANGED <<round, blobs, enabled, durable, calls, requests, messages, run, ids>>

(* A result that was recorded is applied, unless it came after the look. *)
HandlePoison(job) ==
  /\ job \in poison
  /\ poison' = poison \ {job}
  /\ \E seen \in {durable[job.attempt], "none"} :
       IF seen # "none"
       THEN IF Verdict(job, seen) = {} THEN UNCHANGED round
            ELSE \E f \in Verdict(job, seen) : WriteScored(f)
       ELSE IF Applicable(job) /\ flight.sig = "pending"
            THEN WriteScored([flight EXCEPT !.sig = "failed"])
            ELSE UNCHANGED round
  /\ Forget(job.attempt)
  /\ UNCHANGED <<blobs, enabled, guard, calls, requests, queue, run, ids, faults>>

-----------------------------------------------------------------------------
Init ==
  /\ status = "Locked" /\ pilot = (CHOOSE p \in Pilots : TRUE) /\ flight = NoFlight /\ counted = 0
  /\ blobs = {} /\ enabled = TRUE
  /\ durable = [a \in 1 .. MaxIds |-> "none"]
  /\ guard = None
  /\ calls = [a \in 1 .. MaxIds |-> 0]
  /\ asked = {} /\ unsent = {} /\ trash = {} /\ queue = {} /\ poison = {}
  /\ run = [w \in Workers |-> Idle]
  /\ ids = 0 /\ faults \in [kinds : Worlds, count : {0}]

Requests ==
  \/ BeginUpload \/ \E op \in {"manual", "delete", "revalidate"} : Begin(op)
  \/ \E r \in asked :
       \/ CommitUpload(r) \/ CommitRefused(r) \/ CommitUnrenewed(r)
       \/ CommitManual(r) \/ CommitDelete(r) \/ CommitRevalidate(r)
  \/ \E u \in unsent : SendFails(u)
  \/ \E i \in trash : DeleteOldIgc(i)
  \/ \E manual \in BOOLEAN : LogFlight(manual) \/ UpdateFlight(manual)
  \/ DeleteFlight \/ AllowIgc \/ RequestDies
  \/ Redispatch \/ \E i \in blobs : DeleteOrphan(i)

Proceeds(w) ==
  \/ Resolve(w) \/ Acquire(w) \/ Contended(w) \/ Check(w) \/ Call(w) \/ CallReturns(w)
  \/ Record(w) \/ Apply(w) \/ Publish(w)

Fails(w) == ApplyUnrenewed(w) \/ Throws(w) \/ Crash(w) \/ Stall(w)

SendOf(a) == \E u \in {u \in unsent : u.job.attempt = a} : Send(u)
Deliver(a) == \E w \in Workers, m \in {m \in queue : m.job.attempt = a} : Dequeue(w, m)
Bury(a) == \E job \in {job \in poison : job.attempt = a} : HandlePoison(job)

NothingUnderWay ==
  /\ asked = {} /\ unsent = {} /\ trash = {} /\ queue = {} /\ poison = {} /\ guard = None
  /\ \A w \in Workers : run[w].pc = "idle"

(* The bounds may allow nothing more.  A request that has not committed, as *)
(* one that finds its target gone, may simply end.                          *)
AtRest == unsent = {} /\ queue = {} /\ poison = {} /\ UNCHANGED vars

Next ==
  \/ Requests \/ Complete \/ SetConfig \/ Reseat \/ UpdateRound \/ Lapse \/ AtRest
  \/ \E a \in 1 .. MaxIds : SendOf(a) \/ Deliver(a) \/ Bury(a)
  \/ \E w \in Workers : Proceeds(w) \/ Fails(w)

Spec == Init /\ [][Next]_vars

(* The queues deliver, the host runs what it has started and guards end. *)
Fairness ==
  /\ \A a \in 1 .. MaxIds : WF_vars(SendOf(a)) /\ SF_vars(Deliver(a)) /\ WF_vars(Bury(a))
  /\ \A w \in Workers : SF_vars(Proceeds(w))
  /\ WF_vars(Lapse)

FairSpec == Spec /\ Fairness

-----------------------------------------------------------------------------
(* Properties.                                                             *)

(* At most one call to the FAI server is under way, whatever guards lapse  *)
(* and hosts stall (withIgcValidationGuard, renewed before the call), and  *)
(* the IGC of an attempt leaves the system once, however often its message *)
(* is delivered, when its result gets recorded (createValidationResult).   *)
EgressOnce ==
  /\ Cardinality({w \in Workers : run[w].pc = "calling"}) <= 1
  /\ world \intersect {"crash", "lapse", "result", "update"} = {} =>
       \A a \in 1 .. MaxIds : calls[a] <= 1

(* Requests live to queue their jobs, no commit is taken for a failure,    *)
(* and no flight turns manual and back while its job passes.               *)
JobsAreSent == world \intersect {"lostRequest", "renewal", "update"} = {}

(* Every validation is settled in the end, or replaced. *)
PendingEnds ==
  \A a \in 1 .. MaxIds :
    flight.attempt = a /\ flight.sig = "pending" /\ JobsAreSent
      ~> flight.attempt # a \/ flight.sig # "pending"

(* A late verdict, written with the attempt of its job, does not undo a    *)
(* newer attempt of the same flight (matchingFlight), nor does one, or the *)
(* fallback of a request whose job is not queued, revive an attempt that   *)
(* was given up (WORKER_FAILED).                                           *)
LateVerdictIgnored ==
  [][flight'.id = flight.id =>
       /\ flight'.attempt >= flight.attempt
       /\ flight'.attempt = flight.attempt /\ flight.sig = "failed" => flight'.sig = "failed"]_vars

(* The track that a flight names is there to be validated and downloaded,  *)
(* whichever upload, deletion or refused commit came last.                 *)
TrackExists ==
  flight.igc # 0 /\ "renewal" \notin world => flight.igc \in blobs

(* Nothing but the track of the current flight is kept when no request is  *)
(* under way, if requests live to clean up (docs/runbooks/privacy.md) and  *)
(* none takes its commit for a failure.                                    *)
NoOrphanTracks ==
  NothingUnderWay /\ world \intersect {"lostRequest", "renewal", "update", "reseat"} = {} =>
    blobs \subseteq {flight.igc}

(* The tracks kept are those flights name, no fewer and no more.           *)
TracksMatchFlight == TrackExists /\ NoOrphanTracks

(* The score of a completed round is that of its flights as they stand.    *)
(* Manual flights and deletions check the status without the lease, and    *)
(* the config is no part of the round: see the hazards in the README.      *)
ScoreIsCurrent ==
  status = "Complete" /\ world \intersect {"manual", "delete", "config"} = {} =>
    counted = Counted(flight)

=============================================================================
