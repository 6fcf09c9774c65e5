------------------------------ MODULE BriefPdf ------------------------------
(***************************************************************************)
(* The PDF of one round's brief.  A lock, or a coordinator, starts an      *)
(* attempt by writing it into the round and queues a job; a worker renders *)
(* the brief, puts the PDF in its blob, sets the round's status to ready   *)
(* and mails it.  The round is written under its lease; the PDF is not.    *)
(***************************************************************************)
EXTENDS Naturals

CONSTANTS
  Workers,      \* concurrent invocations of the queue worker
  NoOne,        \* no holder of the round's lease
  Worlds,       \* BOUND: sets of kinds of fault that may happen together
  MaxDequeue,   \* deliveries of a message before it is poison
  MaxAttempts,  \* BOUND: attempts
  MaxFaults     \* BOUND: faults

ASSUME BriefPdfAssumption ==
  /\ NoOne \notin Workers
  /\ UNION Worlds \subseteq {"crash", "stall", "lapse", "render", "upload", "status", "renewal",
                             "email", "poison", "lostSend", "lostRequest"}
  /\ MaxDequeue \in Nat \ {0}
  /\ {MaxAttempts, MaxFaults} \subseteq Nat

VARIABLES
  locked,    \* the round is Locked or Complete
  brief,     \* the material of the brief blob, numbered by the lock that wrote it
  pdf,       \* round.brief.pdfStatus and pdfAttemptId
  artifact,  \* the material in the PDF blob; 0 when there is no blob
  lease,     \* the worker that commits under the round's lease
  unsent,    \* attempts written to the round whose job is not queued yet
  queue,     \* messages waiting: an attempt and its deliveries so far
  poison,    \* attempts whose message was given up by the host
  run,       \* what each invocation is doing
  emails,    \* how often the PDF of each attempt was mailed
  attempts,  \* attempts started so far
  faults     \* the kinds of fault that may happen, and how many have

round == <<locked, brief, pdf>>
messages == <<unsent, queue, poison>>
vars == <<round, artifact, lease, messages, run, emails, attempts, faults>>

-----------------------------------------------------------------------------
NoAttempt == [status |-> "none", attempt |-> 0]
Busy(a) == pdf.attempt = a /\ pdf.status \in {"pending", "processing"}
Idle == [pc |-> "idle", attempt |-> 0, count |-> 0, holds |-> TRUE, brief |-> 0]

TypeOK ==
  /\ locked \in BOOLEAN
  /\ brief \in 0 .. attempts /\ artifact \in 0 .. brief
  /\ pdf \in [status : {"none", "pending", "processing", "ready", "failed"},
              attempt : 0 .. attempts]
  /\ lease \in Workers \union {NoOne}
  /\ unsent \union poison \subseteq 1 .. attempts
  /\ queue \subseteq [attempt : 1 .. attempts, count : 0 .. MaxDequeue - 1]
  /\ run \in [Workers -> [pc : {"idle", "claim", "read", "commit", "upload", "write", "email",
                                "failed"},
                          attempt : 0 .. attempts, count : 0 .. MaxDequeue,
                          holds : BOOLEAN, brief : 0 .. brief]]
  /\ emails \in [1 .. MaxAttempts -> Nat]
  /\ attempts \in 0 .. MaxAttempts /\ faults \in [kinds : Worlds, count : 0 .. MaxFaults]

world == faults.kinds

Fault(kind) ==
  /\ kind \in world
  /\ faults.count < MaxFaults
  /\ faults' = [faults EXCEPT !.count = @ + 1]

(* Requests and status writes take the round's lease and give it back. *)
LeaseFree == lease = NoOne

SetsStatus(a, from, to) ==
  pdf' = IF pdf.attempt = a /\ pdf.status \in from THEN [pdf EXCEPT !.status = to] ELSE pdf

-----------------------------------------------------------------------------
(* The round and its requests.                                             *)

Starts ==
  /\ LeaseFree
  /\ attempts < MaxAttempts
  /\ attempts' = attempts + 1
  /\ pdf' = [status |-> "pending", attempt |-> attempts']
  /\ unsent' = unsent \union {attempts'}
  /\ UNCHANGED <<artifact, lease, queue, poison, run, emails, faults>>

(* Between an unlock and the next lock the brief may be edited at will. *)
Lock == ~locked /\ locked' = TRUE /\ brief' = brief + 1 /\ Starts

Regenerate == locked /\ UNCHANGED <<locked, brief>> /\ Starts

Unlock ==
  /\ LeaseFree
  /\ locked
  /\ locked' = FALSE
  /\ pdf' = NoAttempt
  /\ UNCHANGED <<brief, artifact, lease, messages, run, emails, attempts, faults>>

Send(a) ==
  /\ a \in unsent
  /\ unsent' = unsent \ {a}
  /\ queue' = queue \union {[attempt |-> a, count |-> 0]}
  /\ UNCHANGED <<round, artifact, lease, poison, run, emails, attempts, faults>>

SendFails(a) ==
  /\ a \in unsent
  /\ LeaseFree
  /\ Fault("lostSend")
  /\ unsent' = unsent \ {a}
  /\ SetsStatus(a, {"pending", "processing"}, "failed")
  /\ UNCHANGED <<locked, brief, artifact, lease, queue, poison, run, emails, attempts>>

(* The request dies, or can neither queue nor mark the attempt failed. *)
RequestDies(a) ==
  /\ a \in unsent
  /\ Fault("lostRequest")
  /\ unsent' = unsent \ {a}
  /\ UNCHANGED <<round, artifact, lease, queue, poison, run, emails, attempts>>

-----------------------------------------------------------------------------
(* The worker.                                                             *)

(* The invocation ends without being done with its message. *)
GivesBack(w) ==
  /\ run' = [run EXCEPT ![w] = Idle]
  /\ IF ~run[w].holds THEN UNCHANGED <<queue, poison>>
     ELSE IF run[w].count < MaxDequeue
          THEN /\ queue' = queue \union {[attempt |-> run[w].attempt, count |-> run[w].count]}
               /\ UNCHANGED poison
          ELSE poison' = poison \union {run[w].attempt} /\ UNCHANGED queue

Finishes(w) == run' = [run EXCEPT ![w] = Idle] /\ UNCHANGED <<queue, poison>>
Goes(w, pc) == run' = [run EXCEPT ![w].pc = pc] /\ UNCHANGED <<queue, poison>>

(* Mutant: a message waits while its attempt is processing. *)
DequeueUnlessProcessing(w, m) ==
  /\ run[w].pc = "idle"
  /\ m \in queue
  /\ IF pdf = [status |-> "processing", attempt |-> m.attempt]
     THEN UNCHANGED <<queue, run>>
     ELSE /\ queue' = queue \ {m}
          /\ IF pdf.attempt = m.attempt /\ pdf.status # "ready"
             THEN run' = [run EXCEPT ![w] = [Idle EXCEPT !.pc = "claim", !.attempt = m.attempt,
                                                         !.count = m.count + 1]]
             ELSE UNCHANGED run
  /\ UNCHANGED <<round, artifact, lease, unsent, poison, emails, attempts, faults>>

Dequeue(w, m) ==
  /\ run[w].pc = "idle"
  /\ m \in queue
  /\ queue' = queue \ {m}
  /\ IF pdf.attempt = m.attempt /\ pdf.status # "ready"
     THEN run' = [run EXCEPT ![w] = [Idle EXCEPT !.pc = "claim", !.attempt = m.attempt,
                                                 !.count = m.count + 1]]
     ELSE UNCHANGED run
  /\ UNCHANGED <<round, artifact, lease, unsent, poison, emails, attempts, faults>>

(* Whether or not the status was changed, the worker goes on. *)
Claim(w) ==
  /\ run[w].pc = "claim"
  /\ LeaseFree
  /\ SetsStatus(run[w].attempt, {"pending", "failed"}, "processing")
  /\ Goes(w, "read")
  /\ UNCHANGED <<locked, brief, artifact, lease, unsent, emails, attempts, faults>>

Contended(w) == lease \notin {NoOne, w}

(* The status cannot be written: outside the try, so that the host retries. *)
ClaimFails(w) ==
  /\ run[w].pc = "claim"
  /\ IF Contended(w) THEN UNCHANGED faults ELSE Fault("status")
  /\ GivesBack(w)
  /\ UNCHANGED <<round, artifact, lease, unsent, emails, attempts>>

Read(w) ==
  /\ run[w].pc = "read"
  /\ run' = [run EXCEPT ![w].pc = "commit", ![w].brief = brief]
  /\ UNCHANGED <<round, artifact, lease, messages, emails, attempts, faults>>

RenderFails(w) ==
  /\ run[w].pc = "read"
  /\ Fault("render")
  /\ Goes(w, "failed")
  /\ UNCHANGED <<round, artifact, lease, unsent, emails, attempts>>

(* Mutant: the commit asks for a locked round, not for its attempt. *)
CommittableLoosely(w) == locked /\ pdf.status # "ready"

Committable(w) == pdf.attempt = run[w].attempt /\ pdf.status # "ready"

BeginCommit(w) ==
  /\ run[w].pc = "commit"
  /\ LeaseFree
  /\ IF Committable(w)
     THEN lease' = w /\ Goes(w, "upload")
     ELSE UNCHANGED lease /\ Finishes(w)
  /\ UNCHANGED <<round, artifact, unsent, emails, attempts, faults>>

CommitContended(w) ==
  /\ run[w].pc = "commit"
  /\ Contended(w)
  /\ Goes(w, "failed")
  /\ UNCHANGED <<round, artifact, lease, unsent, emails, attempts, faults>>

(* The PDF blob has no lease and no condition. *)
Upload(w) ==
  /\ run[w].pc = "upload"
  /\ artifact' = run[w].brief
  /\ Goes(w, "write")
  /\ UNCHANGED <<round, lease, unsent, emails, attempts, faults>>

Releases(w) == lease' = IF lease = w THEN NoOne ELSE lease

UploadFails(w) ==
  /\ run[w].pc = "upload"
  /\ Fault("upload")
  /\ Releases(w)
  /\ Goes(w, "failed")
  /\ UNCHANGED <<round, artifact, unsent, emails, attempts>>

(* A lease that lapsed lets nothing be written. *)
Write(w) ==
  /\ run[w].pc = "write"
  /\ IF lease = w
     THEN pdf' = [pdf EXCEPT !.status = "ready"] /\ Goes(w, "email")
     ELSE UNCHANGED pdf /\ Goes(w, "failed")
  /\ Releases(w)
  /\ UNCHANGED <<locked, brief, artifact, unsent, emails, attempts, faults>>

(* The write fails; or it succeeds, and the lease could not be renewed. *)
WriteFails(w) ==
  /\ run[w].pc = "write"
  /\ lease = w
  /\ \/ Fault("status") /\ UNCHANGED pdf
     \/ Fault("renewal") /\ pdf' = [pdf EXCEPT !.status = "ready"]
  /\ Releases(w)
  /\ Goes(w, "failed")
  /\ UNCHANGED <<locked, brief, artifact, unsent, emails, attempts>>

SendEmail(w) ==
  /\ run[w].pc = "email"
  /\ emails' = [emails EXCEPT ![run[w].attempt] = @ + 1]
  /\ Finishes(w)
  /\ UNCHANGED <<round, artifact, lease, unsent, attempts, faults>>

EmailFails(w) ==
  /\ run[w].pc = "email"
  /\ Fault("email")
  /\ Goes(w, "failed")
  /\ UNCHANGED <<round, artifact, lease, unsent, emails, attempts>>

(* Mutant: the last failure is recorded whatever the status is. *)
FailUnconditionally(w) ==
  /\ run[w].pc = "failed"
  /\ IF run[w].count < MaxDequeue
     THEN GivesBack(w) /\ UNCHANGED pdf
     ELSE /\ LeaseFree
          /\ SetsStatus(run[w].attempt, {"pending", "processing", "ready"}, "failed")
          /\ Finishes(w)
  /\ UNCHANGED <<locked, brief, artifact, lease, unsent, emails, attempts, faults>>

Fail(w) ==
  /\ run[w].pc = "failed"
  /\ IF run[w].count < MaxDequeue
     THEN GivesBack(w) /\ UNCHANGED pdf
     ELSE /\ LeaseFree
          /\ SetsStatus(run[w].attempt, {"pending", "processing"}, "failed")
          /\ Finishes(w)
  /\ UNCHANGED <<locked, brief, artifact, lease, unsent, emails, attempts, faults>>

FailFails(w) ==
  /\ run[w].pc = "failed"
  /\ run[w].count = MaxDequeue
  /\ IF Contended(w) THEN UNCHANGED faults ELSE Fault("status")
  /\ GivesBack(w)
  /\ UNCHANGED <<round, artifact, lease, unsent, emails, attempts>>

-----------------------------------------------------------------------------
(* Hosts, leases and the poison queue.                                     *)

Crash(w) ==
  /\ run[w].pc # "idle"
  /\ Fault("crash")
  /\ GivesBack(w)
  /\ UNCHANGED <<round, artifact, lease, unsent, emails, attempts>>

(* A stalled host no longer hides the message: it is delivered again. *)
Stall(w) ==
  /\ run[w].pc # "idle" /\ run[w].holds /\ run[w].count < MaxDequeue
  /\ Fault("stall")
  /\ queue' = queue \union {[attempt |-> run[w].attempt, count |-> run[w].count]}
  /\ run' = [run EXCEPT ![w].holds = FALSE]
  /\ UNCHANGED <<round, artifact, lease, unsent, poison, emails, attempts>>

(* A lease ends 30 seconds after its holder died, or failed to renew it. *)
Lapse ==
  /\ ~LeaseFree
  /\ IF run[lease].pc \in {"upload", "write"} THEN Fault("lapse") ELSE UNCHANGED faults
  /\ lease' = NoOne
  /\ UNCHANGED <<round, artifact, messages, run, emails, attempts>>

HandlePoison(a) ==
  /\ a \in poison
  /\ LeaseFree
  /\ poison' = poison \ {a}
  /\ SetsStatus(a, {"pending", "processing"}, "failed")
  /\ UNCHANGED <<locked, brief, artifact, lease, unsent, queue, run, emails, attempts, faults>>

(* Any error of the handler, as a lease that is taken, is caught, and the  *)
(* message is done with.                                                   *)
PoisonSwallowed(a) ==
  /\ a \in poison
  /\ Fault("poison")
  /\ poison' = poison \ {a}
  /\ UNCHANGED <<round, artifact, lease, unsent, queue, run, emails, attempts>>

-----------------------------------------------------------------------------
Init ==
  /\ locked = FALSE /\ brief = 0 /\ pdf = NoAttempt /\ artifact = 0
  /\ lease = NoOne
  /\ unsent = {} /\ queue = {} /\ poison = {}
  /\ run = [w \in Workers |-> Idle]
  /\ emails = [a \in 1 .. MaxAttempts |-> 0]
  /\ attempts = 0 /\ faults \in [kinds : Worlds, count : {0}]

Proceeds(w) ==
  \/ Claim(w) \/ Read(w) \/ BeginCommit(w) \/ CommitContended(w) \/ Upload(w)
  \/ Write(w) \/ SendEmail(w) \/ Fail(w)

Fails(w) ==
  \/ ClaimFails(w) \/ RenderFails(w) \/ UploadFails(w) \/ WriteFails(w)
  \/ EmailFails(w) \/ FailFails(w) \/ Crash(w) \/ Stall(w)

Deliver(a) == \E w \in Workers, m \in {m \in queue : m.attempt = a} : Dequeue(w, m)

(* Nothing is under way, and the bounds may allow nothing more. *)
AtRest ==
  /\ unsent = {} /\ queue = {} /\ poison = {} /\ LeaseFree
  /\ \A w \in Workers : run[w].pc = "idle"
  /\ UNCHANGED vars

Next ==
  \/ Lock \/ Regenerate \/ Unlock \/ Lapse \/ AtRest
  \/ \E a \in 1 .. MaxAttempts :
       \/ Send(a) \/ SendFails(a) \/ RequestDies(a)
       \/ Deliver(a) \/ HandlePoison(a) \/ PoisonSwallowed(a)
  \/ \E w \in Workers : Proceeds(w) \/ Fails(w)

Spec == Init /\ [][Next]_vars

(* The queue delivers, the host runs what it has started and leases end.   *)
(* The poison handler gets the lease, unless a fault makes it give up.     *)
Fairness ==
  /\ \A a \in 1 .. MaxAttempts :
       WF_vars(Send(a)) /\ SF_vars(Deliver(a)) /\ SF_vars(HandlePoison(a))
  /\ \A w \in Workers : SF_vars(Proceeds(w))
  /\ WF_vars(Lapse)

FairSpec == Spec /\ Fairness

-----------------------------------------------------------------------------
(* Properties.                                                             *)

(* While the PDF of a round is ready, its blob holds the brief of the     *)
(* current lock, not one that an unlock and a later lock have replaced    *)
(* (commitBriefPdfReady; getRoundBriefPdf serves whatever the blob holds).  *)
(* The upload presents no lease, so that this needs a lease that lasts.    *)
ReadyPdfIsCurrent == pdf.status = "ready" /\ "lapse" \notin world => artifact = brief

(* What the round shows of its PDF, and the mails, are those of Attempts:  *)
(* an attempt is due a mail while a worker that made it ready is about to  *)
(* send it.                                                                *)
A == INSTANCE Attempts WITH
  started <- attempts,
  current <- pdf.attempt,
  status <- pdf.status,
  due <- {a \in 1 .. MaxAttempts : \E w \in Workers : run[w].pc = "email" /\ run[w].attempt = a},
  announced <- emails

(* The PDF of a round keeps the promises of Attempts, whatever crashes,    *)
(* lapses or is delivered again: a ready PDF stays ready until the round   *)
(* is unlocked or a new attempt starts, an attempt that was replaced never *)
(* comes back, and each PDF is mailed at most once (handleBriefPdfJob,     *)
(* commitBriefPdfReady, setBriefPdfStatus).                                *)
ImplementsAttempts == A!Spec

(* Requests live to queue their jobs, and the poison handler gets its write *)
(* through: it does not try again.                                          *)
PoisonWorks == world \intersect {"poison", "lostRequest"} = {}

(* Every attempt comes to an end: ready, failed, replaced or unlocked. *)
AttemptsEnd == \A a \in 1 .. MaxAttempts : Busy(a) /\ PoisonWorks ~> ~Busy(a)
=============================================================================
