---------------------------- MODULE FlightsProofs ----------------------------
(* Theorems about Flights and, in the second part, about Rescoring, for    *)
(* every value of their constants.                                         *)
EXTENDS Flights, MCRescoring, FiniteSetTheorems, TLAPS

-----------------------------------------------------------------------------
(* The inductive invariant.                                                *)

Pcs == {"idle", "resolve", "guard", "check", "call", "calling", "record", "apply", "publish"}
Settled == Verdicts \union {"failed"}
Messages == [job : Jobs, count : 0 .. MaxDequeue - 1]

Busy(w) == run[w].pc # "idle"

FlightShape ==
  /\ flight.id <= ids /\ flight.attempt <= ids
  /\ flight.igc \in {0, flight.id}
  /\ flight.id = 0 => flight = NoFlight
  /\ flight.sig = "none" <=> flight.attempt = 0

BusyHasJob == \A w \in Workers : Busy(w) => run[w].job \in Jobs

ResultsAreSettled ==
  \A w \in Workers :
    /\ run[w].pc = "record" => run[w].result \in Verdicts
    /\ run[w].pc = "apply" => run[w].result \in Settled

Types == TypeOK /\ FlightShape /\ BusyHasJob /\ ResultsAreSettled

(* The jobs that have been sent, and those that may still be.              *)
Underway ==
  {m.job : m \in queue} \union poison \union {run[w].job : w \in {w \in Workers : Busy(w)}}

Known == Underway \union {u.job : u \in unsent}

Uploads == {r \in asked : r.op = "upload"}

IdsInUse ==
  /\ blobs \subseteq 1 .. ids
  /\ \A j \in Known : j.id <= ids /\ j.attempt <= ids
  /\ \A i \in trash : i <= ids
  /\ \A u \in unsent : u.old <= ids

(* Nobody but the upload itself knows its id before it commits.            *)
UploadIsNew(r) ==
  /\ r.id \in blobs
  /\ \A s \in Uploads : s.id = r.id => s = r
  /\ \A j \in Known : j.id # r.id /\ j.attempt # r.id
  /\ r.id # flight.id /\ r.id # flight.attempt
  /\ r.id \notin trash
  /\ \A u \in unsent : u.old # r.id

UploadsAreNew == \A r \in Uploads : UploadIsNew(r)

AttemptHasOneFlight == \A j \in Known : j.attempt = flight.attempt => j.id = flight.id

(* The job that a request is about to queue has no other copy, and its     *)
(* attempt is not settled meanwhile.                                       *)
Alone(u) ==
  /\ \A j \in Underway : j.attempt # u.job.attempt
  /\ \A v \in unsent : v.job.attempt = u.job.attempt => v = u
  /\ flight.attempt = u.job.attempt => flight.sig = "pending"

UnsentAlone == \A u \in unsent : u.by # "script" => Alone(u)

Names == IdsInUse /\ UploadsAreNew /\ AttemptHasOneFlight /\ UnsentAlone

TrackIsKept ==
  flight.igc # 0 =>
    /\ flight.igc \notin trash
    /\ \A u \in unsent : u.old # flight.igc
    /\ "renewal" \notin world => flight.igc \in blobs

Named(i) ==
  \/ i = flight.igc \/ i \in trash
  \/ \E u \in unsent : u.old = i
  \/ \E r \in Uploads : r.id = i

CleansUp == world \intersect {"lostRequest", "renewal", "update", "reseat"} = {}

TracksAreNamed == CleansUp => \A i \in blobs : Named(i)

Tracks == TrackIsKept /\ TracksAreNamed

Scored ==
  /\ \A r \in asked : r.op \in {"upload"} \union world
  /\ ScoreIsCurrent

(* The guard is held from the look at the result to its record...          *)
Paced == {"check", "call", "calling", "record"}

Steady == world \intersect {"crash", "lapse", "result", "update"} = {}

Waiting(a) == flight.attempt = a /\ flight.sig = "pending"

CallsGuarded == \A w \in Workers : run[w].pc = "calling" => guard = w

GuardKept ==
  \A w \in Workers :
    run[w].pc \in Paced => guard = w /\ durable[run[w].job.attempt] = "none"

PublishSettled == \A w \in Workers : run[w].pc = "publish" => ~Waiting(run[w].job.attempt)

NotCalled == \A w \in Workers : run[w].pc = "call" => calls[run[w].job.attempt] = 0

(* ...and an attempt that was sent is remembered: by the invocation, by    *)
(* its result, or by the flight that waits for it no longer.               *)
Remembered(a) ==
  \/ durable[a] # "none"
  \/ ~Waiting(a)
  \/ \E w \in Workers : run[w].pc \in {"calling", "record"} /\ run[w].job.attempt = a

Fresh(a) == a > ids \/ \E r \in Uploads : r.id = a

CallsRemembered ==
  \A a \in 1 .. MaxIds : calls[a] <= 1 /\ (calls[a] # 0 => ~Fresh(a) /\ Remembered(a))

NoneManual == flight.attempt # 0 => ~flight.manual

Egress ==
  /\ CallsGuarded
  /\ Steady => GuardKept /\ NoneManual /\ PublishSettled /\ NotCalled /\ CallsRemembered

IInv == Types /\ Names /\ Tracks /\ Scored /\ Egress

-----------------------------------------------------------------------------
(* Types.                                                                  *)

LEMMA BoundsType ==
  /\ None \notin Workers /\ None \notin Pilots /\ Pilots # {}
  /\ MaxDequeue \in Nat /\ MaxDequeue # 0 /\ MaxIds \in Nat /\ MaxFaults \in Nat
  BY FlightsAssumption

LEMMA FaultType ==
  ASSUME TypeOK, NEW kind, Fault(kind)
  PROVE  faults' \in [kinds : Worlds, count : 0 .. MaxFaults] /\ world' = world /\ kind \in world
  BY BoundsType DEF TypeOK, Fault, world

LEMMA FlightFields ==
  ASSUME TypeOK
  PROVE  /\ flight.id \in 0 .. MaxIds /\ flight.igc \in 0 .. MaxIds /\ flight.manual \in BOOLEAN
         /\ flight.sig \in Signatures /\ flight.attempt \in 0 .. MaxIds
         /\ flight.overridden \in BOOLEAN
         /\ ids \in Nat /\ ids <= MaxIds /\ MaxIds \in Nat
  BY BoundsType DEF TypeOK

LEMMA SettledType == Settled \subseteq Signatures /\ "pending" \notin Settled /\ "none" \notin Settled
  BY DEF Settled, Verdicts, Signatures

LEMMA NoFlightType ==
  /\ NoFlight \in [id : 0 .. MaxIds, igc : 0 .. MaxIds, manual : BOOLEAN, sig : Signatures,
                   attempt : 0 .. MaxIds, overridden : BOOLEAN]
  /\ NoFlight.id = 0 /\ NoFlight.igc = 0 /\ NoFlight.attempt = 0 /\ NoFlight.sig = "none"
  /\ NoFlight.manual = FALSE
  BY BoundsType DEF NoFlight, Signatures

LEMMA IdleType == Idle \in Runs /\ Idle.pc = "idle"
  BY BoundsType DEF Idle, Runs, NoJob, Signatures

(* What a step makes of the invocation w; the others are left alone.       *)
Others(w) == run' \in [Workers -> Runs] /\ \A v \in Workers \ {w} : run'[v] = run[v]

LEMMA RunPut ==
  ASSUME TypeOK, NEW w \in Workers, NEW next \in Runs, run' = [run EXCEPT ![w] = next]
  PROVE  Others(w) /\ run'[w] = next
  BY DEF TypeOK, Others

LEMMA RunEnds ==
  ASSUME TypeOK, NEW w \in Workers, run' = [run EXCEPT ![w] = Idle]
  PROVE  Others(w) /\ run'[w] = Idle /\ run'[w].pc = "idle"
  BY RunPut, IdleType

LEMMA RunGoes ==
  ASSUME TypeOK, NEW w \in Workers, NEW pc \in Pcs, Goes(w, pc)
  PROVE  /\ Others(w) /\ UNCHANGED messages
         /\ run'[w].pc = pc /\ run'[w].job = run[w].job /\ run'[w].result = run[w].result
  <1> DEFINE next == [run[w] EXCEPT !.pc = pc]
  <1>1. run[w] \in Runs
    BY DEF TypeOK
  <1>2. next \in Runs /\ next.pc = pc /\ next.job = run[w].job /\ next.result = run[w].result
    BY <1>1 DEF Runs, Pcs
  <1>3. run' = [run EXCEPT ![w] = next] /\ UNCHANGED messages
    BY DEF Goes
  <1> HIDE DEF next
  <1> QED
    BY <1>2, <1>3, RunPut

LEMMA RunGoesWith ==
  ASSUME TypeOK, NEW w \in Workers, NEW pc \in Pcs, NEW result \in Signatures,
         GoesWith(w, pc, result)
  PROVE  /\ Others(w) /\ UNCHANGED messages
         /\ run'[w].pc = pc /\ run'[w].job = run[w].job /\ run'[w].result = result
  <1> DEFINE next == [run[w] EXCEPT !.pc = pc, !.result = result]
  <1>1. run[w] \in Runs
    BY DEF TypeOK
  <1>2. next \in Runs /\ next.pc = pc /\ next.job = run[w].job /\ next.result = result
    BY <1>1 DEF Runs, Pcs
  <1>3. run' = [run EXCEPT ![w] = next] /\ UNCHANGED messages
    BY DEF GoesWith
  <1> HIDE DEF next
  <1> QED
    BY <1>2, <1>3, RunPut

(* What becomes of the messages: no job appears that was not there.        *)
Keeps(w) ==
  /\ queue' \subseteq Messages /\ poison' \subseteq Jobs
  /\ \A m \in queue' : m \in queue \/ (Busy(w) /\ m.job = run[w].job)
  /\ \A j \in poison' : j \in poison \/ (Busy(w) /\ j = run[w].job)

LEMMA MessagesKept ==
  ASSUME TypeOK, NEW w \in Workers, UNCHANGED messages
  PROVE  Keeps(w)
  BY DEF TypeOK, Keeps, Messages, messages

LEMMA GivenBack ==
  ASSUME Types, NEW w \in Workers, Busy(w), GivesBack(w)
  PROVE  Others(w) /\ run'[w] = Idle /\ run'[w].pc = "idle" /\ Keeps(w)
  <1>1. run[w] \in Runs /\ run[w].job \in Jobs
    BY DEF Types, TypeOK, BusyHasJob
  <1>2. run[w].count \in 0 .. MaxDequeue
    BY <1>1 DEF Runs
  <1>3. TypeOK
    BY DEF Types
  <1>4. Keeps(w)
    <2>1. CASE ~run[w].holds
      BY <1>3, <2>1, MessagesKept DEF GivesBack
    <2>2. CASE run[w].holds /\ run[w].count < MaxDequeue
      <3>1. [job |-> run[w].job, count |-> run[w].count] \in Messages
        BY <1>1, <1>2, <2>2, BoundsType DEF Messages
      <3> QED
        BY <1>3, <2>2, <3>1 DEF GivesBack, Keeps, TypeOK, Messages
    <2>3. CASE run[w].holds /\ ~(run[w].count < MaxDequeue)
      BY <1>1, <1>3, <2>3 DEF GivesBack, Keeps, TypeOK, Messages
    <2> QED
      BY <2>1, <2>2, <2>3
  <1>5. run' = [run EXCEPT ![w] = Idle]
    BY DEF GivesBack
  <1> QED
    BY <1>3, <1>4, <1>5, RunEnds

-----------------------------------------------------------------------------
(* The steps of an invocation, in outline.                                 *)

Quits(w) == Busy(w) /\ run'[w] = Idle /\ run'[w].pc = "idle"
Stays(w) == Busy(w) /\ run'[w].pc # "idle" /\ run'[w].job = run[w].job
Starts(w) ==
  ~Busy(w) /\ run'[w].pc \in {"resolve", "apply"} /\ \E m \in queue : run'[w].job = m.job

KnowsResult(w) ==
  /\ run'[w].pc = "record" => run'[w].result \in Verdicts
  /\ run'[w].pc = "apply" => run'[w].result \in Settled

Outline(w) ==
  /\ Others(w) /\ Keeps(w) /\ KnowsResult(w)
  /\ Quits(w) \/ Stays(w) \/ Starts(w) \/ run'[w] = run[w]

WorkerStep(w) == Proceeds(w) \/ Fails(w) \/ \E m \in queue : Dequeue(w, m)

(* A flight that waits for an attempt, or was settled, is no flight        *)
(* without validation.                                                     *)
LEMMA CurrentIsSettled ==
  ASSUME Types, NEW job \in Jobs, IsCurrent(job), flight.sig # "pending"
  PROVE  flight.sig \in Settled
  <1>1. flight.attempt # 0
    BY BoundsType DEF IsCurrent, Jobs
  <1>2. flight.sig \in Signatures /\ flight.sig # "none"
    BY <1>1, FlightFields DEF Types, FlightShape
  <1> QED
    BY <1>2 DEF Signatures, Settled, Verdicts

LEMMA DurableType ==
  ASSUME TypeOK, NEW job \in Jobs
  PROVE  durable[job.attempt] \in Verdicts \union {"none"} /\ job.attempt \in 1 .. MaxIds
  BY DEF TypeOK, Jobs

LEMMA FinishOutline ==
  ASSUME Types, NEW w \in Workers, Busy(w), Finishes(w) \/ GivesBack(w)
  PROVE  Outline(w) /\ Quits(w)
  <1>1. TypeOK
    BY DEF Types
  <1>2. Others(w) /\ run'[w] = Idle /\ run'[w].pc = "idle" /\ Keeps(w)
    BY <1>1, RunEnds, MessagesKept, GivenBack DEF Finishes
  <1> QED
    BY <1>2 DEF Outline, Quits, KnowsResult

LEMMA GoesOutline ==
  ASSUME Types, NEW w \in Workers, NEW pc \in Pcs \ {"idle", "record", "apply"}, Busy(w),
         Goes(w, pc)
  PROVE  Outline(w) /\ Stays(w) /\ run'[w].pc = pc
  <1>1. TypeOK
    BY DEF Types
  <1>2. Others(w) /\ UNCHANGED messages /\ run'[w].pc = pc /\ run'[w].job = run[w].job
    BY <1>1, RunGoes
  <1> QED
    BY <1>1, <1>2, MessagesKept DEF Outline, Stays, KnowsResult

LEMMA GoesWithOutline ==
  ASSUME Types, NEW w \in Workers, NEW pc \in {"record", "apply"}, NEW result \in Settled,
         pc = "record" => result \in Verdicts, Busy(w), GoesWith(w, pc, result)
  PROVE  Outline(w) /\ Stays(w) /\ run'[w].pc = pc
  <1>1. TypeOK /\ pc \in Pcs /\ result \in Signatures
    BY SettledType DEF Types, Pcs
  <1>2. /\ Others(w) /\ UNCHANGED messages
        /\ run'[w].pc = pc /\ run'[w].job = run[w].job /\ run'[w].result = result
    BY <1>1, RunGoesWith
  <1> QED
    BY <1>1, <1>2, MessagesKept DEF Outline, Stays, KnowsResult

LEMMA DequeueOutline ==
  ASSUME Types, NEW w \in Workers, NEW m \in queue, Dequeue(w, m)
  PROVE  Outline(w) /\ (Starts(w) \/ run' = run)
  <1>1. TypeOK /\ ~Busy(w)
    BY DEF Types, Dequeue, Busy
  <1>2. m \in Messages /\ m.job \in Jobs /\ m.count \in 0 .. MaxDequeue - 1
    BY <1>1 DEF TypeOK, Messages
  <1>3. queue' \subseteq queue /\ poison' = poison
    BY DEF Dequeue
  <1>4. Keeps(w)
    BY <1>1, <1>3 DEF Keeps, TypeOK, Messages
  <1>5. CASE ~Applicable(m.job)
    <2>1. run' = run
      BY <1>5 DEF Dequeue
    <2> QED
      BY <1>1, <1>4, <2>1 DEF Outline, KnowsResult, Others, TypeOK, Busy
  <1>6. CASE Applicable(m.job)
    <2> DEFINE pc == IF flight.sig = "pending" THEN "resolve" ELSE "apply"
               next == [pc |-> pc, job |-> m.job, count |-> m.count + 1, holds |-> TRUE,
                        result |-> flight.sig]
    <2>1. m.count + 1 \in 0 .. MaxDequeue
      BY <1>2, BoundsType
    <2>2. flight.sig \in Signatures /\ pc \in Pcs
      BY <1>1, FlightFields DEF Pcs
    <2>3. next \in Runs
      BY <1>2, <2>1, <2>2 DEF Runs, Pcs
    <2>4. next.pc = pc /\ next.job = m.job /\ next.result = flight.sig
      OBVIOUS
    <2>5. run' = [run EXCEPT ![w] = next]
      BY <1>6 DEF Dequeue
    <2> HIDE DEF next
    <2>6. Others(w) /\ run'[w] = next
      BY <1>1, <2>3, <2>5, RunPut
    <2>7. flight.sig # "pending" => flight.sig \in Settled
      BY <1>2, <1>6, CurrentIsSettled DEF Applicable
    <2> QED
      BY <1>1, <1>4, <2>4, <2>6, <2>7 DEF Outline, Starts, KnowsResult
  <1> QED
    BY <1>5, <1>6

LEMMA StallOutline ==
  ASSUME Types, NEW w \in Workers, Stall(w)
  PROVE  Outline(w) /\ Stays(w) /\ run'[w].pc = run[w].pc
  <1> DEFINE next == [run[w] EXCEPT !.holds = FALSE]
  <1>1. TypeOK /\ Busy(w) /\ run[w] \in Runs /\ run[w].job \in Jobs
    BY DEF Types, TypeOK, Stall, Busy, BusyHasJob
  <1>2. /\ next \in Runs /\ next.pc = run[w].pc /\ next.job = run[w].job
        /\ next.result = run[w].result
    BY <1>1 DEF Runs
  <1>3. run' = [run EXCEPT ![w] = next]
    BY DEF Stall
  <1> HIDE DEF next
  <1>4. Others(w) /\ run'[w] = next
    BY <1>1, <1>2, <1>3, RunPut
  <1>5. [job |-> run[w].job, count |-> run[w].count] \in Messages
    BY <1>1, BoundsType DEF Messages, Runs, Stall
  <1>6. Keeps(w)
    BY <1>1, <1>5 DEF Stall, Keeps, TypeOK, Messages
  <1> QED
    BY <1>1, <1>2, <1>4, <1>6
       DEF Outline, Stays, KnowsResult, Types, ResultsAreSettled, Busy

LEMMA ContendedOutline ==
  ASSUME Types, NEW w \in Workers, Contended(w)
  PROVE  Outline(w) /\ Quits(w)
  <1>1. TypeOK /\ Busy(w) /\ run[w].job \in Jobs
    BY DEF Types, Contended, Busy, BusyHasJob
  <1>2. Others(w) /\ run'[w] = Idle /\ run'[w].pc = "idle"
    BY <1>1, RunEnds DEF Contended
  <1>3. [job |-> run[w].job, count |-> 0] \in Messages
    BY <1>1, BoundsType DEF Messages
  <1>4. Keeps(w)
    BY <1>1, <1>3 DEF Contended, Keeps, TypeOK, Messages
  <1> QED
    BY <1>1, <1>2, <1>4 DEF Outline, Quits, KnowsResult

(* Which step of an invocation does which.                                 *)
LEMMA ResolveOutline ==
  ASSUME Types, NEW w \in Workers, Resolve(w)
  PROVE  Outline(w) /\ Stays(w) /\ run'[w].pc \in {"apply", "guard"}
  <1>1. Busy(w) /\ run[w].job \in Jobs /\ TypeOK
    BY DEF Types, Resolve, Busy, BusyHasJob
  <1>2. durable[run[w].job.attempt] # "none" => durable[run[w].job.attempt] \in Settled
    BY <1>1, DurableType DEF Settled
  <1> QED
    BY <1>1, <1>2, GoesOutline, GoesWithOutline DEF Resolve, Pcs

LEMMA AcquireOutline ==
  ASSUME Types, NEW w \in Workers, Acquire(w)
  PROVE  /\ Outline(w)
         /\ \/ Stays(w) /\ run'[w].pc = "apply" /\ guard' = guard
            \/ /\ Stays(w) /\ run'[w].pc = "check" /\ guard = None /\ guard' = w
               /\ durable[run[w].job.attempt] = "none"
            \/ Quits(w) /\ guard' = guard
  <1>1. Busy(w) /\ run[w].job \in Jobs /\ TypeOK
    BY DEF Types, Acquire, Busy, BusyHasJob
  <1> DEFINE result == durable[run[w].job.attempt]
  <1>2. result # "none" => result \in Settled
    BY <1>1, DurableType DEF Settled
  <1>3. CASE result # "none"
    BY <1>1, <1>2, <1>3, GoesWithOutline DEF Acquire
  <1>4. CASE result = "none" /\ IgcPath(run[w].job.id) \in blobs
    BY <1>1, <1>4, GoesOutline DEF Acquire, Pcs
  <1>5. CASE result = "none" /\ IgcPath(run[w].job.id) \notin blobs
    BY <1>1, <1>5, FinishOutline DEF Acquire
  <1> QED
    BY <1>3, <1>4, <1>5

LEMMA CheckOutline ==
  ASSUME Types, NEW w \in Workers, Check(w)
  PROVE  /\ Outline(w)
         /\ \/ Quits(w) /\ ~Applicable(run[w].job) /\ Releases(w) /\ Forget(run[w].job.attempt)
            \/ Stays(w) /\ run'[w].pc = "apply" /\ Releases(w) /\ durable' = durable
            \/ /\ Stays(w) /\ run'[w].pc = "call" /\ guard' = guard /\ durable' = durable
               /\ Applicable(run[w].job) /\ flight.sig = "pending"
            \/ Stays(w) /\ run'[w].pc = "record" /\ guard' = guard /\ durable' = durable
  <1>1. Busy(w) /\ run[w].job \in Jobs /\ TypeOK
    BY DEF Types, Check, Busy, BusyHasJob
  <1> DEFINE job == run[w].job
  <1>2. CASE ~Applicable(job)
    BY <1>1, <1>2, FinishOutline DEF Check
  <1>3. CASE Applicable(job) /\ flight.sig # "pending"
    <2>1. flight.sig \in Settled
      BY <1>1, <1>3, CurrentIsSettled DEF Applicable
    <2>2. GoesWith(w, "apply", flight.sig) /\ Releases(w) /\ durable' = durable
      BY <1>3 DEF Check
    <2> QED
      BY <1>1, <2>1, <2>2, GoesWithOutline
  <1>4. CASE Applicable(job) /\ flight.sig = "pending" /\ enabled
    BY <1>1, <1>4, GoesOutline DEF Check, Pcs
  <1>5. CASE Applicable(job) /\ flight.sig = "pending" /\ ~enabled
    <2>1. GoesWith(w, "record", "passed") /\ guard' = guard /\ durable' = durable
      BY <1>5 DEF Check
    <2>2. "passed" \in Verdicts /\ "passed" \in Settled
      BY DEF Verdicts, Settled
    <2> QED
      BY <1>1, <2>1, <2>2, GoesWithOutline
  <1> QED
    BY <1>2, <1>3, <1>4, <1>5

LEMMA CallOutline ==
  ASSUME Types, NEW w \in Workers, Call(w)
  PROVE  /\ Outline(w)
         /\ \/ /\ Stays(w) /\ run'[w].pc = "calling" /\ guard = w
               /\ calls' = [calls EXCEPT ![run[w].job.attempt] = @ + 1]
            \/ Quits(w) /\ guard # w /\ calls' = calls
  <1>1. Busy(w)
    BY DEF Call, Busy
  <1> QED
    BY <1>1, GoesOutline, FinishOutline DEF Call, Pcs

LEMMA CallReturnsOutline ==
  ASSUME Types, NEW w \in Workers, CallReturns(w)
  PROVE  Outline(w) /\ Stays(w) /\ run'[w].pc = "record"
  <1>1. Busy(w) /\ Verdicts \subseteq Settled
    BY DEF CallReturns, Busy, Settled
  <1>2. PICK verdict \in Verdicts : GoesWith(w, "record", verdict)
    BY DEF CallReturns
  <1> QED
    BY <1>1, <1>2, GoesWithOutline

LEMMA RecordOutline ==
  ASSUME Types, NEW w \in Workers, Record(w)
  PROVE  /\ Outline(w) /\ run[w].result \in Verdicts
         /\ \/ Quits(w) /\ durable[run[w].job.attempt] # "none" /\ durable' = durable
            \/ /\ durable' = [durable EXCEPT ![run[w].job.attempt] = run[w].result]
               /\ \/ Stays(w) /\ run'[w].pc = "apply"
                  \/ Quits(w)
  <1>1. Busy(w) /\ TypeOK /\ run[w].result \in Verdicts /\ run[w].result \in Settled
    BY DEF Types, Record, Busy, ResultsAreSettled, Settled
  <1>2. Goes(w, "apply") => GoesWith(w, "apply", run[w].result)
    <2>1. run[w] \in Runs /\ run \in [Workers -> Runs]
      BY <1>1 DEF TypeOK
    <2>2. [run EXCEPT ![w].pc = "apply", ![w].result = run[w].result]
            = [run EXCEPT ![w].pc = "apply"]
      BY <2>1 DEF Runs
    <2> QED
      BY <2>2 DEF Goes, GoesWith
  <1>3. CASE durable[run[w].job.attempt] # "none"
    BY <1>1, <1>3, FinishOutline DEF Record
  <1>4. CASE durable[run[w].job.attempt] = "none"
    <2>1. /\ durable' = [durable EXCEPT ![run[w].job.attempt] = run[w].result]
          /\ Goes(w, "apply") \/ GivesBack(w)
      BY <1>4 DEF Record
    <2> QED
      BY <1>1, <1>2, <2>1, FinishOutline, GoesWithOutline
  <1> QED
    BY <1>3, <1>4

LEMMA OtherOutlines ==
  ASSUME Types, NEW w \in Workers
  PROVE  /\ Apply(w) => /\ Outline(w)
                        /\ \/ Quits(w) /\ Verdict(run[w].job, run[w].result) = {}
                           \/ /\ Stays(w) /\ run'[w].pc = "publish" /\ durable' = durable
                              /\ Verdict(run[w].job, run[w].result) # {}
         /\ ApplyUnrenewed(w) => Outline(w) /\ Quits(w)
         /\ Publish(w) => Outline(w) /\ Quits(w)
         /\ Throws(w) => Outline(w) /\ Quits(w)
         /\ Crash(w) => Outline(w) /\ Quits(w)
  <1>1. ASSUME Apply(w)
        PROVE  /\ Outline(w)
               /\ \/ Quits(w) /\ Verdict(run[w].job, run[w].result) = {}
                  \/ /\ Stays(w) /\ run'[w].pc = "publish" /\ durable' = durable
                     /\ Verdict(run[w].job, run[w].result) # {}
    <2>1. Busy(w)
      BY <1>1 DEF Apply, Busy
    <2> QED
      BY <1>1, <2>1, GoesOutline, FinishOutline DEF Apply, Pcs
  <1>2. ASSUME ApplyUnrenewed(w) \/ Publish(w) \/ Throws(w) \/ Crash(w)
        PROVE  Outline(w) /\ Quits(w)
    <2>1. Busy(w) /\ (Finishes(w) \/ GivesBack(w))
      BY <1>2 DEF ApplyUnrenewed, Publish, Throws, Crash, Busy
    <2> QED
      BY <2>1, FinishOutline
  <1> QED
    BY <1>1, <1>2

LEMMA WorkerOutline ==
  ASSUME Types, NEW w \in Workers, WorkerStep(w)
  PROVE  Outline(w)
  BY DequeueOutline, StallOutline, ContendedOutline, ResolveOutline, AcquireOutline,
     CheckOutline, CallOutline, CallReturnsOutline, RecordOutline, OtherOutlines
     DEF WorkerStep, Proceeds, Fails

(* A worker, the host or the poison handler changes nothing that requests  *)
(* write, but for a verdict on the flight whose job it has.                *)
Settles(job, sig) ==
  /\ IsCurrent(job) /\ flight.sig # "failed"
  /\ flight' = [flight EXCEPT !.sig = sig] /\ counted' = Counted(flight')

Quiet ==
  /\ UNCHANGED <<asked, unsent, trash, ids, blobs, enabled, status, pilot>>
  /\ world' = world
  /\ Underway' \subseteq Underway
  /\ UNCHANGED <<flight, counted>> \/ \E job \in Underway, sig \in Settled : Settles(job, sig)

LEMMA UnderwayType ==
  ASSUME Types
  PROVE  Underway \subseteq Jobs
  BY DEF Types, TypeOK, BusyHasJob, Underway

LEMMA OutlineKeepsJobs ==
  ASSUME Types, NEW w \in Workers, Outline(w)
  PROVE  Underway' \subseteq Underway
  <1> SUFFICES ASSUME NEW j \in Underway' PROVE j \in Underway
    OBVIOUS
  <1>1. CASE \E m \in queue' : m.job = j
    BY <1>1 DEF Outline, Keeps, Underway
  <1>2. CASE j \in poison'
    BY <1>2 DEF Outline, Keeps, Underway
  <1>3. CASE \E v \in Workers : run'[v].pc # "idle" /\ run'[v].job = j
    <2>1. PICK v \in Workers : run'[v].pc # "idle" /\ run'[v].job = j
      BY <1>3
    <2>2. CASE v # w
      BY <2>1, <2>2 DEF Outline, Others, Underway, Busy
    <2>3. CASE v = w
      BY <2>1, <2>3 DEF Outline, Quits, Stays, Starts, Underway, Busy
    <2> QED
      BY <2>2, <2>3
  <1> QED
    BY <1>1, <1>2, <1>3 DEF Underway, Busy

LEMMA CountedType ==
  ASSUME TypeOK
  PROVE  Counted(flight) \in 0 .. MaxIds
  BY FlightFields DEF Counted

(* The attempt written with a verdict is the one the flight has.           *)
LEMMA JudgedFlight ==
  ASSUME Types, NEW job, NEW sig, IsCurrent(job)
  PROVE  Judged(job, sig) = [flight EXCEPT !.sig = sig]
  BY DEF Types, TypeOK, Judged, IsCurrent

LEMMA VerdictSettles ==
  ASSUME Types, NEW job \in Underway, NEW sig \in Settled, NEW f \in Verdict(job, sig),
         WriteScored(f)
  PROVE  Settles(job, sig) /\ UNCHANGED <<status, pilot>>
  <1>1. Applicable(job) /\ flight.sig # "failed" /\ f = Judged(job, sig)
    BY DEF Verdict
  <1>2. f = [flight EXCEPT !.sig = sig]
    BY <1>1, JudgedFlight DEF Applicable
  <1> QED
    BY <1>1, <1>2 DEF Applicable, WriteScored, Settles

LEMMA WorkerIsQuiet ==
  ASSUME Types, NEW w \in Workers, WorkerStep(w)
  PROVE  Quiet
  <1>1. UNCHANGED <<asked, unsent, trash, ids, blobs, enabled>>
    BY DEF WorkerStep, Proceeds, Fails, Dequeue, Resolve, Acquire, Contended, Check, Call,
           CallReturns, Record, Apply, Publish, ApplyUnrenewed, Throws, Crash, Stall, requests
  <1>2. TypeOK /\ Outline(w) /\ Underway' \subseteq Underway
    BY WorkerOutline, OutlineKeepsJobs DEF Types
  <1>3. world' = world
    <2>1. UNCHANGED faults \/ \E kind : Fault(kind)
      BY DEF WorkerStep, Proceeds, Fails, Dequeue, Resolve, Acquire, Contended, Check, Call,
             CallReturns, Record, Apply, Publish, ApplyUnrenewed, Throws, Crash, Stall
    <2> QED
      BY <1>2, <2>1, FaultType DEF world
  <1>4. CASE Apply(w) \/ ApplyUnrenewed(w)
    <2> DEFINE job == run[w].job
               sig == run[w].result
    <2>1. job \in Underway /\ sig \in Settled
      BY <1>4 DEF Apply, ApplyUnrenewed, Underway, Busy, Types, ResultsAreSettled
    <2>2. UNCHANGED round \/ \E f \in Verdict(job, sig) : WriteScored(f)
      BY <1>4 DEF Apply, ApplyUnrenewed
    <2>3. UNCHANGED round \/ (Settles(job, sig) /\ UNCHANGED <<status, pilot>>)
      BY <2>1, <2>2, VerdictSettles
    <2> QED
      BY <1>1, <1>2, <1>3, <2>1, <2>3 DEF Quiet, round
  <1>5. CASE ~Apply(w) /\ ~ApplyUnrenewed(w)
    <2>1. UNCHANGED round
      BY <1>5 DEF WorkerStep, Proceeds, Fails, Dequeue, Resolve, Acquire, Contended, Check,
                  Call, CallReturns, Record, Publish, Throws, Crash, Stall
    <2> QED
      BY <1>1, <1>2, <1>3, <2>1 DEF Quiet, round
  <1> QED
    BY <1>4, <1>5

LEMMA LapseIsQuiet ==
  ASSUME Types, Lapse
  PROVE  Quiet /\ UNCHANGED <<queue, poison, run, durable, calls>> /\ guard' = None
  <1>1. /\ UNCHANGED <<round, blobs, enabled, durable, calls, requests, messages, run, ids>>
        /\ guard' = None
    BY DEF Lapse
  <1>2. Underway' = Underway
    BY <1>1 DEF Underway, Busy, messages
  <1>3. UNCHANGED faults \/ \E kind : Fault(kind)
    BY DEF Lapse
  <1>4. world' = world
    BY <1>3, FaultType DEF world, Types
  <1> QED
    BY <1>1, <1>2, <1>4 DEF Quiet, round, requests, messages

LEMMA PoisonIsQuiet ==
  ASSUME Types, NEW job \in poison, HandlePoison(job)
  PROVE  /\ Quiet /\ UNCHANGED <<queue, run, guard, calls, faults>> /\ poison' \subseteq poison
         /\ Forget(job.attempt)
         /\ \/ ~(Applicable(job) /\ flight.sig = "pending") /\ UNCHANGED flight
            \/ \E sig \in Settled : Settles(job, sig)
  <1>1. /\ UNCHANGED <<blobs, enabled, guard, calls, requests, queue, run, ids, faults>>
        /\ poison' \subseteq poison /\ Forget(job.attempt)
    BY DEF HandlePoison
  <1>2. Underway' \subseteq Underway /\ job \in Underway /\ job \in Jobs
    BY <1>1, UnderwayType DEF Underway, Busy
  <1>3. world' = world
    BY <1>1 DEF world
  <1>4. PICK seen \in {durable[job.attempt], "none"} :
          IF seen # "none"
          THEN IF Verdict(job, seen) = {} THEN UNCHANGED round
               ELSE \E f \in Verdict(job, seen) : WriteScored(f)
          ELSE IF Applicable(job) /\ flight.sig = "pending"
               THEN WriteScored([flight EXCEPT !.sig = "failed"])
               ELSE UNCHANGED round
    BY DEF HandlePoison
  <1>5. CASE seen # "none"
    <2>1. seen \in Settled
      BY <1>2, <1>4, <1>5, DurableType DEF Types, Settled
    <2>2. CASE Verdict(job, seen) = {}
      <3>1. UNCHANGED round /\ ~(Applicable(job) /\ flight.sig = "pending")
        BY <1>4, <1>5, <2>2 DEF Verdict
      <3> QED
        BY <1>1, <1>2, <1>3, <3>1 DEF Quiet, round, requests
    <2>3. CASE Verdict(job, seen) # {}
      <3>1. PICK f \in Verdict(job, seen) : WriteScored(f)
        BY <1>4, <1>5, <2>3
      <3>2. Settles(job, seen) /\ UNCHANGED <<status, pilot>>
        BY <1>2, <2>1, <3>1, VerdictSettles
      <3> QED
        BY <1>1, <1>2, <1>3, <2>1, <3>2 DEF Quiet, requests
    <2> QED
      BY <2>2, <2>3
  <1>6. CASE seen = "none" /\ Applicable(job) /\ flight.sig = "pending"
    <2>1. "failed" \in Settled /\ Settles(job, "failed") /\ UNCHANGED <<status, pilot>>
      BY <1>4, <1>6 DEF Settles, Settled, WriteScored, Applicable
    <2> QED
      BY <1>1, <1>2, <1>3, <2>1 DEF Quiet, requests
  <1>7. CASE seen = "none" /\ ~(Applicable(job) /\ flight.sig = "pending")
    <2>1. UNCHANGED round
      BY <1>4, <1>7
    <2> QED
      BY <1>1, <1>2, <1>3, <1>7, <2>1 DEF Quiet, round, requests
  <1> QED
    BY <1>5, <1>6, <1>7

LEMMA QuietFlightTypes ==
  ASSUME Types, Quiet
  PROVE  /\ flight' \in [id : 0 .. MaxIds, igc : 0 .. MaxIds, manual : BOOLEAN,
                         sig : Signatures, attempt : 0 .. MaxIds, overridden : BOOLEAN]
         /\ counted' \in 0 .. MaxIds
         /\ FlightShape'
  <1>1. TypeOK /\ FlightShape
    BY DEF Types
  <1>2. CASE UNCHANGED <<flight, counted>>
    BY <1>1, <1>2 DEF TypeOK, FlightShape, Quiet
  <1>3. ASSUME NEW job \in Underway, NEW sig \in Settled, Settles(job, sig)
        PROVE  /\ flight' \in [id : 0 .. MaxIds, igc : 0 .. MaxIds, manual : BOOLEAN,
                               sig : Signatures, attempt : 0 .. MaxIds, overridden : BOOLEAN]
               /\ counted' \in 0 .. MaxIds
               /\ FlightShape'
    <2>1. sig \in Signatures /\ sig # "none" /\ job \in Jobs
      BY SettledType, UnderwayType
    <2>2. flight' = [flight EXCEPT !.sig = sig]
      BY <1>3 DEF Settles
    <2>3. flight' \in [id : 0 .. MaxIds, igc : 0 .. MaxIds, manual : BOOLEAN,
                       sig : Signatures, attempt : 0 .. MaxIds, overridden : BOOLEAN]
      BY <1>1, <2>1, <2>2 DEF TypeOK
    <2>4. /\ flight'.id = flight.id /\ flight'.igc = flight.igc
          /\ flight'.attempt = flight.attempt /\ flight'.sig = sig
      BY <1>1, <2>2 DEF TypeOK
    <2>5. flight.attempt # 0 /\ flight.id # 0
      BY <1>3, <2>1, BoundsType DEF Settles, IsCurrent, Jobs
    <2>6. counted' \in 0 .. MaxIds
      BY <1>3, <2>3, BoundsType DEF Settles, Counted
    <2> QED
      BY <1>1, <2>1, <2>3, <2>4, <2>5, <2>6 DEF FlightShape, Quiet
  <1> QED
    BY <1>2, <1>3 DEF Quiet

LEMMA QuietTypes ==
  ASSUME Types,
         \/ \E w \in Workers : WorkerStep(w)
         \/ Lapse
         \/ \E job \in poison : HandlePoison(job)
  PROVE  Quiet /\ Types'
  <1>1. TypeOK /\ Quiet
    BY WorkerIsQuiet, LapseIsQuiet, PoisonIsQuiet DEF Types
  <1>2. /\ flight' \in [id : 0 .. MaxIds, igc : 0 .. MaxIds, manual : BOOLEAN,
                        sig : Signatures, attempt : 0 .. MaxIds, overridden : BOOLEAN]
        /\ counted' \in 0 .. MaxIds /\ FlightShape'
    BY <1>1, QuietFlightTypes
  <1> DEFINE Asked == [op : {"upload", "manual", "delete", "revalidate"},
                       pilot : Pilots \union {None}, id : 0 .. MaxIds, enabled : BOOLEAN]
             Unsent == [job : Jobs, old : 0 .. MaxIds, by : {"upload", "revalidate", "script"}]
  <1>3. /\ status' \in {"Confirmed", "Locked", "Complete"} /\ pilot' \in Pilots \union {None}
        /\ blobs' \subseteq 1 .. MaxIds /\ enabled' \in BOOLEAN /\ trash' \subseteq 1 .. MaxIds
        /\ asked' \subseteq Asked /\ unsent' \subseteq Unsent /\ ids' \in 0 .. MaxIds
    BY <1>1 DEF Quiet, TypeOK
  <1>4. faults' \in [kinds : Worlds, count : 0 .. MaxFaults]
    <2>1. UNCHANGED faults \/ \E kind : Fault(kind)
      BY DEF WorkerStep, Proceeds, Fails, Dequeue, Resolve, Acquire, Contended, Check, Call,
             CallReturns, Record, Apply, Publish, ApplyUnrenewed, Throws, Crash, Stall, Lapse,
             HandlePoison
    <2> QED
      BY <1>1, <2>1, FaultType DEF TypeOK
  <1>5. ASSUME NEW w \in Workers, WorkerStep(w)
        PROVE  Types'
    <2>1. Outline(w)
      BY <1>5, WorkerOutline
    <2>2. run' \in [Workers -> Runs] /\ queue' \subseteq Messages /\ poison' \subseteq Jobs
      BY <2>1 DEF Outline, Others, Keeps
    <2>3. durable' \in [1 .. MaxIds -> Verdicts \union {"none"}]
      <3>1. CASE Record(w)
        <4>1. \/ durable' = durable
              \/ /\ durable' = [durable EXCEPT ![run[w].job.attempt] = run[w].result]
                 /\ run[w].result \in Verdicts
          BY <3>1, RecordOutline
        <4> QED
          BY <1>1, <4>1 DEF TypeOK
      <3>2. CASE ~Record(w)
        <4>1. durable' = durable \/ \E a : Forget(a)
          BY <1>5, <3>2
             DEF WorkerStep, Proceeds, Fails, Dequeue, Resolve, Acquire, Contended, Check,
                 Call, CallReturns, Apply, Publish, ApplyUnrenewed, Throws, Crash, Stall
        <4> QED
          BY <1>1, <4>1 DEF TypeOK, Forget
      <3> QED
        BY <3>1, <3>2
    <2>4. guard' \in Workers \union {None}
      BY <1>1, <1>5
         DEF WorkerStep, Proceeds, Fails, Dequeue, Resolve, Acquire, Contended, Check, Call,
             CallReturns, Record, Apply, Publish, ApplyUnrenewed, Throws, Crash, Stall,
             Releases, TypeOK
    <2>5. calls' \in [1 .. MaxIds -> Nat]
      <3>1. CASE Call(w)
        <4>1. \/ calls' = calls
              \/ calls' = [calls EXCEPT ![run[w].job.attempt] = @ + 1]
          BY <3>1, CallOutline
        <4> QED
          BY <1>1, <4>1 DEF TypeOK
      <3>2. CASE ~Call(w)
        <4>1. calls' = calls
          BY <1>5, <3>2
             DEF WorkerStep, Proceeds, Fails, Dequeue, Resolve, Acquire, Contended, Check,
                 CallReturns, Record, Apply, Publish, ApplyUnrenewed, Throws, Crash, Stall
        <4> QED
          BY <1>1, <4>1 DEF TypeOK
      <3> QED
        BY <3>1, <3>2
    <2>6. TypeOK'
      BY <1>2, <1>3, <1>4, <2>2, <2>3, <2>4, <2>5 DEF TypeOK, Messages
    <2>7. BusyHasJob'
      <3>1. queue \subseteq Messages /\ \A v \in Workers : Busy(v) => run[v].job \in Jobs
        BY <1>1 DEF TypeOK, Messages, Types, BusyHasJob
      <3>2. ASSUME NEW v \in Workers, run'[v].pc # "idle"
            PROVE  run'[v].job \in Jobs
        <4>1. CASE v = w
          BY <2>1, <3>1, <3>2, <4>1 DEF Outline, Quits, Stays, Starts, Busy, Messages
        <4>2. CASE v # w
          BY <2>1, <3>1, <3>2, <4>2 DEF Outline, Others, Busy
        <4> QED
          BY <4>1, <4>2
      <3> QED
        BY <3>2 DEF BusyHasJob, Busy
    <2>8. ResultsAreSettled'
      <3>1. ASSUME NEW v \in Workers
            PROVE  /\ run'[v].pc = "record" => run'[v].result \in Verdicts
                   /\ run'[v].pc = "apply" => run'[v].result \in Settled
        <4>1. CASE v = w
          BY <2>1, <4>1 DEF Outline, KnowsResult
        <4>2. CASE v # w
          BY <2>1, <4>2 DEF Outline, Others, Types, ResultsAreSettled
        <4> QED
          BY <4>1, <4>2
      <3> QED
        BY <3>1 DEF ResultsAreSettled
    <2> QED
      BY <1>2, <2>6, <2>7, <2>8 DEF Types
  <1>6. ASSUME UNCHANGED <<queue, run, calls>>, poison' \subseteq poison,
               guard' \in Workers \union {None},
               durable' \in [1 .. MaxIds -> Verdicts \union {"none"}]
        PROVE  Types'
    BY <1>1, <1>2, <1>3, <1>4, <1>6
       DEF Types, TypeOK, BusyHasJob, ResultsAreSettled, Busy
  <1>7. CASE Lapse
    BY <1>1, <1>6, <1>7, LapseIsQuiet DEF TypeOK
  <1>8. ASSUME NEW job \in poison, HandlePoison(job)
        PROVE  Types'
    <2>1. /\ UNCHANGED <<queue, run, guard, calls>> /\ poison' \subseteq poison
          /\ Forget(job.attempt)
      BY <1>8, PoisonIsQuiet
    <2> QED
      BY <1>1, <1>6, <2>1 DEF TypeOK, Forget
  <1> QED
    BY <1>1, <1>5, <1>7, <1>8

-----------------------------------------------------------------------------
(* Types: requests and operators.                                          *)

Flights == [id : 0 .. MaxIds, igc : 0 .. MaxIds, manual : BOOLEAN, sig : Signatures,
            attempt : 0 .. MaxIds, overridden : BOOLEAN]
Askings == [op : {"upload", "manual", "delete", "revalidate"}, pilot : Pilots \union {None},
            id : 0 .. MaxIds, enabled : BOOLEAN]
Unsents == [job : Jobs, old : 0 .. MaxIds, by : {"upload", "revalidate", "script"}]

AskedStep ==
  \E r \in asked :
    \/ CommitUpload(r) \/ CommitRefused(r) \/ CommitUnrenewed(r)
    \/ CommitManual(r) \/ CommitDelete(r) \/ CommitRevalidate(r)

(* The steps that change no more of the slot than its round and flight.    *)
Touches ==
  \/ \E manual \in BOOLEAN : UpdateFlight(manual)
  \/ DeleteFlight \/ AllowIgc \/ Complete \/ SetConfig \/ Reseat \/ UpdateRound

RequestStep ==
  \/ BeginUpload \/ \E op \in {"manual", "delete", "revalidate"} : Begin(op)
  \/ AskedStep
  \/ \E u \in unsent : Send(u) \/ SendFails(u)
  \/ \E i \in trash : DeleteOldIgc(i)
  \/ RequestDies
  \/ \E manual \in BOOLEAN : LogFlight(manual)
  \/ Touches
  \/ Redispatch \/ \E i \in blobs : DeleteOrphan(i)

LEMMA RequestFrame ==
  ASSUME Types, RequestStep
  PROVE  /\ UNCHANGED <<durable, guard, calls, run, poison>>
         /\ faults' \in [kinds : Worlds, count : 0 .. MaxFaults] /\ world' = world
  <1>1. UNCHANGED <<durable, guard, calls, run, poison>>
    BY DEF RequestStep, AskedStep, Touches, BeginUpload, Begin, CommitUpload, CommitRefused,
           CommitUnrenewed, CommitManual, CommitDelete, CommitRevalidate, Send, SendFails,
           DeleteOldIgc, RequestDies, LogFlight, UpdateFlight, DeleteFlight, AllowIgc, Complete,
           SetConfig, Reseat, UpdateRound, Redispatch, DeleteOrphan, messages
  <1>2. UNCHANGED faults \/ \E kind : Fault(kind)
    BY DEF RequestStep, AskedStep, Touches, BeginUpload, Begin, CommitUpload, CommitRefused,
           CommitUnrenewed, CommitManual, CommitDelete, CommitRevalidate, Send, SendFails,
           DeleteOldIgc, RequestDies, LogFlight, UpdateFlight, DeleteFlight, AllowIgc, Complete,
           SetConfig, Reseat, UpdateRound, Redispatch, DeleteOrphan
  <1> QED
    BY <1>1, <1>2, FaultType DEF Types, TypeOK, world

LEMMA UploadedFields ==
  ASSUME Types, NEW r \in asked, r.id # 0
  PROVE  /\ Uploaded(r) \in Flights
         /\ Uploaded(r).id = r.id /\ Uploaded(r).igc = r.id /\ ~Uploaded(r).manual
         /\ Uploaded(r).attempt = IF r.enabled THEN r.id ELSE 0
         /\ Uploaded(r).sig = IF r.enabled THEN "pending" ELSE "none"
  <1>1. r.id \in 0 .. MaxIds /\ r.enabled \in BOOLEAN
    BY DEF Types, TypeOK
  <1> DEFINE sig == IF r.enabled THEN "pending" ELSE "none"
             attempt == IF r.enabled THEN r.id ELSE 0
  <1>2. /\ NoFlight \in Flights /\ NoFlight.manual = FALSE
        /\ sig \in Signatures /\ attempt \in 0 .. MaxIds
    BY <1>1, NoFlightType, BoundsType DEF Signatures, Flights
  <1>3. Uploaded(r) = [NoFlight EXCEPT !.id = r.id, !.igc = r.id, !.sig = sig,
                                       !.attempt = attempt]
    BY DEF Uploaded, IgcPath
  <1> HIDE DEF sig, attempt
  <1>4. /\ Uploaded(r) \in Flights
        /\ Uploaded(r).id = r.id /\ Uploaded(r).igc = r.id /\ ~Uploaded(r).manual
        /\ Uploaded(r).attempt = attempt /\ Uploaded(r).sig = sig
    BY <1>1, <1>2, <1>3 DEF Flights
  <1> QED
    BY <1>4 DEF sig, attempt

LEMMA ManualFields ==
  ASSUME NEW i \in 0 .. MaxIds, NEW manual \in BOOLEAN
  PROVE  LET f == [NoFlight EXCEPT !.id = i, !.manual = manual]
         IN /\ f \in Flights /\ f.id = i /\ f.igc = 0 /\ f.attempt = 0 /\ f.sig = "none"
            /\ f.manual = manual
  <1>1. NoFlight \in Flights /\ NoFlight.igc = 0 /\ NoFlight.attempt = 0 /\ NoFlight.sig = "none"
    BY NoFlightType DEF Flights
  <1> QED
    BY <1>1 DEF Flights

LEMMA RevalidatedFields ==
  ASSUME TypeOK, NEW a \in 0 .. MaxIds
  PROVE  /\ Revalidated(a) \in Flights
         /\ Revalidated(a).id = flight.id /\ Revalidated(a).igc = flight.igc
         /\ Revalidated(a).attempt = a /\ Revalidated(a).sig = "pending"
         /\ Revalidated(a).manual = flight.manual
  <1>1. flight \in Flights
    BY DEF TypeOK, Flights
  <1> QED
    BY <1>1 DEF Revalidated, Flights, Signatures

LEMMA PassedFields ==
  ASSUME TypeOK
  PROVE  LET f == [flight EXCEPT !.sig = "passed"]
         IN /\ f \in Flights /\ f.id = flight.id /\ f.igc = flight.igc
            /\ f.attempt = flight.attempt /\ f.sig = "passed" /\ f.manual = flight.manual
  <1>1. flight \in Flights
    BY DEF TypeOK, Flights
  <1> QED
    BY <1>1 DEF Flights, Signatures, Verdicts

(* What the steps of Touches make of the flight.                           *)
LEMMA TouchFields ==
  ASSUME Types, Touches
  PROVE  /\ UNCHANGED <<blobs, requests, queue, ids>>
         /\ enabled' \in BOOLEAN /\ status' \in {"Confirmed", "Locked", "Complete"}
         /\ pilot' \in Pilots \union {None} /\ flight' \in Flights
         /\ counted' \in 0 .. MaxIds
         /\ \/ flight' = NoFlight /\ ("update" \in world \/ "reseat" \in world)
            \/ /\ flight'.id = flight.id /\ flight'.igc = flight.igc
               /\ flight'.attempt = flight.attempt /\ flight'.sig = flight.sig
               /\ flight'.manual = flight.manual \/ "update" \in world
               /\ flight' = NoFlight \/ flight.id # 0 \/ flight' = flight
  <1>1. TypeOK /\ flight \in Flights
    BY DEF Types, TypeOK, Flights
  <1>2. Counted(flight) \in 0 .. MaxIds /\ \A f \in Flights : Counted(f) \in 0 .. MaxIds
    BY <1>1, BoundsType DEF Counted, Flights
  <1>3. flight # NoFlight => flight.id # 0
    BY DEF Types, FlightShape
  <1>4. NoFlight \in Flights
    BY NoFlightType DEF Flights
  <1>5. ASSUME NEW manual \in BOOLEAN, UpdateFlight(manual)
        PROVE  /\ flight' \in Flights /\ "update" \in world /\ flight.id # 0
               /\ flight'.id = flight.id /\ flight'.igc = flight.igc
               /\ flight'.attempt = flight.attempt /\ flight'.sig = flight.sig
    BY <1>1, <1>3, <1>5 DEF UpdateFlight, WriteUnscored, Flights
  <1>6. ASSUME AllowIgc
        PROVE  /\ flight' \in Flights /\ flight.id # 0 /\ counted' = Counted(flight')
               /\ flight'.id = flight.id /\ flight'.igc = flight.igc
               /\ flight'.attempt = flight.attempt /\ flight'.sig = flight.sig
               /\ flight'.manual = flight.manual
    BY <1>1, <1>3, <1>6 DEF AllowIgc, WriteScored, Flights
  <1>7. UNCHANGED <<blobs, requests, queue, ids>>
    BY DEF Touches, UpdateFlight, DeleteFlight, AllowIgc, Complete, SetConfig, Reseat,
           UpdateRound, messages
  <1>8. ASSUME NEW manual \in BOOLEAN, UpdateFlight(manual)
        PROVE  UNCHANGED <<enabled, status, pilot, counted>>
    BY <1>8 DEF UpdateFlight, WriteUnscored
  <1>9. ASSUME AllowIgc PROVE UNCHANGED <<enabled, status, pilot>>
    BY <1>9 DEF AllowIgc, WriteScored
  <1>10. ASSUME DeleteFlight
         PROVE  /\ UNCHANGED <<enabled, status, pilot, counted>> /\ flight' = NoFlight
                /\ "update" \in world
    BY <1>10 DEF DeleteFlight, WriteUnscored
  <1>11. ASSUME Complete \/ UpdateRound
         PROVE  /\ UNCHANGED <<enabled, flight, pilot>> /\ counted' = Counted(flight)
                /\ status' \in {status, "Complete"}
    BY <1>11 DEF Complete, UpdateRound
  <1>12. ASSUME SetConfig
         PROVE  UNCHANGED <<status, flight, pilot, counted>> /\ enabled' = ~enabled
    BY <1>12 DEF SetConfig, round
  <1>13. ASSUME Reseat
         PROVE  /\ UNCHANGED <<enabled, counted>> /\ "reseat" \in world
                /\ flight' \in {flight, NoFlight} /\ status' \in {status, "Confirmed", "Locked"}
                /\ pilot' \in Pilots \union {pilot, None}
    BY <1>13 DEF Reseat, Unlock, Lock, UnregisterSelf, RemovePilot, RegisterSelf
  <1>14. /\ status \in {"Confirmed", "Locked", "Complete"} /\ pilot \in Pilots \union {None}
         /\ counted \in 0 .. MaxIds /\ enabled \in BOOLEAN
    BY <1>1 DEF TypeOK
  <1>15. CASE \E manual \in BOOLEAN : UpdateFlight(manual)
    BY <1>5, <1>7, <1>8, <1>14, <1>15
  <1>16. CASE AllowIgc
    BY <1>2, <1>6, <1>7, <1>9, <1>14, <1>16
  <1>17. CASE DeleteFlight
    BY <1>4, <1>7, <1>10, <1>14, <1>17
  <1>18. CASE Complete \/ UpdateRound
    BY <1>1, <1>2, <1>7, <1>11, <1>14, <1>18
  <1>19. CASE SetConfig
    BY <1>1, <1>7, <1>12, <1>14, <1>19
  <1>20. CASE Reseat
    BY <1>1, <1>4, <1>7, <1>13, <1>14, <1>20
  <1> QED
    BY <1>15, <1>16, <1>17, <1>18, <1>19, <1>20 DEF Touches

LEMMA UploadIds ==
  ASSUME Types, Names, NEW r \in asked, r.op = "upload"
  PROVE  r.id \in 1 .. ids /\ r.id # 0 /\ r.id \in 1 .. MaxIds /\ UploadIsNew(r) /\ r \in Uploads
  BY DEF Names, IdsInUse, UploadsAreNew, UploadIsNew, Uploads, Types, TypeOK

LEMMA RequestTypes ==
  ASSUME Types, Names, RequestStep
  PROVE  Types'
  <1>1. TypeOK /\ FlightShape /\ flight \in Flights /\ NoFlight \in Flights
    BY NoFlightType DEF Types, TypeOK, Flights
  <1>2. /\ UNCHANGED <<durable, guard, calls, run, poison>>
        /\ faults' \in [kinds : Worlds, count : 0 .. MaxFaults]
    BY RequestFrame
  <1>3. /\ asked \subseteq Askings /\ unsent \subseteq Unsents /\ trash \subseteq 1 .. MaxIds
        /\ blobs \subseteq 1 .. MaxIds /\ ids \in 0 .. MaxIds /\ queue \subseteq Messages
        /\ counted \in 0 .. MaxIds /\ status \in {"Confirmed", "Locked", "Complete"}
        /\ pilot \in Pilots \union {None} /\ enabled \in BOOLEAN
    BY <1>1 DEF TypeOK, Askings, Unsents, Messages
  <1> DEFINE Roundly == /\ status' \in {"Confirmed", "Locked", "Complete"}
                        /\ pilot' \in Pilots \union {None} /\ enabled' \in BOOLEAN
                        /\ counted' \in 0 .. MaxIds /\ queue' \subseteq Messages
             Flightly == flight' \in Flights /\ FlightShape'
             Asking == /\ asked' \subseteq Askings /\ unsent' \subseteq Unsents
                       /\ trash' \subseteq 1 .. MaxIds /\ blobs' \subseteq 1 .. MaxIds
                       /\ ids' \in 0 .. MaxIds
  <1>4. ASSUME Roundly, Flightly, Asking
        PROVE  Types'
    BY <1>1, <1>2, <1>4
       DEF Types, TypeOK, BusyHasJob, ResultsAreSettled, Busy, Flights, Askings, Unsents,
           Messages
  <1>5. ASSUME flight' = flight, ids' \in 0 .. MaxIds, ids' >= ids
        PROVE  Flightly
    BY <1>1, <1>3, <1>5, FlightFields DEF FlightShape
  <1>6. ASSUME flight' = NoFlight, ids' \in 0 .. MaxIds
        PROVE  Flightly
    BY <1>1, <1>6, NoFlightType DEF FlightShape
  <1>7. \A f \in Flights : Counted(f) \in 0 .. MaxIds
    BY <1>3, BoundsType DEF Counted, Flights
  <1>8. ASSUME NEW op \in {"upload", "manual", "delete", "revalidate"}, NEW i \in 0 .. MaxIds
        PROVE  [Request(op) EXCEPT !.id = i] \in Askings /\ Request(op) \in Askings
    BY <1>3, BoundsType DEF Request, Askings
  <1>9. CASE BeginUpload
    <2>1. ids' = ids + 1 /\ ids' \in 0 .. MaxIds /\ ids' \in 1 .. MaxIds /\ ids' >= ids
      BY <1>3, <1>9, BoundsType DEF BeginUpload
    <2>2. asked' = asked \union {[Request("upload") EXCEPT !.id = ids']}
      BY <1>9 DEF BeginUpload
    <2>3. /\ UNCHANGED <<round, enabled, unsent, trash, messages>>
          /\ blobs' = blobs \union {ids'}
      BY <1>9 DEF BeginUpload, IgcPath
    <2>4. [Request("upload") EXCEPT !.id = ids'] \in Askings
      BY <1>8, <2>1
    <2> QED
      BY <1>3, <1>4, <1>5, <2>1, <2>2, <2>3, <2>4 DEF round, messages
  <1>10. ASSUME NEW op \in {"manual", "delete", "revalidate"}, Begin(op)
         PROVE  Types'
    <2>1. /\ UNCHANGED <<round, blobs, enabled, unsent, trash, messages, ids>>
          /\ asked' = asked \union {Request(op)}
      BY <1>10 DEF Begin
    <2>2. Request(op) \in Askings
      <3>1. 0 \in 0 .. MaxIds
        BY BoundsType
      <3> QED
        BY <1>8, <3>1
    <2>3. ids' >= ids /\ ids' \in 0 .. MaxIds
      BY <1>3, <2>1
    <2> QED
      BY <1>3, <1>4, <1>5, <2>1, <2>2, <2>3 DEF round, messages
  <1>11. ASSUME NEW r \in asked, CommitUpload(r) \/ CommitUnrenewed(r)
         PROVE  Types'
    <2>1. /\ r.op = "upload" /\ asked' = asked \ {r} /\ flight' = Uploaded(r)
          /\ UNCHANGED <<status, pilot, counted, enabled, messages, ids>>
          /\ blobs' \subseteq blobs
      BY <1>11 DEF CommitUpload, CommitUnrenewed, WriteUnscored
    <2>2. r.id \in 1 .. ids /\ r.id # 0 /\ r.id \in 1 .. MaxIds /\ r.enabled \in BOOLEAN
      BY <1>3, <2>1, UploadIds DEF Askings
    <2>3. Flightly
      <3>1. /\ Uploaded(r) \in Flights
            /\ Uploaded(r).id = r.id /\ Uploaded(r).igc = r.id
            /\ Uploaded(r).attempt = IF r.enabled THEN r.id ELSE 0
            /\ Uploaded(r).sig = IF r.enabled THEN "pending" ELSE "none"
        BY <2>2, UploadedFields
      <3> QED
        BY <1>3, <2>1, <2>2, <3>1 DEF FlightShape
    <2>4. unsent' \subseteq Unsents /\ trash' \subseteq 1 .. MaxIds
      <3>1. CASE CommitUnrenewed(r)
        BY <1>3, <3>1 DEF CommitUnrenewed
      <3>2. CASE CommitUpload(r)
        <4> DEFINE old == {flight.igc} \ {0, IgcPath(r.id)}
                   o == IF old = {} THEN 0 ELSE flight.igc
                   u == [job |-> [id |-> r.id, attempt |-> r.id], old |-> o, by |-> "upload"]
        <4>1. old \subseteq 1 .. MaxIds /\ o \in 0 .. MaxIds
          <5>1. flight.igc \in 0 .. MaxIds /\ MaxIds \in Nat
            BY <1>1, FlightFields
          <5>2. o \in {0, flight.igc}
            OBVIOUS
          <5> QED
            BY <5>1, <5>2
        <4>2. u \in Unsents
          BY <2>2, <4>1 DEF Unsents, Jobs
        <4>3. unsent' \subseteq unsent \union {u} /\ trash' \subseteq trash \union old
          BY <3>2 DEF CommitUpload
        <4> QED
          BY <1>3, <4>1, <4>2, <4>3
      <3> QED
        BY <1>11, <3>1, <3>2
    <2> QED
      BY <1>3, <1>4, <2>1, <2>3, <2>4 DEF messages
  <1>12. ASSUME NEW r \in asked, CommitRefused(r)
         PROVE  Types'
    <2>1. /\ UNCHANGED <<round, enabled, unsent, trash, messages, ids>>
          /\ asked' \subseteq asked /\ blobs' \subseteq blobs /\ ids' >= ids
      BY <1>3, <1>12 DEF CommitRefused
    <2> QED
      BY <1>3, <1>4, <1>5, <2>1 DEF round, messages
  <1>13. ASSUME NEW r \in asked, CommitManual(r)
         PROVE  Types'
    <2>1. /\ ids' = ids + 1 /\ asked' = asked \ {r} /\ ids < MaxIds
          /\ trash' = trash \union ({flight.igc} \ {0})
          /\ flight' = [NoFlight EXCEPT !.id = ids', !.manual = TRUE]
          /\ UNCHANGED <<status, pilot, counted, blobs, enabled, unsent, messages>>
      BY <1>13 DEF CommitManual, WriteUnscored
    <2>2. ids' \in 0 .. MaxIds /\ ids' # 0
      BY <1>3, <2>1, BoundsType
    <2>3. Flightly
      <3>1. /\ flight' \in Flights /\ flight'.id = ids' /\ flight'.igc = 0
            /\ flight'.attempt = 0 /\ flight'.sig = "none"
        BY <2>1, <2>2, ManualFields
      <3> QED
        BY <2>2, <3>1 DEF FlightShape
    <2>4. trash' \subseteq 1 .. MaxIds
      BY <1>1, <1>3, <2>1 DEF Flights
    <2> QED
      BY <1>3, <1>4, <2>1, <2>2, <2>3, <2>4 DEF messages
  <1>14. ASSUME NEW r \in asked, CommitDelete(r)
         PROVE  Types'
    <2>1. /\ asked' = asked \ {r} /\ flight' \in {flight, NoFlight}
          /\ trash' \subseteq trash \union ({flight.igc} \ {0})
          /\ UNCHANGED <<status, pilot, counted, blobs, enabled, unsent, messages, ids>>
      BY <1>14 DEF CommitDelete, WriteUnscored, round
    <2>2. Flightly /\ trash' \subseteq 1 .. MaxIds
      <3>1. ids' \in 0 .. MaxIds /\ ids' >= ids
        BY <1>3, <2>1
      <3> QED
        BY <1>1, <1>3, <1>5, <1>6, <2>1, <3>1 DEF Flights
    <2> QED
      BY <1>3, <1>4, <2>1, <2>2 DEF messages
  <1>15. ASSUME NEW r \in asked, CommitRevalidate(r)
         PROVE  Types'
    <2>1. /\ ids' = ids + 1 /\ asked' = asked \ {r} /\ ids < MaxIds /\ flight.igc \in blobs
          /\ flight' = Revalidated(ids') /\ counted' = Counted(Revalidated(ids'))
          /\ UNCHANGED <<status, pilot, blobs, enabled, trash, messages>>
          /\ unsent' \subseteq unsent \union
               {[job |-> [id |-> flight.id, attempt |-> ids'], old |-> 0, by |-> "revalidate"]}
      BY <1>15 DEF CommitRevalidate, WriteScored
    <2>2. ids' \in 0 .. MaxIds /\ ids' \in 1 .. MaxIds /\ ids' # 0 /\ ids' >= ids
      BY <1>3, <2>1, BoundsType
    <2>3. flight.id \in 1 .. MaxIds
      <3>1. flight.igc # 0 /\ flight.igc \in 1 .. MaxIds
        <4>1. flight.igc \in blobs
          BY <2>1
        <4>2. flight.igc \in 1 .. MaxIds /\ MaxIds \in Nat
          BY <1>3, <4>1, BoundsType
        <4> QED
          BY <4>2
      <3> QED
        BY <1>1, <3>1, NoFlightType DEF FlightShape
    <2>4. flight' \in Flights /\ flight'.id = flight.id /\ flight'.igc = flight.igc
          /\ flight'.attempt = ids' /\ flight'.sig = "pending"
      BY <1>1, <2>1, <2>2, RevalidatedFields
    <2>5. Flightly
      BY <1>1, <1>3, <2>2, <2>3, <2>4 DEF FlightShape
    <2>6. unsent' \subseteq Unsents
      BY <1>3, <2>1, <2>2, <2>3, BoundsType DEF Unsents, Jobs
    <2>7. counted' \in 0 .. MaxIds
      BY <1>7, <2>1, <2>4
    <2> QED
      BY <1>3, <1>4, <2>1, <2>2, <2>5, <2>6, <2>7 DEF messages
  <1>16. ASSUME NEW u \in unsent, Send(u) \/ SendFails(u)
         PROVE  Types'
    <2>1. /\ UNCHANGED <<status, pilot, blobs, enabled, asked, ids>> /\ unsent' \subseteq unsent
          /\ trash' = trash \union ({u.old} \ {0})
          /\ queue' \subseteq queue \union {[job |-> u.job, count |-> 0]}
          /\ \/ UNCHANGED <<flight, counted>>
             \/ /\ IsCurrent(u.job) /\ flight' = [flight EXCEPT !.sig = "passed"]
                /\ counted' \in {counted, Counted(flight')}
      BY <1>16 DEF Send, SendFails, WriteScored, WriteUnscored, round, messages
    <2>2. u \in Unsents /\ u.job \in Jobs /\ u.old \in 0 .. MaxIds
      BY <1>3 DEF Unsents
    <2>3. trash' \subseteq 1 .. MaxIds /\ queue' \subseteq Messages
      <3>1. [job |-> u.job, count |-> 0] \in Messages
        BY <2>2, BoundsType DEF Messages
      <3> QED
        BY <1>3, <2>1, <2>2, <3>1
    <2>4. Flightly /\ counted' \in 0 .. MaxIds
      <3>1. CASE UNCHANGED <<flight, counted>>
        <4>1. ids' \in 0 .. MaxIds /\ ids' >= ids
          BY <1>3, <2>1
        <4> QED
          BY <1>3, <1>5, <3>1, <4>1
      <3>2. CASE /\ IsCurrent(u.job) /\ flight' = [flight EXCEPT !.sig = "passed"]
                 /\ counted' \in {counted, Counted(flight')}
        <4>1. flight.attempt # 0 /\ flight.id # 0
          BY <2>2, <3>2, BoundsType DEF IsCurrent, Jobs
        <4>2. /\ flight' \in Flights /\ flight'.id = flight.id /\ flight'.igc = flight.igc
              /\ flight'.attempt = flight.attempt /\ flight'.sig = "passed"
          BY <1>1, <3>2, PassedFields
        <4> QED
          BY <1>1, <1>3, <1>7, <2>1, <3>2, <4>1, <4>2 DEF FlightShape
      <3> QED
        BY <2>1, <3>1, <3>2
    <2> QED
      BY <1>3, <1>4, <2>1, <2>3, <2>4
  <1>17. ASSUME (\E i \in trash : DeleteOldIgc(i)) \/ RequestDies \/ \E i \in blobs : DeleteOrphan(i)
         PROVE  Types'
    <2>1. /\ UNCHANGED <<status, pilot, flight, counted, enabled, queue, ids>>
          /\ asked' \subseteq asked /\ unsent' \subseteq unsent /\ trash' \subseteq trash
          /\ blobs' \subseteq blobs
      BY <1>17 DEF DeleteOldIgc, RequestDies, DeleteOrphan, round, messages, requests
    <2>2. ids' \in 0 .. MaxIds /\ ids' >= ids
      BY <1>3, <2>1
    <2> QED
      BY <1>3, <1>4, <1>5, <2>1, <2>2
  <1>18. ASSUME NEW manual \in BOOLEAN, LogFlight(manual)
         PROVE  Types'
    <2>1. /\ ids' = ids + 1 /\ ids < MaxIds
          /\ flight' = [NoFlight EXCEPT !.id = ids', !.manual = manual]
          /\ UNCHANGED <<status, pilot, counted, blobs, enabled, asked, unsent, trash, queue>>
      BY <1>18 DEF LogFlight, WriteUnscored, messages, requests
    <2>2. ids' \in 0 .. MaxIds /\ ids' # 0
      BY <1>3, <2>1, BoundsType
    <2>3. Flightly
      <3>1. /\ flight' \in Flights /\ flight'.id = ids' /\ flight'.igc = 0
            /\ flight'.attempt = 0 /\ flight'.sig = "none"
        BY <2>1, <2>2, ManualFields
      <3> QED
        BY <2>2, <3>1 DEF FlightShape
    <2> QED
      BY <1>3, <1>4, <2>1, <2>2, <2>3
  <1>19. CASE Touches
    <2>1. /\ UNCHANGED <<blobs, requests, queue, ids>>
          /\ enabled' \in BOOLEAN /\ status' \in {"Confirmed", "Locked", "Complete"}
          /\ pilot' \in Pilots \union {None} /\ flight' \in Flights
          /\ counted' \in 0 .. MaxIds
          /\ \/ flight' = NoFlight /\ ("update" \in world \/ "reseat" \in world)
             \/ /\ flight'.id = flight.id /\ flight'.igc = flight.igc
                /\ flight'.attempt = flight.attempt /\ flight'.sig = flight.sig
                /\ flight'.manual = flight.manual \/ "update" \in world
                /\ flight' = NoFlight \/ flight.id # 0 \/ flight' = flight
      BY <1>19, TouchFields
    <2>2. Flightly
      BY <1>1, <1>3, <1>5, <1>6, <2>1 DEF FlightShape
    <2> QED
      BY <1>3, <1>4, <2>1, <2>2 DEF requests
  <1>20. CASE Redispatch
    <2>1. /\ UNCHANGED <<round, blobs, enabled, asked, trash, messages, ids>>
          /\ flight.sig = "pending" /\ flight.igc # 0
          /\ unsent' = unsent \union
               {[job |-> [id |-> flight.id, attempt |-> flight.attempt], old |-> 0,
                 by |-> "script"]}
      BY <1>20 DEF Redispatch
    <2>2. flight.id \in 1 .. MaxIds /\ flight.attempt \in 1 .. MaxIds
      BY <1>1, <2>1, FlightFields, NoFlightType DEF FlightShape
    <2>3. unsent' \subseteq Unsents
      BY <1>3, <2>1, <2>2, BoundsType DEF Unsents, Jobs
    <2>4. ids' >= ids
      BY <1>3, <2>1
    <2> QED
      BY <1>3, <1>4, <1>5, <2>1, <2>3, <2>4 DEF round, messages
  <1> QED
    BY <1>9, <1>10, <1>11, <1>12, <1>13, <1>14, <1>15, <1>16, <1>17, <1>18, <1>19, <1>20
       DEF RequestStep, AskedStep

-----------------------------------------------------------------------------
(* Most steps add no id and no job, and take away no track that a flight   *)
(* or an upload names.                                                     *)

SameIds == flight'.id = flight.id /\ flight'.igc = flight.igc /\ flight'.attempt = flight.attempt

Shrinks ==
  /\ ids' = ids /\ world' = world /\ blobs' \subseteq blobs /\ unsent' \subseteq unsent
  /\ \A r \in asked' : r.op = "upload" => r \in asked
  /\ \A j \in Underway' : j \in Underway \/ \E u \in unsent \ unsent' : j = u.job
  /\ \A i \in trash' :
       \/ i \in trash
       \/ i = flight.igc /\ flight' = NoFlight
       \/ \E u \in unsent \ unsent' : u.old = i /\ i # 0
  /\ \/ flight' = NoFlight
     \/ /\ SameIds
        /\ \/ flight'.sig = flight.sig
           \/ /\ flight.sig # "failed"
              /\ \/ \E j \in Underway : j.attempt = flight.attempt
                 \/ \E u \in unsent \ unsent' : u.job.attempt = flight.attempt
  /\ \A i \in blobs \ blobs' : i # flight'.igc /\ \A r \in asked' : r.op = "upload" => r.id # i

LEMMA ShrinkKnown ==
  ASSUME Shrinks
  PROVE  Known' \subseteq Known /\ Uploads' \subseteq Uploads
  BY DEF Shrinks, Known, Uploads

LEMMA KnownType ==
  ASSUME Types
  PROVE  Known \subseteq Jobs /\ Underway \subseteq Known /\ \A u \in unsent : u.job \in Known
  BY UnderwayType DEF Types, TypeOK, Known

LEMMA UnderwayKept ==
  ASSUME UNCHANGED <<queue, poison, run>>
  PROVE  Underway' = Underway
  BY DEF Underway, Busy

LEMMA ShrinksKeepNames ==
  ASSUME Types, Names, TrackIsKept, Shrinks
  PROVE  Names' /\ TrackIsKept'
  <1>1. Known' \subseteq Known /\ Uploads' \subseteq Uploads /\ Known \subseteq Jobs
    BY ShrinkKnown, KnownType
  <1>2. /\ NoFlight.id = 0 /\ NoFlight.igc = 0 /\ NoFlight.attempt = 0
        /\ flight.igc \in {0, flight.id} /\ flight.id <= ids
        /\ flight.id \in Nat /\ flight.attempt \in Nat /\ flight.igc \in Nat /\ ids \in Nat
    BY NoFlightType, FlightFields DEF Types, FlightShape
  <1>3. \A j \in Jobs : j.id # 0 /\ j.attempt # 0
    BY BoundsType DEF Jobs
  <1>4. IdsInUse'
    <2>1. blobs' \subseteq 1 .. ids' /\ ids' = ids
      BY DEF Shrinks, Names, IdsInUse
    <2>2. \A j \in Known' : j.id <= ids' /\ j.attempt <= ids'
      BY <1>1, <2>1 DEF Names, IdsInUse
    <2>3. \A u \in unsent' : u.old <= ids'
      BY <2>1 DEF Shrinks, Names, IdsInUse
    <2>4. \A i \in trash' : i <= ids'
      BY <1>2, <2>1 DEF Shrinks, Names, IdsInUse
    <2> QED
      BY <2>1, <2>2, <2>3, <2>4 DEF IdsInUse
  <1>5. ASSUME NEW r \in Uploads'
        PROVE  UploadIsNew(r)'
    <2>1. r \in Uploads /\ r \in asked /\ r \in asked' /\ r.op = "upload" /\ UploadIsNew(r)
      BY <1>1 DEF Uploads, Names, UploadsAreNew
    <2>2. r.id \in blobs'
      BY <2>1 DEF UploadIsNew, Shrinks
    <2>3. \A s \in Uploads' : s.id = r.id => s = r
      BY <1>1, <2>1 DEF UploadIsNew
    <2>4. \A j \in Known' : j.id # r.id /\ j.attempt # r.id
      BY <1>1, <2>1 DEF UploadIsNew
    <2>5. r.id # 0
      BY <1>2, <2>1 DEF UploadIsNew, Names, IdsInUse
    <2>6. r.id # flight'.id /\ r.id # flight'.attempt
      BY <1>2, <2>1, <2>5 DEF UploadIsNew, Shrinks, SameIds
    <2>7. r.id \notin trash'
      BY <1>2, <2>1, <2>5 DEF UploadIsNew, Shrinks
    <2>8. \A u \in unsent' : u.old # r.id
      BY <2>1 DEF UploadIsNew, Shrinks
    <2> QED
      BY <2>2, <2>3, <2>4, <2>6, <2>7, <2>8 DEF UploadIsNew
  <1>6. AttemptHasOneFlight'
    BY <1>1, <1>2, <1>3 DEF Names, AttemptHasOneFlight, Shrinks, SameIds
  <1>7. ASSUME NEW u \in unsent', u.by # "script"
        PROVE  Alone(u)'
    <2>1. u \in unsent /\ Alone(u) /\ u.job.attempt # 0
      BY <1>3, <1>7, KnownType DEF Shrinks, Names, UnsentAlone
    <2>2. \A j \in Underway' : j.attempt # u.job.attempt
      BY <1>7, <2>1 DEF Shrinks, Alone
    <2>3. \A v \in unsent' : v.job.attempt = u.job.attempt => v = u
      BY <2>1 DEF Shrinks, Alone
    <2>4. flight'.attempt = u.job.attempt => flight'.sig = "pending"
      <3>1. CASE flight' = NoFlight
        BY <1>2, <2>1, <3>1
      <3>2. CASE SameIds /\ flight'.sig = flight.sig
        BY <2>1, <3>2 DEF SameIds, Alone
      <3>3. CASE SameIds /\ \E j \in Underway : j.attempt = flight.attempt
        BY <2>1, <3>3 DEF SameIds, Alone
      <3>4. CASE SameIds /\ \E v \in unsent \ unsent' : v.job.attempt = flight.attempt
        BY <1>7, <2>1, <3>4 DEF SameIds, Alone
      <3> QED
        BY <3>1, <3>2, <3>3, <3>4 DEF Shrinks
    <2> QED
      BY <2>2, <2>3, <2>4 DEF Alone
  <1>8. TrackIsKept'
    <2>1. ASSUME flight'.igc # 0
          PROVE  flight'.igc = flight.igc /\ flight' # NoFlight
      BY <1>2, <2>1 DEF Shrinks, SameIds
    <2>2. flight'.igc # 0 => flight'.igc \notin trash'
      BY <2>1 DEF TrackIsKept, Shrinks
    <2>3. flight'.igc # 0 => \A u \in unsent' : u.old # flight'.igc
      BY <2>1 DEF TrackIsKept, Shrinks
    <2>4. flight'.igc # 0 /\ "renewal" \notin world' => flight'.igc \in blobs'
      BY <2>1 DEF TrackIsKept, Shrinks
    <2> QED
      BY <2>2, <2>3, <2>4 DEF TrackIsKept
  <1>9. UploadsAreNew' /\ UnsentAlone'
    BY <1>5, <1>7 DEF UploadsAreNew, UnsentAlone
  <1> QED
    BY <1>4, <1>6, <1>8, <1>9 DEF Names

(* A step that changes neither what is asked nor the messages.             *)
LEMMA QuietShrinks ==
  ASSUME Types, Quiet
  PROVE  Shrinks
  <1>1. TypeOK
    BY DEF Types
  <1>2. \/ flight' = flight
        \/ \E job \in Underway, sig \in Settled :
             IsCurrent(job) /\ flight.sig # "failed" /\ flight' = [flight EXCEPT !.sig = sig]
    BY DEF Quiet, Settles
  <1>3. \/ flight' = flight
        \/ SameIds /\ flight.sig # "failed" /\ \E j \in Underway : j.attempt = flight.attempt
    BY <1>1, <1>2 DEF IsCurrent, SameIds, TypeOK
  <1>4. /\ SameIds
        /\ \/ flight'.sig = flight.sig
           \/ flight.sig # "failed" /\ \E j \in Underway : j.attempt = flight.attempt
    BY <1>3 DEF SameIds
  <1> QED
    BY <1>4 DEF Quiet, Shrinks

LEMMA RequestsShrink ==
  ASSUME Types, Names, TrackIsKept,
         \/ \E op \in {"manual", "delete", "revalidate"} : Begin(op)
         \/ \E r \in asked : CommitRefused(r) \/ CommitDelete(r)
         \/ \E u \in unsent : Send(u) \/ SendFails(u)
         \/ \E i \in trash : DeleteOldIgc(i)
         \/ RequestDies \/ Touches
         \/ \E i \in blobs : DeleteOrphan(i)
  PROVE  Shrinks
  <1>1. TypeOK /\ RequestStep
    BY DEF Types, RequestStep, AskedStep
  <1>2. UNCHANGED <<run, poison>> /\ world' = world
    BY <1>1, RequestFrame
  <1>3. UNCHANGED queue => Underway' = Underway
    BY <1>2, UnderwayKept
  <1>4. flight' = flight => SameIds /\ flight'.sig = flight.sig
    BY DEF SameIds
  <1>5. ASSUME NEW op \in {"manual", "delete", "revalidate"}, Begin(op)
        PROVE  Shrinks
    <2>1. /\ UNCHANGED <<round, blobs, unsent, trash, messages, ids>>
          /\ asked' = asked \union {Request(op)} /\ Request(op).op = op
      BY <1>5 DEF Begin, Request
    <2> QED
      BY <1>2, <1>3, <1>4, <2>1 DEF Shrinks, round, messages
  <1>6. ASSUME NEW r \in asked, CommitRefused(r)
        PROVE  Shrinks
    <2>1. /\ UNCHANGED <<round, unsent, trash, messages, ids>> /\ r.op = "upload"
          /\ asked' = asked \ {r} /\ blobs' = blobs \ {r.id}
      BY <1>6 DEF CommitRefused, IgcPath
    <2>2. r.id # 0 /\ UploadIsNew(r)
      BY <2>1, UploadIds
    <2>3. r.id # flight.igc
      BY <2>2, FlightFields DEF UploadIsNew, Types, FlightShape
    <2>4. \A s \in asked' : s.op = "upload" => s.id # r.id
      BY <2>1, <2>2 DEF UploadIsNew, Uploads
    <2> QED
      BY <1>2, <1>3, <1>4, <2>1, <2>3, <2>4 DEF Shrinks, round, messages
  <1>7. ASSUME NEW r \in asked, CommitDelete(r)
        PROVE  Shrinks
    <2>1. /\ UNCHANGED <<unsent, blobs, messages, ids>> /\ asked' = asked \ {r}
          /\ \/ UNCHANGED <<flight, trash>>
             \/ flight' = NoFlight /\ trash' = trash \union {flight.igc}
      BY <1>7 DEF CommitDelete, WriteUnscored, round
    <2> QED
      BY <1>2, <1>3, <1>4, <2>1 DEF Shrinks, messages
  <1>8. ASSUME NEW u \in unsent, Send(u) \/ SendFails(u)
        PROVE  Shrinks
    <2>1. /\ UNCHANGED <<asked, blobs, ids>> /\ unsent' = unsent \ {u}
          /\ trash' = trash \union ({u.old} \ {0})
          /\ queue' \subseteq queue \union {[job |-> u.job, count |-> 0]}
          /\ \/ UNCHANGED flight
             \/ /\ IsCurrent(u.job) /\ u.by # "script"
                /\ flight' = [flight EXCEPT !.sig = "passed"]
      BY <1>8 DEF Send, SendFails, WriteScored, WriteUnscored, round, messages
    <2>2. \A j \in Underway' : j \in Underway \/ j = u.job
      BY <1>2, <2>1 DEF Underway, Busy
    <2>3. \/ SameIds /\ flight'.sig = flight.sig
          \/ SameIds /\ flight.sig # "failed" /\ u.job.attempt = flight.attempt
      BY <1>1, <1>4, <2>1, PassedFields DEF SameIds, IsCurrent, Names, UnsentAlone, Alone
    <2> QED
      BY <1>2, <2>1, <2>2, <2>3 DEF Shrinks
  <1>9. ASSUME NEW i \in trash, DeleteOldIgc(i)
        PROVE  Shrinks
    <2>1. /\ UNCHANGED <<round, asked, unsent, messages, ids>>
          /\ trash' = trash \ {i} /\ blobs' = blobs \ {i}
      BY <1>9 DEF DeleteOldIgc
    <2>2. i # flight.igc
      BY FlightFields DEF TrackIsKept, Types, TypeOK
    <2>3. \A r \in asked : r.op = "upload" => r.id # i
      BY UploadIds DEF UploadIsNew
    <2> QED
      BY <1>2, <1>3, <1>4, <2>1, <2>2, <2>3 DEF Shrinks, round, messages
  <1>10. CASE RequestDies
    <2>1. /\ UNCHANGED <<round, blobs, messages, ids>>
          /\ asked' \subseteq asked /\ unsent' \subseteq unsent /\ trash' \subseteq trash
      BY <1>10 DEF RequestDies
    <2> QED
      BY <1>2, <1>3, <1>4, <2>1 DEF Shrinks, round, messages
  <1>11. CASE Touches
    <2>1. /\ UNCHANGED <<blobs, requests, queue, ids>>
          /\ \/ flight' = NoFlight
             \/ SameIds /\ flight'.sig = flight.sig
      BY <1>11, TouchFields DEF SameIds
    <2> QED
      BY <1>2, <1>3, <2>1 DEF Shrinks, requests
  <1>12. ASSUME NEW i \in blobs, DeleteOrphan(i)
         PROVE  Shrinks
    <2>1. /\ UNCHANGED <<round, requests, messages, ids>> /\ blobs' = blobs \ {i}
          /\ i # flight.igc /\ \A r \in asked : r.op = "upload" => r.id # i
      BY <1>12 DEF DeleteOrphan, IgcPath
    <2> QED
      BY <1>2, <1>3, <1>4, <2>1 DEF Shrinks, round, requests, messages
  <1> QED
    BY <1>5, <1>6, <1>7, <1>8, <1>9, <1>10, <1>11, <1>12

(* The steps that add an id or a job, one at a time.                       *)

Facts ==
  /\ \A j \in Known : j \in Jobs /\ j.id <= ids /\ j.attempt <= ids /\ j.id # 0 /\ j.attempt # 0
  /\ \A i \in trash : i <= ids
  /\ \A u \in unsent : u.old <= ids /\ u.job \in Known
  /\ blobs \subseteq 1 .. ids
  /\ ids \in Nat /\ flight.id \in Nat /\ flight.attempt \in Nat /\ flight.igc \in Nat
  /\ flight.id <= ids /\ flight.attempt <= ids /\ flight.igc <= ids
  /\ flight.igc \in {0, flight.id}
  /\ \A r \in Uploads : r.id \in 1 .. ids
  /\ Underway \subseteq Known

LEMMA NameFacts ==
  ASSUME Types, Names
  PROVE  Facts
  <1>1. \A j \in Jobs : j.id # 0 /\ j.attempt # 0
    BY BoundsType DEF Jobs
  <1>2. \A r \in Uploads : r.id \in 1 .. ids
    BY DEF Names, UploadsAreNew, UploadIsNew, IdsInUse
  <1> QED
    BY <1>1, <1>2, KnownType, FlightFields DEF Facts, Names, IdsInUse, Types, FlightShape

LEMMA NewIdTypes ==
  ASSUME Types, Names, ids' = ids + 1
  PROVE  /\ ids' > ids /\ ids' # 0 /\ ids' \in Nat
         /\ \A i \in Nat : i <= ids => i <= ids' /\ i # ids'
  BY NameFacts DEF Facts

LEMMA BeginUploadNames ==
  ASSUME Types, Names, TrackIsKept, BeginUpload
  PROVE  Names' /\ TrackIsKept'
  <1> DEFINE new == [Request("upload") EXCEPT !.id = ids']
  <1>1. /\ UNCHANGED <<round, unsent, trash, queue, poison, run, faults>>
        /\ ids' = ids + 1 /\ blobs' = blobs \union {ids'} /\ asked' = asked \union {new}
    BY DEF BeginUpload, IgcPath, messages
  <1>2. new.id = ids' /\ new.op = "upload"
    BY DEF Request
  <1> HIDE DEF new
  <1>3. Uploads' = Uploads \union {new} /\ Underway' = Underway /\ Known' = Known
    BY <1>1, <1>2, UnderwayKept DEF Uploads, Known
  <1>4. Facts /\ ids' > ids /\ ids' # 0 /\ ids' \in Nat
    BY <1>1, NameFacts, NewIdTypes
  <1>5. IdsInUse'
    <2>1. \A j \in Known' : j.id <= ids' /\ j.attempt <= ids'
      <3>1. \A j \in Known : j.id \in Nat /\ j.attempt \in Nat
        BY <1>4, BoundsType DEF Facts, Jobs
      <3> QED
        BY <1>1, <1>3, <1>4, <3>1 DEF Facts
    <2>2. (\A i \in trash' : i <= ids') /\ \A u \in unsent' : u.old <= ids'
      BY <1>1, <1>4 DEF Facts, Types, TypeOK
    <2> QED
      BY <1>1, <1>4, <2>1, <2>2 DEF IdsInUse, Facts
  <1>6. ASSUME NEW r \in Uploads'
        PROVE  UploadIsNew(r)'
    <2>1. r \in Uploads => r.id <= ids /\ r.id \in Nat /\ UploadIsNew(r)
      BY <1>4 DEF Facts, Names, UploadsAreNew
    <2>2. r \in Uploads \/ r = new
      BY <1>3
    <2>3. r.id \in blobs' /\ \A s \in Uploads' : s.id = r.id => s = r
      BY <1>1, <1>2, <1>3, <1>4, <2>1, <2>2 DEF UploadIsNew, Facts
    <2>4. \A j \in Known' : j.id # r.id /\ j.attempt # r.id
      <3>1. \A j \in Known : j.id \in Nat /\ j.attempt \in Nat
        BY <1>4, BoundsType DEF Facts, Jobs
      <3> QED
        BY <1>2, <1>3, <1>4, <2>1, <2>2, <3>1 DEF UploadIsNew, Facts
    <2>5. r.id # flight'.id /\ r.id # flight'.attempt /\ r.id \notin trash'
      BY <1>1, <1>2, <1>4, <2>1, <2>2 DEF UploadIsNew, Facts, round
    <2>6. \A u \in unsent' : u.old # r.id
      BY <1>1, <1>2, <1>4, <2>1, <2>2 DEF UploadIsNew, Facts, Types, TypeOK
    <2> QED
      BY <2>3, <2>4, <2>5, <2>6 DEF UploadIsNew
  <1>7. AttemptHasOneFlight' /\ UnsentAlone'
    BY <1>1, <1>3 DEF Names, AttemptHasOneFlight, UnsentAlone, Alone, round
  <1>8. TrackIsKept'
    BY <1>1 DEF TrackIsKept, round, world
  <1> QED
    BY <1>5, <1>6, <1>7, <1>8 DEF Names, UploadsAreNew

LEMMA CommitNames ==
  ASSUME Types, Names, TrackIsKept, NEW r \in asked, CommitUpload(r) \/ CommitUnrenewed(r)
  PROVE  Names' /\ TrackIsKept'
  <1> DEFINE job == [id |-> r.id, attempt |-> r.id]
  <1>1. /\ r.op = "upload" /\ asked' = asked \ {r} /\ flight' = Uploaded(r)
        /\ UNCHANGED <<queue, poison, run, ids>>
    BY DEF CommitUpload, CommitUnrenewed, WriteUnscored, messages
  <1>2. r.id \in 1 .. ids /\ r.id # 0 /\ UploadIsNew(r) /\ r \in Uploads
    BY <1>1, UploadIds
  <1>3. /\ flight'.id = r.id /\ flight'.igc = r.id
        /\ flight'.attempt \in {0, r.id} /\ (flight'.attempt = r.id => flight'.sig = "pending")
    BY <1>1, <1>2, UploadedFields
  <1>4. Facts /\ Uploads' = Uploads \ {r} /\ Underway' = Underway
    BY <1>1, NameFacts, UnderwayKept DEF Uploads
  <1>5. \/ /\ \A u \in unsent' : \/ u \in unsent
                                 \/ u.job = job /\ u.old = flight.igc /\ unsent' = unsent \union {u}
                                 \/ u.job = job /\ u.old = 0 /\ unsent' = unsent \union {u}
           /\ \A i \in trash' : i \in trash \/ i = flight.igc
           /\ blobs' = blobs /\ world' = world
        \/ /\ unsent' = unsent /\ trash' = trash /\ blobs' = blobs \ {r.id}
           /\ "renewal" \in world' /\ world' = world
    <2>1. CASE CommitUpload(r)
      <3> DEFINE old == {flight.igc} \ {0, IgcPath(r.id)}
                 u == [job |-> job, old |-> IF old = {} THEN 0 ELSE flight.igc, by |-> "upload"]
      <3>1. /\ blobs' = blobs /\ faults' = faults
            /\ \/ unsent' = unsent \union {u} /\ trash' = trash
               \/ trash' = trash \union old /\ unsent' = unsent
        BY <2>1 DEF CommitUpload
      <3>2. u.job = job /\ (u.old = 0 \/ u.old = flight.igc)
        OBVIOUS
      <3> HIDE DEF u
      <3> QED
        BY <3>1, <3>2 DEF world
    <2>2. CASE CommitUnrenewed(r)
      <3>1. Fault("renewal") /\ UNCHANGED <<unsent, trash>> /\ blobs' = blobs \ {r.id}
        BY <2>2 DEF CommitUnrenewed, IgcPath
      <3> QED
        BY <3>1, FaultType DEF Types
    <2> QED
      BY <2>1, <2>2
  <1>6. job.id = r.id /\ job.attempt = r.id
    OBVIOUS
  <1> HIDE DEF job
  <1>7. \A j \in Known' : j \in Known \/ j = job
    BY <1>4, <1>5 DEF Known
  <1>8. IdsInUse'
    <2>1. \A j \in Known' : j.id <= ids' /\ j.attempt <= ids'
      BY <1>1, <1>2, <1>4, <1>6, <1>7 DEF Facts
    <2>2. \A u \in unsent' : u.old <= ids'
      BY <1>1, <1>4, <1>5 DEF Facts
    <2>3. \A i \in trash' : i <= ids'
      BY <1>1, <1>4, <1>5 DEF Facts
    <2> QED
      BY <1>1, <1>4, <1>5, <2>1, <2>2, <2>3 DEF IdsInUse, Facts
  <1>9. ASSUME NEW s \in Uploads'
        PROVE  UploadIsNew(s)'
    <2>1. s \in Uploads /\ s # r /\ UploadIsNew(s) /\ s.id \in 1 .. ids
      BY <1>4 DEF Names, UploadsAreNew, Facts
    <2>2. s.id # r.id /\ s.id # 0
      BY <1>2, <1>4, <2>1 DEF UploadIsNew
    <2>3. s.id \in blobs' /\ \A t \in Uploads' : t.id = s.id => t = s
      BY <1>4, <1>5, <2>1, <2>2 DEF UploadIsNew
    <2>4. \A j \in Known' : j.id # s.id /\ j.attempt # s.id
      BY <1>6, <1>7, <2>1, <2>2 DEF UploadIsNew
    <2>5. s.id # flight'.id /\ s.id # flight'.attempt
      BY <1>3, <2>2
    <2>6. s.id # flight.igc
      BY <1>4, <2>1, <2>2 DEF UploadIsNew, Facts
    <2>7. s.id \notin trash' /\ \A u \in unsent' : u.old # s.id
      BY <1>5, <2>1, <2>2, <2>6 DEF UploadIsNew
    <2> QED
      BY <2>3, <2>4, <2>5, <2>7 DEF UploadIsNew
  <1>10. AttemptHasOneFlight'
    BY <1>2, <1>3, <1>4, <1>6, <1>7 DEF AttemptHasOneFlight, UploadIsNew, Facts
  <1>11. ASSUME NEW u \in unsent', u.by # "script"
         PROVE  Alone(u)'
    <2>1. \A v \in unsent : v.job.attempt # r.id /\ v.job.attempt # 0
      BY <1>2, <1>4 DEF UploadIsNew, Facts
    <2>2. \A j \in Underway : j.attempt # r.id
      BY <1>2, <1>4 DEF UploadIsNew, Facts
    <2>3. CASE u \in unsent
      <3>1. Alone(u)
        BY <1>11, <2>3 DEF Names, UnsentAlone
      <3>2. \A v \in unsent' : v.job.attempt = u.job.attempt => v = u
        BY <1>5, <1>6, <2>1, <2>3, <3>1 DEF Alone
      <3> QED
        BY <1>3, <1>4, <2>1, <2>3, <3>1, <3>2 DEF Alone
    <2>4. CASE u \notin unsent
      <3>1. u.job = job /\ unsent' = unsent \union {u}
        BY <1>5, <2>4
      <3> QED
        BY <1>3, <1>4, <1>6, <2>1, <2>2, <3>1 DEF Alone
    <2> QED
      BY <2>3, <2>4
  <1>12. TrackIsKept'
    <2>1. r.id # flight.igc
      BY <1>2, <1>4 DEF UploadIsNew, Facts
    <2>2. r.id \notin trash' /\ \A u \in unsent' : u.old # r.id
      BY <1>2, <1>5, <2>1 DEF UploadIsNew
    <2>3. "renewal" \notin world' => r.id \in blobs'
      BY <1>2, <1>5 DEF UploadIsNew
    <2> QED
      BY <1>3, <2>2, <2>3 DEF TrackIsKept
  <1> QED
    BY <1>8, <1>9, <1>10, <1>11, <1>12 DEF Names, UploadsAreNew, UnsentAlone

(* A flight under a new id, without a track.                               *)
LEMMA ManualNames ==
  ASSUME Types, Names, TrackIsKept,
         \/ \E r \in asked : CommitManual(r)
         \/ \E manual \in BOOLEAN : LogFlight(manual)
  PROVE  Names' /\ TrackIsKept'
  <1>1. /\ ids' = ids + 1 /\ ids < MaxIds /\ asked' \subseteq asked
        /\ UNCHANGED <<unsent, blobs, queue, poison, run, faults>>
        /\ trash' \subseteq trash \union ({flight.igc} \ {0})
        /\ \E manual \in BOOLEAN : flight' = [NoFlight EXCEPT !.id = ids', !.manual = manual]
    BY DEF CommitManual, LogFlight, WriteUnscored, messages, requests
  <1>2. Facts /\ ids' > ids /\ ids' # 0 /\ ids' \in Nat
    BY <1>1, NameFacts, NewIdTypes
  <1>3. flight'.id = ids' /\ flight'.igc = 0 /\ flight'.attempt = 0
    <2>1. ids' \in 0 .. MaxIds
      BY <1>1, <1>2, BoundsType DEF Types, TypeOK
    <2>2. PICK manual \in BOOLEAN : flight' = [NoFlight EXCEPT !.id = ids', !.manual = manual]
      BY <1>1
    <2> QED
      BY <2>1, <2>2, ManualFields
  <1>4. Uploads' \subseteq Uploads /\ Underway' = Underway /\ Known' = Known
    BY <1>1, UnderwayKept DEF Uploads, Known
  <1>5. \A j \in Known : j.id \in Nat /\ j.attempt \in Nat
    BY <1>2, BoundsType DEF Facts, Jobs
  <1>6. IdsInUse'
    <2>1. \A j \in Known' : j.id <= ids' /\ j.attempt <= ids'
      BY <1>2, <1>4, <1>5 DEF Facts
    <2>2. \A u \in unsent' : u.old <= ids'
      BY <1>1, <1>2 DEF Facts, Types, TypeOK
    <2>3. \A i \in trash' : i <= ids'
      BY <1>1, <1>2 DEF Facts, Types, TypeOK
    <2> QED
      BY <1>1, <1>2, <2>1, <2>2, <2>3 DEF IdsInUse, Facts
  <1>7. ASSUME NEW r \in Uploads'
        PROVE  UploadIsNew(r)'
    <2>1. r \in Uploads /\ UploadIsNew(r) /\ r.id \in 1 .. ids
      BY <1>2, <1>4 DEF Names, UploadsAreNew, Facts
    <2>2. r.id # 0 /\ r.id # ids' /\ r.id # flight.igc
      BY <1>2, <2>1 DEF UploadIsNew, Facts
    <2> QED
      BY <1>1, <1>3, <1>4, <2>1, <2>2 DEF UploadIsNew
  <1>8. AttemptHasOneFlight'
    BY <1>2, <1>3, <1>4 DEF AttemptHasOneFlight, Facts
  <1>9. UnsentAlone'
    BY <1>1, <1>2, <1>3, <1>4 DEF Names, UnsentAlone, Alone, Facts
  <1>10. TrackIsKept'
    BY <1>3 DEF TrackIsKept
  <1> QED
    BY <1>6, <1>7, <1>8, <1>9, <1>10 DEF Names, UploadsAreNew

LEMMA RevalidateNames ==
  ASSUME Types, Names, TrackIsKept, NEW r \in asked, CommitRevalidate(r)
  PROVE  Names' /\ TrackIsKept'
  <1> DEFINE job == [id |-> flight.id, attempt |-> ids']
             u == [job |-> job, old |-> 0, by |-> "revalidate"]
  <1>1. /\ ids' = ids + 1 /\ ids < MaxIds /\ asked' \subseteq asked
        /\ UNCHANGED <<blobs, trash, queue, poison, run>> /\ flight.igc \in blobs
        /\ flight' = Revalidated(ids')
        /\ unsent' = unsent \union {u} \/ unsent' = unsent
    BY DEF CommitRevalidate, WriteScored, messages
  <1>2. Facts /\ ids' > ids /\ ids' # 0 /\ ids' \in Nat
    BY <1>1, NameFacts, NewIdTypes
  <1>3. /\ flight'.id = flight.id /\ flight'.igc = flight.igc
        /\ flight'.attempt = ids' /\ flight'.sig = "pending"
    <2>1. ids' \in 0 .. MaxIds /\ TypeOK
      <3>1. TypeOK
        BY DEF Types
      <3> QED
        BY <1>1, <1>2, <3>1, FlightFields
    <2> QED
      BY <1>1, <2>1, RevalidatedFields
  <1>4. world' = world
    <2>1. r \in asked /\ RequestStep
      BY DEF RequestStep, AskedStep
    <2> QED
      BY <2>1, RequestFrame
  <1>5. job.id = flight.id /\ job.attempt = ids' /\ u.job = job /\ u.old = 0
    OBVIOUS
  <1> HIDE DEF job, u
  <1>6. /\ Uploads' \subseteq Uploads /\ Underway' = Underway
        /\ \A j \in Known' : j \in Known \/ j = job
        /\ \A v \in unsent' : v \in unsent \/ v = u
    BY <1>1, <1>5, UnderwayKept DEF Uploads, Known
  <1>7. \A j \in Known : j.id \in Nat /\ j.attempt \in Nat /\ j.attempt # ids'
    BY <1>2, BoundsType DEF Facts, Jobs
  <1>8. flight.igc # 0 /\ flight.igc = flight.id
    BY <1>1, <1>2 DEF Facts
  <1>9. IdsInUse'
    <2>1. \A j \in Known' : j.id <= ids' /\ j.attempt <= ids'
      BY <1>2, <1>5, <1>6, <1>7 DEF Facts
    <2>2. \A v \in unsent' : v.old <= ids'
      BY <1>2, <1>5, <1>6 DEF Facts, Types, TypeOK
    <2>3. \A i \in trash' : i <= ids'
      BY <1>1, <1>2 DEF Facts, Types, TypeOK
    <2> QED
      BY <1>1, <1>2, <2>1, <2>2, <2>3 DEF IdsInUse, Facts
  <1>10. ASSUME NEW s \in Uploads'
         PROVE  UploadIsNew(s)'
    <2>1. s \in Uploads /\ UploadIsNew(s) /\ s.id \in 1 .. ids
      BY <1>2, <1>6 DEF Names, UploadsAreNew, Facts
    <2>2. s.id # 0 /\ s.id # ids'
      BY <1>2, <2>1 DEF Facts
    <2>3. \A j \in Known' : j.id # s.id /\ j.attempt # s.id
      BY <1>5, <1>6, <2>1, <2>2 DEF UploadIsNew
    <2>4. \A v \in unsent' : v.old # s.id
      BY <1>5, <1>6, <2>1, <2>2 DEF UploadIsNew
    <2> QED
      BY <1>1, <1>3, <1>6, <2>1, <2>2, <2>3, <2>4 DEF UploadIsNew
  <1>11. AttemptHasOneFlight'
    BY <1>3, <1>5, <1>6, <1>7 DEF AttemptHasOneFlight
  <1>12. ASSUME NEW v \in unsent', v.by # "script"
         PROVE  Alone(v)'
    <2>1. \A x \in unsent : x.job.attempt # ids'
      BY <1>2, <1>7 DEF Facts
    <2>2. \A j \in Underway : j.attempt # ids'
      BY <1>2, <1>7 DEF Facts
    <2>3. CASE v \in unsent
      <3>1. Alone(v)
        BY <1>12, <2>3 DEF Names, UnsentAlone
      <3> QED
        BY <1>3, <1>5, <1>6, <2>1, <2>3, <3>1 DEF Alone
    <2>4. CASE v = u
      BY <1>3, <1>5, <1>6, <2>1, <2>2, <2>4 DEF Alone
    <2> QED
      BY <1>6, <2>3, <2>4
  <1>13. TrackIsKept'
    BY <1>1, <1>3, <1>4, <1>5, <1>6, <1>8 DEF TrackIsKept
  <1> QED
    BY <1>9, <1>10, <1>11, <1>12, <1>13 DEF Names, UploadsAreNew, UnsentAlone

LEMMA RedispatchNames ==
  ASSUME Types, Names, TrackIsKept, Redispatch
  PROVE  Names' /\ TrackIsKept'
  <1> DEFINE job == [id |-> flight.id, attempt |-> flight.attempt]
             u == [job |-> job, old |-> 0, by |-> "script"]
  <1>1. /\ UNCHANGED <<flight, blobs, asked, trash, queue, poison, run, ids>>
        /\ flight.sig = "pending" /\ Fault("redispatch")
        /\ \A v \in unsent : v.job.attempt # flight.attempt
        /\ unsent' = unsent \union {u}
    BY DEF Redispatch, round, messages
  <1>2. Facts /\ world' = world
    BY <1>1, NameFacts, FaultType DEF Types
  <1>3. /\ job.id = flight.id /\ job.attempt = flight.attempt
        /\ u.job = job /\ u.old = 0 /\ u.by = "script"
    OBVIOUS
  <1> HIDE DEF job, u
  <1>4. /\ Uploads' = Uploads /\ Underway' = Underway
        /\ \A j \in Known' : j \in Known \/ j = job
        /\ \A v \in unsent' : v \in unsent \/ v = u
    BY <1>1, <1>3, UnderwayKept DEF Uploads, Known
  <1>5. IdsInUse'
    BY <1>1, <1>2, <1>3, <1>4 DEF IdsInUse, Facts
  <1>6. ASSUME NEW s \in Uploads'
        PROVE  UploadIsNew(s)'
    <2>1. s \in Uploads /\ UploadIsNew(s) /\ s.id # 0
      BY <1>2, <1>4 DEF Names, UploadsAreNew, Facts
    <2> QED
      BY <1>1, <1>3, <1>4, <2>1 DEF UploadIsNew
  <1>7. AttemptHasOneFlight'
    BY <1>1, <1>3, <1>4 DEF Names, AttemptHasOneFlight
  <1>8. ASSUME NEW v \in unsent', v.by # "script"
        PROVE  Alone(v)'
    <2>1. v \in unsent /\ Alone(v)
      BY <1>3, <1>4, <1>8 DEF Names, UnsentAlone
    <2> QED
      BY <1>1, <1>3, <1>4, <2>1 DEF Alone
  <1>9. TrackIsKept'
    BY <1>1, <1>2, <1>3, <1>4 DEF TrackIsKept
  <1> QED
    BY <1>5, <1>6, <1>7, <1>8, <1>9 DEF Names, UploadsAreNew, UnsentAlone

LEMMA RequestNames ==
  ASSUME Types, Names, TrackIsKept, RequestStep
  PROVE  Names' /\ TrackIsKept'
  BY RequestsShrink, ShrinksKeepNames, BeginUploadNames, CommitNames, ManualNames,
     RevalidateNames, RedispatchNames
     DEF RequestStep, AskedStep

-----------------------------------------------------------------------------
(* Tracks and scores.                                                      *)

LEMMA RequestTracks ==
  ASSUME Types, Names, TracksAreNamed, RequestStep
  PROVE  TracksAreNamed'
  <1>1. world' = world
    BY RequestFrame
  <1> SUFFICES ASSUME CleansUp
               PROVE  \A i \in blobs' : Named(i)'
    BY <1>1 DEF TracksAreNamed, CleansUp
  <1>2. \A i \in blobs : Named(i) /\ i # 0
    BY DEF TracksAreNamed, Types, TypeOK
  <1>3. "lostRequest" \notin world /\ "renewal" \notin world /\ "update" \notin world
        /\ "reseat" \notin world
    BY DEF CleansUp
  <1>4. CASE BeginUpload
    <2>1. /\ UNCHANGED <<flight, trash, unsent>> /\ asked \subseteq asked'
          /\ blobs' = blobs \union {ids'}
          /\ \E r \in asked' : r.op = "upload" /\ r.id = ids'
      <3> DEFINE new == [Request("upload") EXCEPT !.id = ids']
      <3>1. /\ UNCHANGED <<flight, trash, unsent>> /\ asked' = asked \union {new}
            /\ blobs' = blobs \union {ids'}
        BY <1>4 DEF BeginUpload, round, IgcPath
      <3>2. new.op = "upload" /\ new.id = ids'
        BY DEF Request
      <3> HIDE DEF new
      <3> QED
        BY <3>1, <3>2
    <2> QED
      BY <1>2, <2>1 DEF Named, Uploads
  <1>5. CASE \E op \in {"manual", "delete", "revalidate"} : Begin(op)
    <2>1. UNCHANGED <<flight, trash, unsent, blobs>> /\ asked \subseteq asked'
      BY <1>5 DEF Begin, round
    <2> QED
      BY <1>2, <2>1 DEF Named, Uploads
  <1>6. ASSUME NEW r \in asked, CommitUpload(r)
        PROVE  \A i \in blobs' : Named(i)'
    <2> DEFINE old == {flight.igc} \ {0, IgcPath(r.id)}
               u == [job |-> [id |-> r.id, attempt |-> r.id],
                     old |-> IF old = {} THEN 0 ELSE flight.igc, by |-> "upload"]
    <2>1. /\ r.op = "upload" /\ asked' = asked \ {r} /\ flight' = Uploaded(r) /\ blobs' = blobs
          /\ \/ unsent' = unsent \union {u} /\ trash' = trash
             \/ trash' = trash \union old /\ unsent' = unsent
      BY <1>6 DEF CommitUpload, WriteUnscored
    <2>2. flight'.igc = r.id
      BY <2>1, UploadIds, UploadedFields
    <2>3. old # {} => u.old = flight.igc
      OBVIOUS
    <2>4. flight.igc \in blobs /\ flight.igc # r.id => flight.igc \in old
      BY <1>2 DEF IgcPath
    <2> HIDE DEF old, u
    <2>5. ASSUME NEW i \in blobs
          PROVE  Named(i)'
      <3>1. CASE i = flight.igc /\ i # r.id
        BY <2>1, <2>3, <2>4, <3>1 DEF Named
      <3>2. CASE i = r.id
        BY <2>2, <3>2 DEF Named
      <3>3. CASE i # flight.igc /\ i # r.id
        BY <1>2, <2>1, <3>3 DEF Named, Uploads
      <3> QED
        BY <3>1, <3>2, <3>3
    <2> QED
      BY <2>1, <2>5
  <1>7. ASSUME NEW r \in asked, CommitRefused(r)
        PROVE  \A i \in blobs' : Named(i)'
    <2>1. /\ UNCHANGED <<flight, trash, unsent>> /\ asked' = asked \ {r}
          /\ blobs' = blobs \ {r.id}
      BY <1>7 DEF CommitRefused, round, IgcPath
    <2> QED
      BY <1>2, <2>1 DEF Named, Uploads
  <1>8. ASSUME NEW r \in asked, CommitUnrenewed(r)
        PROVE  FALSE
    BY <1>3, <1>8 DEF CommitUnrenewed, Fault
  <1>9. ASSUME NEW r \in asked, CommitManual(r) \/ CommitDelete(r)
        PROVE  \A i \in blobs' : Named(i)'
    <2>1. /\ UNCHANGED <<unsent, blobs>> /\ asked' = asked \ {r} /\ r.op # "upload"
          /\ trash \subseteq trash'
          /\ flight' = flight \/ flight.igc = 0 \/ flight.igc \in trash'
      BY <1>9 DEF CommitManual, CommitDelete, WriteUnscored, round
    <2> QED
      BY <1>2, <2>1 DEF Named, Uploads
  <1>10. ASSUME NEW r \in asked, CommitRevalidate(r)
         PROVE  \A i \in blobs' : Named(i)'
    <2>1. /\ UNCHANGED <<trash, blobs>> /\ asked' = asked \ {r} /\ r.op # "upload"
          /\ unsent \subseteq unsent' /\ flight' = Revalidated(ids')
      BY <1>10 DEF CommitRevalidate, WriteScored
    <2>2. flight'.igc = flight.igc
      BY <2>1 DEF Revalidated, Types, TypeOK
    <2> QED
      BY <1>2, <2>1, <2>2 DEF Named, Uploads
  <1>11. ASSUME NEW u \in unsent, Send(u) \/ SendFails(u)
         PROVE  \A i \in blobs' : Named(i)'
    <2>1. /\ UNCHANGED <<asked, blobs>> /\ unsent' = unsent \ {u}
          /\ trash' = trash \union ({u.old} \ {0})
          /\ flight' \in {flight, [flight EXCEPT !.sig = "passed"]}
      BY <1>11 DEF Send, SendFails, WriteScored, WriteUnscored, round
    <2>2. flight'.igc = flight.igc
      BY <2>1, PassedFields DEF Types
    <2> QED
      BY <1>2, <2>1, <2>2 DEF Named, Uploads
  <1>12. ASSUME NEW i \in trash, DeleteOldIgc(i)
         PROVE  \A k \in blobs' : Named(k)'
    <2>1. UNCHANGED <<flight, asked, unsent>> /\ trash' = trash \ {i} /\ blobs' = blobs \ {i}
      BY <1>12 DEF DeleteOldIgc, round
    <2> QED
      BY <1>2, <2>1 DEF Named, Uploads
  <1>13. ~RequestDies /\ ~\E manual \in BOOLEAN : LogFlight(manual)
    BY <1>3 DEF RequestDies, LogFlight, Fault
  <1>14. CASE Touches
    <2>1. UNCHANGED <<blobs, requests>> /\ flight'.igc = flight.igc
      BY <1>3, <1>14, TouchFields
    <2> QED
      BY <1>2, <2>1 DEF Named, Uploads, requests
  <1>15. CASE Redispatch
    <2>1. UNCHANGED <<flight, blobs, asked, trash>> /\ unsent \subseteq unsent'
      BY <1>15 DEF Redispatch, round
    <2> QED
      BY <1>2, <2>1 DEF Named, Uploads
  <1>16. CASE \E i \in blobs : DeleteOrphan(i)
    <2>1. UNCHANGED <<flight, requests>> /\ blobs' \subseteq blobs
      BY <1>16 DEF DeleteOrphan, round
    <2> QED
      BY <1>2, <2>1 DEF Named, Uploads, requests
  <1> QED
    BY <1>4, <1>5, <1>6, <1>7, <1>8, <1>9, <1>10, <1>11, <1>12, <1>13, <1>14, <1>15, <1>16
       DEF RequestStep, AskedStep

LEMMA QuietTracks ==
  ASSUME Types, TracksAreNamed, Quiet
  PROVE  TracksAreNamed'
  <1>1. flight'.igc = flight.igc
    BY DEF Quiet, Settles, Types, TypeOK
  <1> QED
    BY <1>1 DEF Quiet, TracksAreNamed, CleansUp, Named, Uploads

ScoreFixed == world \intersect {"manual", "delete", "config"} = {}

LEMMA RequestScores ==
  ASSUME Types, Names, Scored, RequestStep
  PROVE  Scored'
  <1>1. world' = world
    BY RequestFrame
  <1>2. \A r \in asked' : r.op \in {"upload"} \union world'
    <2>1. \A r \in asked' : r \in asked \/ r.op = "upload" \/ r.op \in world
      <3>1. CASE BeginUpload
        <4> DEFINE new == [Request("upload") EXCEPT !.id = ids']
        <4>1. asked' = asked \union {new} /\ new.op = "upload"
          BY <3>1 DEF BeginUpload, Request
        <4> HIDE DEF new
        <4> QED
          BY <4>1
      <3>2. ASSUME NEW op \in {"manual", "delete", "revalidate"}, Begin(op)
            PROVE  \A r \in asked' : r \in asked \/ r.op \in world
        <4>1. asked' = asked \union {Request(op)} /\ op \in world /\ Request(op).op = op
          BY <3>2 DEF Begin, Request
        <4> QED
          BY <4>1
      <3>3. CASE Touches
        BY <3>3, TouchFields DEF requests
      <3>4. CASE AskedStep
        BY <3>4 DEF AskedStep, CommitUpload, CommitRefused, CommitUnrenewed, CommitManual,
                    CommitDelete, CommitRevalidate
      <3>5. CASE \/ \E u \in unsent : Send(u) \/ SendFails(u)
                 \/ \E i \in trash : DeleteOldIgc(i)
                 \/ RequestDies \/ Redispatch
                 \/ \E manual \in BOOLEAN : LogFlight(manual)
                 \/ \E i \in blobs : DeleteOrphan(i)
        BY <3>5 DEF Send, SendFails, DeleteOldIgc, RequestDies, LogFlight, Redispatch,
                    DeleteOrphan, requests
      <3> QED
        BY <3>1, <3>2, <3>3, <3>4, <3>5 DEF RequestStep
    <2> QED
      BY <1>1, <2>1 DEF Scored
  <1> DEFINE Fits == status' = "Complete" => counted' = Counted(flight)'
  <1>3. ScoreFixed => Fits
    <2> SUFFICES ASSUME ScoreFixed PROVE Fits
      OBVIOUS
    <2>1. status = "Complete" => counted = Counted(flight)
      BY DEF Scored, ScoreIsCurrent, ScoreFixed
    <2>2. "manual" \notin world /\ "delete" \notin world /\ "config" \notin world
      BY DEF ScoreFixed
    <2>3. ASSUME UNCHANGED <<round, enabled>> PROVE Fits
      BY <2>1, <2>3 DEF round, Counted, Disqualified
    <2>4. ASSUME status' # "Complete" PROVE Fits
      BY <2>4
    <2>5. ASSUME UNCHANGED enabled, counted' = Counted(flight') PROVE Fits
      BY <2>5 DEF Counted, Disqualified
    <2>6. CASE BeginUpload \/ \E op \in {"manual", "delete", "revalidate"} : Begin(op)
      BY <2>3, <2>6 DEF BeginUpload, Begin
    <2>7. ASSUME NEW r \in asked, CommitUpload(r) \/ CommitUnrenewed(r)
          PROVE  Fits
      BY <2>4, <2>7 DEF CommitUpload, CommitUnrenewed, StillUploadable, WriteUnscored
    <2>8. ASSUME NEW r \in asked, CommitRefused(r)
          PROVE  Fits
      BY <2>3, <2>8 DEF CommitRefused
    <2>9. ASSUME NEW r \in asked, CommitManual(r) \/ CommitDelete(r)
          PROVE  FALSE
      BY <2>2, <2>9 DEF CommitManual, CommitDelete, Scored
    <2>10. ASSUME NEW r \in asked, CommitRevalidate(r)
           PROVE  Fits
      <3>1. UNCHANGED enabled /\ counted' = Counted(flight')
        BY <2>10 DEF CommitRevalidate, WriteScored
      <3> QED
        BY <2>5, <3>1
    <2>11. ASSUME NEW u \in unsent, Send(u)
           PROVE  Fits
      BY <2>3, <2>11 DEF Send
    <2>12. ASSUME NEW u \in unsent, SendFails(u)
           PROVE  Fits
      <3> DEFINE fallback == [flight EXCEPT !.sig = "passed"]
      <3>1. CASE UNCHANGED round
        BY <2>3, <2>12, <3>1 DEF SendFails
      <3>2. CASE WriteScored(fallback)
        <4>1. UNCHANGED enabled /\ counted' = Counted(flight')
          BY <2>12, <3>2 DEF SendFails, WriteScored
        <4> QED
          BY <2>5, <4>1
      <3>3. CASE IsCurrent(u.job) /\ u.by # "script" /\ WriteUnscored(fallback)
        <4>1. flight.sig = "pending"
          BY <3>3 DEF Names, UnsentAlone, Alone, IsCurrent
        <4>2. flight'.sig = "passed" /\ flight'.id = flight.id /\ UNCHANGED <<status, counted>>
          BY <3>3, PassedFields DEF WriteUnscored, Types
        <4> QED
          BY <2>1, <4>1, <4>2 DEF Counted, Disqualified
      <3> QED
        BY <2>12, <3>1, <3>2, <3>3 DEF SendFails
    <2>13. CASE \/ \E i \in trash : DeleteOldIgc(i)
                \/ RequestDies \/ Redispatch
                \/ \E i \in blobs : DeleteOrphan(i)
      BY <2>3, <2>13 DEF DeleteOldIgc, RequestDies, Redispatch, DeleteOrphan
    <2>14. CASE \/ \E manual \in BOOLEAN : LogFlight(manual) \/ UpdateFlight(manual)
                \/ DeleteFlight
      BY <2>4, <2>14 DEF LogFlight, UpdateFlight, DeleteFlight, WriteUnscored
    <2>15. CASE AllowIgc
      <3>1. UNCHANGED enabled /\ counted' = Counted(flight')
        BY <2>15 DEF AllowIgc, WriteScored
      <3> QED
        BY <2>5, <3>1
    <2>16. CASE Complete \/ UpdateRound
      <3>1. UNCHANGED <<enabled, flight>> /\ counted' = Counted(flight)
        BY <2>16 DEF Complete, UpdateRound
      <3> QED
        BY <3>1 DEF Counted, Disqualified
    <2>17. ~SetConfig
      BY <2>2 DEF SetConfig
    <2>18. CASE Reseat
      BY <2>4, <2>18 DEF Reseat, Unlock, Lock, UnregisterSelf, RemovePilot, RegisterSelf
    <2> QED
      BY <2>6, <2>7, <2>8, <2>9, <2>10, <2>11, <2>12, <2>13, <2>14, <2>15, <2>16, <2>17, <2>18
         DEF RequestStep, AskedStep, Touches
  <1>4. ScoreIsCurrent'
    BY <1>1, <1>3 DEF ScoreIsCurrent, ScoreFixed
  <1> QED
    BY <1>2, <1>4 DEF Scored

LEMMA QuietScores ==
  ASSUME Types, Scored, Quiet
  PROVE  Scored'
  <1>1. \A r \in asked' : r.op \in {"upload"} \union world'
    BY DEF Quiet, Scored
  <1>2. UNCHANGED <<flight, counted>> \/ counted' = Counted(flight')
    BY DEF Quiet, Settles
  <1>3. ScoreIsCurrent'
    BY <1>2 DEF Quiet, Scored, ScoreIsCurrent, Counted, Disqualified
  <1> QED
    BY <1>1, <1>3 DEF Scored

-----------------------------------------------------------------------------
(* Calls to the FAI server: requests.                                      *)

EgressKept == GuardKept /\ NoneManual /\ PublishSettled /\ NotCalled /\ CallsRemembered

LEMMA KnownIsNotFresh ==
  ASSUME Types, Names, NEW j \in Known
  PROVE  ~Fresh(j.attempt) /\ j.attempt \in 1 .. MaxIds
  <1>1. Facts /\ j \in Jobs
    BY NameFacts, KnownType
  <1>2. j.attempt \in 1 .. MaxIds
    BY <1>1 DEF Jobs
  <1>3. j.attempt <= ids /\ \A r \in Uploads : r.id # j.attempt
    BY <1>1 DEF Facts, Names, UploadsAreNew, UploadIsNew
  <1> QED
    BY <1>1, <1>2, <1>3, BoundsType DEF Fresh, Facts

(* What a request may start to wait for was never sent.                    *)
LEMMA RequestWaits ==
  ASSUME Types, Names, RequestStep
  PROVE  /\ ids' >= ids
         /\ \A r \in Uploads' : r \in Uploads \/ r.id > ids
         /\ \A a \in 1 .. MaxIds : Waiting(a)' => Waiting(a) \/ Fresh(a)
         /\ \/ flight'.attempt = 0 \/ ~flight'.manual
            \/ flight.attempt # 0 /\ flight'.manual = flight.manual
            \/ "update" \in world
  <1> DEFINE Waits == \A a \in 1 .. MaxIds : Waiting(a)' => Waiting(a) \/ Fresh(a)
             Manual == \/ flight'.attempt = 0 \/ ~flight'.manual
                       \/ flight.attempt # 0 /\ flight'.manual = flight.manual
                       \/ "update" \in world
  <1>1. TypeOK /\ ids \in Nat /\ Facts
    BY NameFacts DEF Types, Facts
  <1>2. ASSUME flight' = flight PROVE Waits /\ Manual
    BY <1>2 DEF Waiting
  <1>3. ASSUME flight'.attempt = 0 PROVE Waits /\ Manual
    BY <1>3, BoundsType DEF Waiting
  <1>4. NoFlight.attempt = 0
    BY NoFlightType
  <1>5. CASE BeginUpload
    <2> DEFINE new == [Request("upload") EXCEPT !.id = ids']
    <2>1. flight' = flight /\ ids' = ids + 1 /\ asked' = asked \union {new} /\ new.id = ids'
      BY <1>5 DEF BeginUpload, round, Request
    <2> HIDE DEF new
    <2>2. \A r \in Uploads' : r \in Uploads \/ r.id > ids
      BY <1>1, <2>1 DEF Uploads
    <2> QED
      BY <1>1, <1>2, <2>1, <2>2
  <1>6. ASSUME NEW op \in {"manual", "delete", "revalidate"}, Begin(op)
        PROVE  /\ ids' = ids /\ Uploads' \subseteq Uploads /\ Waits /\ Manual
    <2>1. flight' = flight /\ ids' = ids /\ asked' = asked \union {Request(op)}
      BY <1>6 DEF Begin, round
    <2>2. Request(op).op # "upload"
      BY DEF Request
    <2> QED
      BY <1>2, <2>1, <2>2 DEF Uploads
  <1>7. ASSUME NEW r \in asked, CommitUpload(r) \/ CommitUnrenewed(r)
        PROVE  ids' = ids /\ Uploads' \subseteq Uploads /\ Waits /\ Manual
    <2>1. /\ r.op = "upload" /\ asked' = asked \ {r} /\ flight' = Uploaded(r) /\ ids' = ids
      BY <1>7 DEF CommitUpload, CommitUnrenewed, WriteUnscored
    <2>2. r.id # 0 /\ r \in Uploads
      BY <2>1, UploadIds
    <2>3. flight'.attempt \in {0, r.id} /\ ~flight'.manual
      BY <2>1, <2>2, UploadedFields
    <2> QED
      BY <2>1, <2>2, <2>3, BoundsType DEF Uploads, Waiting, Fresh
  <1>8. ASSUME NEW r \in asked, CommitRefused(r)
        PROVE  ids' = ids /\ Uploads' \subseteq Uploads /\ Waits /\ Manual
    BY <1>2, <1>8 DEF CommitRefused, round, Uploads
  <1>9. ASSUME (\E r \in asked : CommitManual(r)) \/ \E manual \in BOOLEAN : LogFlight(manual)
        PROVE  ids' >= ids /\ Uploads' \subseteq Uploads /\ Waits /\ Manual
    <2>1. /\ ids' = ids + 1 /\ ids < MaxIds /\ asked' \subseteq asked
          /\ \E manual \in BOOLEAN : flight' = [NoFlight EXCEPT !.id = ids', !.manual = manual]
      BY <1>9 DEF CommitManual, LogFlight, WriteUnscored, requests
    <2>2. ids' \in 0 .. MaxIds
      BY <1>1, <2>1, BoundsType
    <2>3. flight'.attempt = 0
      <3>1. PICK manual \in BOOLEAN : flight' = [NoFlight EXCEPT !.id = ids', !.manual = manual]
        BY <2>1
      <3> QED
        BY <2>2, <3>1, ManualFields
    <2> QED
      BY <1>1, <1>3, <2>1, <2>3 DEF Uploads
  <1>10. ASSUME NEW r \in asked, CommitDelete(r)
         PROVE  ids' = ids /\ Uploads' \subseteq Uploads /\ Waits /\ Manual
    <2>1. asked' \subseteq asked /\ flight' \in {flight, NoFlight} /\ ids' = ids
      BY <1>10 DEF CommitDelete, WriteUnscored, round
    <2> QED
      BY <1>2, <1>3, <1>4, <2>1 DEF Uploads
  <1>11. ASSUME NEW r \in asked, CommitRevalidate(r)
         PROVE  ids' >= ids /\ Uploads' \subseteq Uploads /\ Waits /\ Manual
    <2>1. /\ asked' \subseteq asked /\ ids' = ids + 1 /\ ids < MaxIds /\ ~flight.manual
          /\ flight' = Revalidated(ids')
      BY <1>11 DEF CommitRevalidate, WriteScored
    <2>2. ids' \in 0 .. MaxIds
      BY <1>1, <2>1, BoundsType
    <2>3. flight'.attempt = ids' /\ ~flight'.manual
      BY <1>1, <2>1, <2>2, RevalidatedFields
    <2> QED
      BY <1>1, <2>1, <2>3 DEF Uploads, Waiting, Fresh
  <1>12. ASSUME NEW u \in unsent, Send(u) \/ SendFails(u)
         PROVE  ids' = ids /\ Uploads' \subseteq Uploads /\ Waits /\ Manual
    <2>1. /\ asked' = asked /\ ids' = ids
          /\ flight' \in {flight, [flight EXCEPT !.sig = "passed"]}
      BY <1>12 DEF Send, SendFails, WriteScored, WriteUnscored, round
    <2>2. CASE flight' = [flight EXCEPT !.sig = "passed"]
      <3>1. /\ flight'.sig = "passed" /\ flight'.attempt = flight.attempt
            /\ flight'.manual = flight.manual
        BY <1>1, <2>2, PassedFields
      <3> QED
        BY <2>1, <3>1 DEF Uploads, Waiting
    <2> QED
      BY <1>2, <2>1, <2>2 DEF Uploads
  <1>13. ASSUME \/ \E i \in trash : DeleteOldIgc(i)
                \/ RequestDies \/ Redispatch
                \/ \E i \in blobs : DeleteOrphan(i)
         PROVE  ids' = ids /\ Uploads' \subseteq Uploads /\ Waits /\ Manual
    <2>1. asked' \subseteq asked /\ flight' = flight /\ ids' = ids
      BY <1>13 DEF DeleteOldIgc, RequestDies, Redispatch, DeleteOrphan, round, requests
    <2> QED
      BY <1>2, <2>1 DEF Uploads
  <1>14. CASE Touches
    <2>1. /\ UNCHANGED <<requests, ids>>
          /\ \/ flight' = NoFlight
             \/ /\ flight'.attempt = flight.attempt /\ flight'.sig = flight.sig
                /\ flight'.manual = flight.manual \/ "update" \in world
      BY <1>14, TouchFields
    <2>2. Waits /\ Manual
      BY <1>3, <1>4, <2>1 DEF Waiting
    <2>3. ids' = ids /\ Uploads' \subseteq Uploads
      BY <2>1 DEF Uploads, requests
    <2> QED
      BY <1>1, <2>2, <2>3
  <1> QED
    BY <1>1, <1>5, <1>6, <1>7, <1>8, <1>9, <1>10, <1>11, <1>12, <1>13, <1>14
       DEF RequestStep, AskedStep

LEMMA RequestEgress ==
  ASSUME Types, Names, Egress, RequestStep
  PROVE  Egress'
  <1>1. UNCHANGED <<durable, guard, calls, run>> /\ world' = world
    BY RequestFrame
  <1>2. CallsGuarded'
    BY <1>1 DEF Egress, CallsGuarded
  <1>3. ASSUME Steady
        PROVE  EgressKept'
    <2>1. EgressKept
      BY <1>3 DEF Egress, EgressKept
    <2>2. GuardKept' /\ NotCalled'
      BY <1>1, <2>1 DEF EgressKept, GuardKept, NotCalled
    <2>3. NoneManual'
      <3>1. "update" \notin world
        BY <1>3 DEF Steady
      <3> QED
        BY <2>1, <3>1, RequestWaits DEF EgressKept, NoneManual
    <2>4. PublishSettled'
      <3>1. ASSUME NEW w \in Workers, run[w].pc = "publish"
            PROVE  ~Waiting(run[w].job.attempt)'
        <4>1. run[w].job \in Known
          BY <3>1 DEF Known, Underway, Busy
        <4>2. ~Waiting(run[w].job.attempt)
          BY <2>1, <3>1 DEF EgressKept, PublishSettled
        <4> DEFINE a == run[w].job.attempt
        <4>3. a \in 1 .. MaxIds /\ ~Fresh(a)
          BY <4>1, KnownIsNotFresh
        <4>4. a' = a
          BY <1>1
        <4> HIDE DEF a
        <4>5. ~Waiting(a) /\ a \in 1 .. MaxIds
          BY <4>2, <4>3 DEF a
        <4>6. ~(flight'.attempt = a /\ flight'.sig = "pending")
          BY <4>3, <4>5, RequestWaits DEF Waiting
        <4> QED
          BY <4>4, <4>6 DEF Waiting, a
      <3> QED
        BY <1>1, <3>1 DEF PublishSettled, Waiting
    <2>5. ASSUME NEW a \in 1 .. MaxIds, calls[a] # 0
          PROVE  ~Fresh(a)' /\ Remembered(a)'
      <3>1. ~Fresh(a) /\ Remembered(a)
        BY <2>1, <2>5 DEF EgressKept, CallsRemembered
      <3>2. ~Fresh(a)'
        <4>1. ids \in Nat /\ ids' \in Nat /\ ids' >= ids /\ a \in Nat
          <5>1. TypeOK /\ TypeOK'
            BY RequestTypes DEF Types
          <5> QED
            BY <5>1, RequestWaits, BoundsType DEF TypeOK
        <4>2. a <= ids /\ \A r \in Uploads : r.id # a
          BY <3>1, <4>1 DEF Fresh
        <4>3. \A r \in Uploads' : r.id # a
          BY <4>1, <4>2, RequestWaits
        <4> QED
          BY <4>1, <4>2, <4>3 DEF Fresh
      <3>3. Waiting(a)' => Waiting(a)
        BY <3>1, RequestWaits
      <3>4. Remembered(a)'
        BY <1>1, <3>1, <3>3 DEF Remembered
      <3> QED
        BY <3>2, <3>4
    <2>6. CallsRemembered'
      BY <1>1, <2>1, <2>5 DEF EgressKept, CallsRemembered
    <2> QED
      BY <2>2, <2>3, <2>4, <2>6 DEF EgressKept
  <1>4. Steady' => Steady
    BY <1>1 DEF Steady
  <1> QED
    BY <1>2, <1>3, <1>4 DEF Egress, EgressKept

-----------------------------------------------------------------------------
(* Calls to the FAI server: invocations, the guard and poison.             *)

LEMMA NotApplicable ==
  ASSUME Types, Names, NoneManual, NEW job \in Known, ~Applicable(job)
  PROVE  ~Waiting(job.attempt)
  <1>1. job.attempt # 0
    BY NameFacts DEF Facts
  <1> QED
    BY <1>1 DEF Names, AttemptHasOneFlight, NoneManual, Applicable, IsCurrent, Waiting

LEMMA QuietWaits ==
  ASSUME Types, Quiet
  PROVE  /\ \A a \in 1 .. MaxIds : (Waiting(a)' => Waiting(a)) /\ (Fresh(a)' <=> Fresh(a))
         /\ NoneManual => NoneManual'
  <1>1. /\ flight'.attempt = flight.attempt /\ flight'.manual = flight.manual
        /\ flight'.sig = flight.sig \/ flight'.sig # "pending"
    BY SettledType DEF Quiet, Settles, Types, TypeOK
  <1>2. ids' = ids /\ Uploads' = Uploads
    BY DEF Quiet, Uploads
  <1> QED
    BY <1>1, <1>2 DEF Waiting, Fresh, NoneManual

LEMMA SettledWaits ==
  ASSUME Types, NEW job \in Jobs, NEW sig \in Settled, Settles(job, sig)
  PROVE  ~Waiting(job.attempt)'
  BY SettledType DEF Settles, Types, TypeOK, Waiting

(* The guard of another invocation is left alone.                          *)
LEMMA GuardSteps ==
  ASSUME Types, NEW w \in Workers, WorkerStep(w), NEW v \in Workers, v # w, guard = v
  PROVE  guard' = v
  BY BoundsType
     DEF WorkerStep, Proceeds, Fails, Dequeue, Resolve, Acquire, Contended, Check, Call,
         CallReturns, Record, Apply, Publish, ApplyUnrenewed, Throws, Crash, Stall, Releases

LEMMA CallsStayGuarded ==
  ASSUME Types, CallsGuarded, NEW w \in Workers, WorkerStep(w)
  PROVE  CallsGuarded'
  <1> SUFFICES ASSUME NEW v \in Workers, run'[v].pc = "calling" PROVE guard' = v
    BY DEF CallsGuarded
  <1>1. CASE v # w
    <2>1. run'[v] = run[v]
      BY <1>1, WorkerOutline DEF Outline, Others
    <2> QED
      BY <1>1, <2>1, GuardSteps DEF CallsGuarded
  <1>2. CASE v = w
    <2>1. CASE Stall(w)
      <3>1. run[w].pc = "calling" /\ guard' = guard
        BY <1>2, <2>1, StallOutline DEF Stall
      <3> QED
        BY <1>2, <3>1 DEF CallsGuarded
    <2>2. CASE Call(w)
      <3>1. guard' = guard /\ guard = w
        BY <1>2, <2>2, CallOutline DEF Call, Quits
      <3> QED
        BY <1>2, <3>1
    <2>3. CASE ~Stall(w) /\ ~Call(w)
      <3>1. \A m \in queue : Dequeue(w, m) => run'[w].pc # "calling"
        BY <1>2, DequeueOutline DEF Starts, Dequeue
      <3>2. run'[w].pc # "calling"
        BY <2>3, <3>1, ContendedOutline, ResolveOutline, AcquireOutline, CheckOutline,
           CallReturnsOutline, RecordOutline, OtherOutlines
           DEF WorkerStep, Proceeds, Fails, Quits
      <3> QED
        BY <1>2, <3>2
    <2> QED
      BY <2>1, <2>2, <2>3
  <1> QED
    BY <1>1, <1>2

(* An invocation comes under the guard where there is no result, or has    *)
(* been under it.                                                          *)
LEMMA PacedSteps ==
  ASSUME Types, NEW w \in Workers, WorkerStep(w), run'[w].pc \in Paced
  PROVE  /\ run'[w].job = run[w].job /\ Busy(w)
         /\ \/ run[w].pc \in Paced /\ guard' = guard /\ durable' = durable
            \/ guard' = w /\ durable' = durable /\ durable[run[w].job.attempt] = "none"
  <1>1. \A m \in queue : ~Dequeue(w, m)
    <2> SUFFICES ASSUME NEW m \in queue, Dequeue(w, m) PROVE FALSE
      OBVIOUS
    <2>1. Starts(w) \/ run'[w].pc = "idle"
      BY DequeueOutline DEF Dequeue
    <2> QED
      BY <2>1 DEF Starts, Paced
  <1>2. CASE Acquire(w)
    BY <1>2, AcquireOutline DEF Acquire, Stays, Quits, Paced
  <1>3. CASE Check(w)
    BY <1>3, CheckOutline DEF Check, Stays, Quits, Paced
  <1>4. CASE Call(w)
    BY <1>4, CallOutline DEF Call, Stays, Quits, Paced
  <1>5. CASE CallReturns(w)
    BY <1>5, CallReturnsOutline DEF CallReturns, Stays, Paced
  <1>6. CASE Stall(w)
    BY <1>6, StallOutline DEF Stall, Stays, Paced
  <1>7. CASE Resolve(w) \/ Contended(w) \/ Record(w) \/ Apply(w) \/ Publish(w)
             \/ ApplyUnrenewed(w) \/ Throws(w) \/ Crash(w)
    <2>1. run'[w].pc \in {"idle", "guard", "apply", "publish"}
      BY <1>7, ContendedOutline, ResolveOutline, RecordOutline, OtherOutlines DEF Quits
    <2> QED
      BY <2>1 DEF Paced
  <1> QED
    BY <1>1, <1>2, <1>3, <1>4, <1>5, <1>6, <1>7 DEF WorkerStep, Proceeds, Fails

(* No other step creates a result.                                         *)
LEMMA ResultSteps ==
  ASSUME Types, NEW w \in Workers, WorkerStep(w), ~Record(w)
  PROVE  \/ durable' = durable
         \/ \E a : Forget(a)
  BY DEF WorkerStep, Proceeds, Fails, Dequeue, Resolve, Acquire, Contended, Check, Call,
         CallReturns, Apply, Publish, ApplyUnrenewed, Throws, Crash, Stall

LEMMA GuardStaysKept ==
  ASSUME Types, GuardKept, NEW w \in Workers, WorkerStep(w)
  PROVE  GuardKept'
  <1> SUFFICES ASSUME NEW v \in Workers, run'[v].pc \in Paced
               PROVE  guard' = v /\ durable'[run'[v].job.attempt] = "none"
    BY DEF GuardKept
  <1>1. CASE v = w
    BY <1>1, PacedSteps DEF GuardKept
  <1>2. CASE v # w
    <2>1. run'[v] = run[v] /\ guard = v /\ durable[run[v].job.attempt] = "none"
      BY <1>2, WorkerOutline DEF Outline, Others, GuardKept
    <2>2. guard' = v
      BY <1>2, <2>1, GuardSteps
    <2>3. ~Record(w)
      BY <1>2, <2>1 DEF GuardKept, Record, Paced
    <2>4. run[v].job \in Jobs
      BY <2>1 DEF Types, BusyHasJob, Busy, Paced
    <2>5. durable'[run[v].job.attempt] = "none"
      <3>1. durable \in [1 .. MaxIds -> Verdicts \union {"none"}]
            /\ run[v].job.attempt \in 1 .. MaxIds
        BY <2>4 DEF Types, TypeOK, Jobs
      <3> QED
        BY <2>1, <2>3, <3>1, ResultSteps DEF Forget
    <2> QED
      BY <2>1, <2>2, <2>5
  <1> QED
    BY <1>1, <1>2

(* A result is forgotten when no flight waits for it any more.             *)
Forgets == \A a \in 1 .. MaxIds : durable[a] # "none" /\ durable'[a] = "none" => ~Waiting(a)'

LEMMA ForgetAttempt ==
  ASSUME Types, NEW job \in Jobs, Forget(job.attempt), ~Waiting(job.attempt)'
  PROVE  Forgets
  <1>1. durable \in [1 .. MaxIds -> Verdicts \union {"none"}]
    BY DEF Types, TypeOK
  <1>2. job.attempt' = job.attempt
    OBVIOUS
  <1> SUFFICES ASSUME NEW a \in 1 .. MaxIds, durable[a] # "none", durable'[a] = "none"
               PROVE  ~Waiting(a)'
    BY DEF Forgets
  <1>3. a = job.attempt
    BY <1>1 DEF Forget
  <1> QED
    BY <1>3

LEMMA WorkerForgets ==
  ASSUME Types, Names, NoneManual, PublishSettled, NEW w \in Workers, WorkerStep(w)
  PROVE  Forgets
  <1>1. Quiet /\ durable \in [1 .. MaxIds -> Verdicts \union {"none"}]
    BY WorkerIsQuiet DEF Types, TypeOK
  <1>2. ASSUME NEW job \in Known, Forget(job.attempt), ~Waiting(job.attempt)
        PROVE  Forgets
    <2>1. job \in Jobs /\ job.attempt \in 1 .. MaxIds
      BY KnownType, KnownIsNotFresh
    <2>2. ~Waiting(job.attempt)'
      BY <1>1, <1>2, <2>1, QuietWaits
    <2> QED
      BY <1>2, <2>1, <2>2, ForgetAttempt
  <1>3. ASSUME durable' = durable PROVE Forgets
    BY <1>3 DEF Forgets
  <1>4. Busy(w) => \E job \in Known : job = run[w].job
    BY DEF Known, Underway
  <1>5. ASSUME NEW m \in queue, Dequeue(w, m)
        PROVE  Forgets
    <2>1. m.job \in Known
      BY DEF Known, Underway
    <2>2. CASE ~Applicable(m.job)
      <3>1. PICK job \in Known : job = m.job
        BY <2>1
      <3>2. Forget(job.attempt) /\ ~Waiting(job.attempt)
        BY <1>5, <2>2, <3>1, NotApplicable DEF Dequeue
      <3> QED
        BY <1>2, <3>2
    <2>3. CASE Applicable(m.job)
      BY <1>3, <1>5, <2>3 DEF Dequeue
    <2> QED
      BY <2>2, <2>3
  <1>6. CASE Check(w)
    <2>1. PICK job \in Known : job = run[w].job
      BY <1>4, <1>6 DEF Check, Busy
    <2>2. CASE ~Applicable(job)
      <3>1. Forget(job.attempt) /\ ~Waiting(job.attempt)
        BY <1>6, <2>1, <2>2, NotApplicable DEF Check
      <3> QED
        BY <1>2, <3>1
    <2>3. CASE Applicable(job)
      BY <1>3, <1>6, <2>1, <2>3 DEF Check
    <2> QED
      BY <2>2, <2>3
  <1>7. CASE Apply(w)
    <2>1. PICK job \in Known : job = run[w].job
      BY <1>4, <1>7 DEF Apply, Busy
    <2>2. CASE Verdict(job, run[w].result) = {}
      <3>1. Forget(job.attempt)
        BY <1>7, <2>1, <2>2 DEF Apply
      <3>2. ~Applicable(job) \/ flight.sig = "failed"
        BY <2>2 DEF Verdict
      <3>3. ~Waiting(job.attempt)
        BY <3>2, NotApplicable DEF Waiting
      <3> QED
        BY <1>2, <3>1, <3>3
    <2>3. CASE Verdict(job, run[w].result) # {}
      BY <1>3, <1>7, <2>1, <2>3 DEF Apply
    <2> QED
      BY <2>2, <2>3
  <1>8. CASE Publish(w)
    <2>1. PICK job \in Known : job = run[w].job
      BY <1>4, <1>8 DEF Publish, Busy
    <2>2. Forget(job.attempt) /\ ~Waiting(job.attempt)
      BY <1>8, <2>1 DEF Publish, PublishSettled
    <2> QED
      BY <1>2, <2>2
  <1>9. CASE Record(w)
    <2>1. \/ durable' = durable
          \/ /\ durable' = [durable EXCEPT ![run[w].job.attempt] = run[w].result]
             /\ run[w].result \in Verdicts
      BY <1>9, RecordOutline
    <2>2. "none" \notin Verdicts
      BY DEF Verdicts
    <2> QED
      BY <1>1, <2>1, <2>2 DEF Forgets
  <1>10. CASE Resolve(w) \/ Acquire(w) \/ Contended(w) \/ Call(w) \/ CallReturns(w)
              \/ ApplyUnrenewed(w) \/ Throws(w) \/ Crash(w) \/ Stall(w)
    BY <1>3, <1>10
       DEF Resolve, Acquire, Contended, Call, CallReturns, ApplyUnrenewed, Throws, Crash, Stall
  <1> QED
    BY <1>5, <1>6, <1>7, <1>8, <1>9, <1>10 DEF WorkerStep, Proceeds, Fails

LEMMA PublishStaysSettled ==
  ASSUME Types, Names, PublishSettled, NEW w \in Workers, WorkerStep(w)
  PROVE  PublishSettled'
  <1>1. Quiet
    BY WorkerIsQuiet
  <1> SUFFICES ASSUME NEW v \in Workers, run'[v].pc = "publish",
                      flight'.attempt = run'[v].job.attempt, flight'.sig = "pending"
               PROVE  FALSE
    BY DEF PublishSettled, Waiting
  <1>2. ASSUME run[v].pc = "publish", run'[v].job = run[v].job
        PROVE  FALSE
    <2>1. PICK job \in Known : job = run[v].job
      BY <1>2 DEF Known, Underway, Busy
    <2>2. job.attempt \in 1 .. MaxIds /\ ~Waiting(job.attempt)
      BY <1>2, <2>1, KnownIsNotFresh DEF PublishSettled
    <2>3. ~Waiting(job.attempt)'
      BY <1>1, <2>2, QuietWaits
    <2> QED
      BY <1>2, <2>1, <2>3 DEF Waiting
  <1>3. CASE v # w
    BY <1>2, <1>3, WorkerOutline DEF Outline, Others
  <1>4. CASE v = w /\ Stall(w)
    BY <1>2, <1>4, StallOutline DEF Stays
  <1>5. CASE v = w /\ Apply(w)
    <2>1. /\ Stays(w) /\ Verdict(run[w].job, run[w].result) # {}
      BY <1>5, OtherOutlines DEF Quits
    <2>2. PICK f \in Verdict(run[w].job, run[w].result) : WriteScored(f)
      BY <1>5, <2>1 DEF Apply
    <2>3. run[w].result \in Settled
      BY <1>5 DEF Apply, Types, ResultsAreSettled
    <2>4. flight'.sig = run[w].result
      BY <2>2 DEF Verdict, Judged, WriteScored, Types, TypeOK
    <2> QED
      BY <2>3, <2>4, SettledType
  <1>6. CASE v = w /\ ~Stall(w) /\ ~Apply(w)
    <2>1. \A m \in queue : ~Dequeue(w, m)
      <3> SUFFICES ASSUME NEW m \in queue, Dequeue(w, m) PROVE FALSE
        OBVIOUS
      <3>1. Starts(w) \/ run'[w].pc = "idle"
        BY DequeueOutline DEF Dequeue
      <3> QED
        BY <1>6, <3>1 DEF Starts
    <2> QED
      BY <1>6, <2>1, ContendedOutline, ResolveOutline, AcquireOutline, CheckOutline, CallOutline,
         CallReturnsOutline, RecordOutline, OtherOutlines
         DEF WorkerStep, Proceeds, Fails, Quits
  <1> QED
    BY <1>3, <1>4, <1>5, <1>6

(* Under the guard, an attempt that nobody remembers was not sent.         *)
LEMMA NothingSent ==
  ASSUME Types, GuardKept, CallsRemembered, NEW w \in Workers, run[w].pc \in {"check", "call"},
         Applicable(run[w].job), flight.sig = "pending"
  PROVE  calls[run[w].job.attempt] = 0
  <1> DEFINE a == run[w].job.attempt
  <1>1. run[w].job \in Jobs
    BY DEF Types, BusyHasJob, Busy
  <1>2. a \in 1 .. MaxIds
    BY <1>1 DEF Jobs
  <1>3. guard = w /\ durable[a] = "none"
    BY DEF GuardKept, Paced
  <1>4. Waiting(a)
    BY DEF Applicable, IsCurrent, Waiting
  <1>5. ~\E v \in Workers : run[v].pc \in {"calling", "record"} /\ run[v].job.attempt = a
    BY <1>3 DEF GuardKept, Paced
  <1> HIDE DEF a
  <1>6. ~Remembered(a)
    BY <1>3, <1>4, <1>5 DEF Remembered
  <1>7. calls[a] = 0
    BY <1>2, <1>6 DEF CallsRemembered
  <1> QED
    BY <1>7 DEF a

LEMMA StaysNotCalled ==
  ASSUME Types, EgressKept, NEW w \in Workers, WorkerStep(w)
  PROVE  NotCalled'
  <1> SUFFICES ASSUME NEW v \in Workers, run'[v].pc = "call"
               PROVE  calls'[run'[v].job.attempt] = 0
    BY DEF NotCalled
  <1>1. CASE v # w
    <2>1. run'[v] = run[v] /\ calls[run[v].job.attempt] = 0 /\ guard = v
      BY <1>1, WorkerOutline DEF Outline, Others, EgressKept, NotCalled, GuardKept, Paced
    <2>2. ~Call(w)
      BY <1>1, <2>1 DEF Call, EgressKept, GuardKept, Paced
    <2>3. calls' = calls
      BY <2>2
         DEF WorkerStep, Proceeds, Fails, Dequeue, Resolve, Acquire, Contended, Check,
             CallReturns, Record, Apply, Publish, ApplyUnrenewed, Throws, Crash, Stall
    <2> QED
      BY <2>1, <2>3
  <1>2. CASE v = w /\ Stall(w)
    BY <1>2, StallOutline DEF Stays, Stall, EgressKept, NotCalled
  <1>3. CASE v = w /\ Check(w)
    <2>1. /\ Stays(w) /\ Applicable(run[w].job) /\ flight.sig = "pending" /\ calls' = calls
          /\ run[w].pc = "check"
      BY <1>3, CheckOutline DEF Check, Quits
    <2> QED
      BY <1>3, <2>1, NothingSent DEF Stays, EgressKept
  <1>4. CASE v = w /\ ~Stall(w) /\ ~Check(w)
    <2>1. \A m \in queue : ~Dequeue(w, m)
      <3> SUFFICES ASSUME NEW m \in queue, Dequeue(w, m) PROVE FALSE
        OBVIOUS
      <3>1. Starts(w) \/ run'[w].pc = "idle"
        BY DequeueOutline DEF Dequeue
      <3> QED
        BY <1>4, <3>1 DEF Starts
    <2> QED
      BY <1>4, <2>1, ContendedOutline, ResolveOutline, AcquireOutline, CallOutline,
         CallReturnsOutline, RecordOutline, OtherOutlines
         DEF WorkerStep, Proceeds, Fails, Quits
  <1> QED
    BY <1>1, <1>2, <1>3, <1>4

LEMMA CallsStayRemembered ==
  ASSUME Types, Names, EgressKept, Steady, NEW w \in Workers, WorkerStep(w)
  PROVE  CallsRemembered'
  <1>1. Quiet /\ Forgets /\ durable \in [1 .. MaxIds -> Verdicts \union {"none"}]
    BY WorkerIsQuiet, WorkerForgets DEF EgressKept, Types, TypeOK
  <1>2. GuardKept /\ CallsRemembered /\ NotCalled
    BY DEF EgressKept
  <1> SUFFICES ASSUME NEW a \in 1 .. MaxIds
               PROVE  calls'[a] <= 1 /\ (calls'[a] # 0 => ~Fresh(a)' /\ Remembered(a)')
    BY DEF CallsRemembered
  <1>3. \A b \in 1 .. MaxIds : (Waiting(b)' => Waiting(b)) /\ (Fresh(b)' <=> Fresh(b))
    BY <1>1, QuietWaits
  <1>4. ASSUME NEW v \in Workers, run'[v].pc \in {"calling", "record"}, run'[v].job.attempt = a
        PROVE  Remembered(a)'
    BY <1>4 DEF Remembered
  <1>5. CASE Call(w) /\ guard = w /\ run[w].job.attempt = a
    <2>1. /\ Stays(w) /\ run'[w].pc = "calling"
          /\ calls' = [calls EXCEPT ![a] = @ + 1] /\ calls[a] = 0
      BY <1>2, <1>5, CallOutline DEF Call, NotCalled
    <2>2. calls'[a] = 1
      BY <2>1 DEF Types, TypeOK
    <2>3. ~Fresh(a)
      BY <1>5, KnownIsNotFresh DEF Known, Underway, Busy, Call
    <2> QED
      BY <1>3, <1>4, <1>5, <2>1, <2>2, <2>3 DEF Stays
  <1>6. CASE ~(Call(w) /\ guard = w /\ run[w].job.attempt = a)
    <2>1. calls'[a] = calls[a]
      <3>1. CASE Call(w)
        <4>1. calls \in [1 .. MaxIds -> Nat]
          BY DEF Types, TypeOK
        <4>2. \/ calls' = calls
              \/ /\ calls' = [calls EXCEPT ![run[w].job.attempt] = @ + 1]
                 /\ run[w].job.attempt # a
          BY <1>6, <3>1, CallOutline
        <4> QED
          BY <4>1, <4>2
      <3>2. CASE ~Call(w)
        BY <3>2
           DEF WorkerStep, Proceeds, Fails, Dequeue, Resolve, Acquire, Contended, Check,
               CallReturns, Record, Apply, Publish, ApplyUnrenewed, Throws, Crash, Stall
      <3> QED
        BY <3>1, <3>2
    <2>2. ASSUME calls[a] # 0
          PROVE  Remembered(a)'
      <3>1. Remembered(a)
        BY <1>2, <2>2 DEF CallsRemembered
      <3>2. CASE ~Waiting(a)
        BY <1>3, <3>2 DEF Remembered
      <3>3. CASE durable[a] # "none"
        BY <1>1, <3>3 DEF Forgets, Remembered
      <3>4. ASSUME NEW v \in Workers, run[v].pc \in {"calling", "record"},
                   run[v].job.attempt = a
            PROVE  Remembered(a)'
        <4>1. CASE v # w
          BY <1>4, <3>4, <4>1, WorkerOutline DEF Outline, Others
        <4>2. CASE v = w /\ Stall(w)
          BY <1>4, <3>4, <4>2, StallOutline DEF Stays
        <4>3. CASE v = w /\ CallReturns(w)
          BY <1>4, <3>4, <4>3, CallReturnsOutline DEF Stays
        <4>4. CASE v = w /\ Record(w)
          <5>1. durable[a] = "none"
            BY <1>2, <3>4, <4>4 DEF GuardKept, Paced
          <5>2. durable' = [durable EXCEPT ![a] = run[w].result] /\ run[w].result \in Verdicts
            BY <3>4, <4>4, <5>1, RecordOutline
          <5>3. durable'[a] # "none"
            BY <1>1, <5>2 DEF Verdicts
          <5> QED
            BY <5>3 DEF Remembered
        <4>5. ~Crash(w) /\ ~(Throws(w) /\ v = w)
          BY <3>4 DEF Steady, Crash, Throws, Fault
        <4>6. CASE v = w /\ ~Stall(w) /\ ~CallReturns(w) /\ ~Record(w)
          BY <3>4, <4>5, <4>6
             DEF WorkerStep, Proceeds, Fails, Dequeue, Resolve, Acquire, Contended, Check, Call,
                 Apply, Publish, ApplyUnrenewed
        <4> QED
          BY <4>1, <4>2, <4>3, <4>4, <4>6
      <3> QED
        BY <3>1, <3>2, <3>3, <3>4 DEF Remembered
    <2> QED
      BY <1>2, <1>3, <2>1, <2>2 DEF CallsRemembered
  <1> QED
    BY <1>5, <1>6

LEMMA WorkerEgress ==
  ASSUME Types, Names, Egress, NEW w \in Workers, WorkerStep(w)
  PROVE  Egress'
  <1>1. Quiet /\ CallsGuarded'
    BY WorkerIsQuiet, CallsStayGuarded DEF Egress
  <1>2. ASSUME Steady
        PROVE  EgressKept'
    <2>1. EgressKept
      BY <1>2 DEF Egress, EgressKept
    <2>2. GuardKept' /\ PublishSettled'
      BY <2>1, GuardStaysKept, PublishStaysSettled DEF EgressKept
    <2>3. NoneManual' /\ NotCalled' /\ CallsRemembered'
      BY <1>1, <1>2, <2>1, QuietWaits, StaysNotCalled, CallsStayRemembered DEF EgressKept
    <2> QED
      BY <2>2, <2>3 DEF EgressKept
  <1>3. Steady' => Steady
    BY <1>1 DEF Steady, Quiet
  <1> QED
    BY <1>1, <1>2, <1>3 DEF Egress, EgressKept

LEMMA LapseEgress ==
  ASSUME Types, Names, Egress, Lapse
  PROVE  Egress'
  <1>1. Quiet /\ UNCHANGED <<queue, poison, run, durable, calls>> /\ guard' = None
    BY LapseIsQuiet
  <1>2. run[guard].pc # "calling" /\ guard # None
    BY DEF Lapse
  <1>3. CallsGuarded'
    BY <1>1, <1>2 DEF Egress, CallsGuarded
  <1>4. ASSUME Steady
        PROVE  EgressKept'
    <2>1. EgressKept
      BY <1>4 DEF Egress, EgressKept
    <2>2. run[guard].pc \notin Paced
      BY <1>2, <1>4 DEF Lapse, Fault, Steady, Paced
    <2>3. GuardKept' /\ NotCalled'
      BY <1>1, <2>1, <2>2 DEF EgressKept, GuardKept, NotCalled
    <2>4. PublishSettled'
      <3>1. ASSUME NEW v \in Workers, run[v].pc = "publish"
            PROVE  ~(flight'.attempt = run[v].job.attempt /\ flight'.sig = "pending")
        <4>1. PICK job \in Known : job = run[v].job
          BY <3>1 DEF Known, Underway, Busy
        <4>2. job.attempt \in 1 .. MaxIds /\ ~Waiting(job.attempt)
          BY <2>1, <3>1, <4>1, KnownIsNotFresh DEF EgressKept, PublishSettled
        <4>3. ~Waiting(job.attempt)'
          BY <1>1, <4>2, QuietWaits
        <4> QED
          BY <4>1, <4>3 DEF Waiting
      <3> QED
        BY <1>1, <3>1 DEF PublishSettled, Waiting
    <2>5. CallsRemembered'
      <3>1. ASSUME NEW a \in 1 .. MaxIds, Remembered(a)
            PROVE  Remembered(a)'
        BY <1>1, <3>1, QuietWaits DEF Remembered
      <3> QED
        BY <1>1, <2>1, <3>1, QuietWaits DEF EgressKept, CallsRemembered
    <2> QED
      BY <1>1, <2>1, <2>3, <2>4, <2>5, QuietWaits DEF EgressKept
  <1>5. Steady' => Steady
    BY <1>1 DEF Steady, Quiet
  <1> QED
    BY <1>3, <1>4, <1>5 DEF Egress, EgressKept

LEMMA PoisonEgress ==
  ASSUME Types, Names, Egress, NEW job \in poison, HandlePoison(job)
  PROVE  Egress'
  <1>1. /\ Quiet /\ UNCHANGED <<queue, run, guard, calls, faults>>
        /\ Forget(job.attempt)
        /\ \/ ~(Applicable(job) /\ flight.sig = "pending") /\ UNCHANGED flight
           \/ \E sig \in Settled : Settles(job, sig)
    BY PoisonIsQuiet
  <1>2. CallsGuarded'
    BY <1>1 DEF Egress, CallsGuarded
  <1>3. job \in Known /\ job \in Jobs /\ job.attempt \in 1 .. MaxIds
    BY KnownType, KnownIsNotFresh DEF Known, Underway
  <1>4. ASSUME Steady
        PROVE  EgressKept'
    <2>1. EgressKept /\ durable \in [1 .. MaxIds -> Verdicts \union {"none"}]
      BY <1>4 DEF Egress, EgressKept, Types, TypeOK
    <2>2. ~Waiting(job.attempt)'
      <3>1. CASE ~(Applicable(job) /\ flight.sig = "pending") /\ UNCHANGED flight
        <4>1. ~Waiting(job.attempt)
          BY <1>3, <2>1, <3>1, NotApplicable DEF EgressKept, Waiting
        <4> QED
          BY <1>1, <1>3, <4>1, QuietWaits
      <3>2. CASE \E sig \in Settled : Settles(job, sig)
        BY <1>3, <3>2, SettledWaits
      <3> QED
        BY <1>1, <3>1, <3>2
    <2>3. Forgets
      BY <1>1, <1>3, <2>2, ForgetAttempt
    <2>4. GuardKept'
      <3>1. ASSUME NEW v \in Workers, run[v].pc \in Paced
            PROVE  guard = v /\ durable'[run[v].job.attempt] = "none"
        <4>1. run[v].job \in Jobs
          BY <3>1 DEF Types, BusyHasJob, Busy, Paced
        <4>2. run[v].job.attempt \in 1 .. MaxIds
          BY <4>1 DEF Jobs
        <4> QED
          BY <1>1, <2>1, <3>1, <4>2 DEF EgressKept, GuardKept, Forget
      <3> QED
        BY <1>1, <3>1 DEF GuardKept
    <2>5. NotCalled'
      BY <1>1, <2>1 DEF EgressKept, NotCalled
    <2>6. PublishSettled'
      <3>1. ASSUME NEW v \in Workers, run[v].pc = "publish"
            PROVE  ~(flight'.attempt = run[v].job.attempt /\ flight'.sig = "pending")
        <4>1. PICK other \in Known : other = run[v].job
          BY <3>1 DEF Known, Underway, Busy
        <4>2. other.attempt \in 1 .. MaxIds /\ ~Waiting(other.attempt)
          BY <2>1, <3>1, <4>1, KnownIsNotFresh DEF EgressKept, PublishSettled
        <4>3. ~Waiting(other.attempt)'
          BY <1>1, <4>2, QuietWaits
        <4> QED
          BY <4>1, <4>3 DEF Waiting
      <3> QED
        BY <1>1, <3>1 DEF PublishSettled, Waiting
    <2>7. CallsRemembered'
      <3>1. ASSUME NEW a \in 1 .. MaxIds, Remembered(a)
            PROVE  Remembered(a)'
        <4>1. CASE ~Waiting(a)
          BY <1>1, <4>1, QuietWaits DEF Remembered
        <4>2. CASE durable[a] # "none"
          BY <2>3, <4>2 DEF Forgets, Remembered
        <4>3. CASE \E v \in Workers : /\ run[v].pc \in {"calling", "record"}
                                      /\ run[v].job.attempt = a
          BY <1>1, <4>3 DEF Remembered
        <4> QED
          BY <3>1, <4>1, <4>2, <4>3 DEF Remembered
      <3> QED
        BY <1>1, <2>1, <3>1, QuietWaits DEF EgressKept, CallsRemembered
    <2> QED
      BY <1>1, <2>1, <2>4, <2>5, <2>6, <2>7, QuietWaits DEF EgressKept
  <1>5. Steady' => Steady
    BY <1>1 DEF Steady, Quiet
  <1> QED
    BY <1>2, <1>4, <1>5 DEF Egress, EgressKept

-----------------------------------------------------------------------------
(* The invariant and what follows from it.                                 *)

LEMMA InitInv ==
  ASSUME Init
  PROVE  IInv
  <1>1. /\ status = "Locked" /\ pilot \in Pilots /\ flight = NoFlight /\ counted = 0
        /\ blobs = {} /\ enabled = TRUE /\ durable = [a \in 1 .. MaxIds |-> "none"]
        /\ guard = None /\ calls = [a \in 1 .. MaxIds |-> 0]
        /\ asked = {} /\ unsent = {} /\ trash = {} /\ queue = {} /\ poison = {}
        /\ run = [w \in Workers |-> Idle] /\ ids = 0
        /\ faults \in [kinds : Worlds, count : {0}]
    BY BoundsType DEF Init
  <1>2. TypeOK
    <2>1. faults \in [kinds : Worlds, count : 0 .. MaxFaults]
      BY <1>1, BoundsType
    <2>2. run \in [Workers -> Runs]
      BY <1>1, IdleType
    <2>3. flight \in Flights
      BY <1>1, NoFlightType DEF Flights
    <2>4. /\ counted \in 0 .. MaxIds /\ ids \in 0 .. MaxIds
          /\ durable \in [1 .. MaxIds -> Verdicts \union {"none"}]
          /\ calls \in [1 .. MaxIds -> Nat]
      BY <1>1, BoundsType
    <2> QED
      BY <1>1, <2>1, <2>2, <2>3, <2>4 DEF TypeOK, Flights
  <1>3. \A w \in Workers : run[w].pc = "idle"
    BY <1>1, IdleType
  <1>4. Types
    <2>1. BusyHasJob /\ ResultsAreSettled
      BY <1>3 DEF BusyHasJob, Busy, ResultsAreSettled
    <2>2. FlightShape
      BY <1>1, NoFlightType DEF FlightShape
    <2> QED
      BY <1>2, <2>1, <2>2 DEF Types
  <1>5. Known = {} /\ Underway = {} /\ Uploads = {}
    BY <1>1, <1>3 DEF Known, Underway, Busy, Uploads
  <1>6. Names
    BY <1>1, <1>5
       DEF Names, IdsInUse, UploadsAreNew, AttemptHasOneFlight, UnsentAlone
  <1>7. Tracks
    BY <1>1, NoFlightType DEF Tracks, TrackIsKept, TracksAreNamed
  <1>8. Scored
    BY <1>1 DEF Scored, ScoreIsCurrent
  <1>9. Egress
    <2>1. CallsGuarded /\ GuardKept /\ PublishSettled /\ NotCalled
      BY <1>3 DEF CallsGuarded, GuardKept, Paced, PublishSettled, NotCalled
    <2>2. NoneManual
      BY <1>1, NoFlightType DEF NoneManual
    <2>3. CallsRemembered
      BY <1>1 DEF CallsRemembered
    <2> QED
      BY <2>1, <2>2, <2>3 DEF Egress
  <1> QED
    BY <1>4, <1>6, <1>7, <1>8, <1>9 DEF IInv

(* Next, by who takes the step.                                            *)
LEMMA NextCases ==
  ASSUME Next
  PROVE  \/ RequestStep
         \/ \E w \in Workers : WorkerStep(w)
         \/ Lapse
         \/ \E job \in poison : HandlePoison(job)
         \/ UNCHANGED vars
  <1>1. CASE Requests
    BY <1>1 DEF Requests, RequestStep, AskedStep, Touches
  <1>2. CASE Complete \/ SetConfig \/ Reseat \/ UpdateRound
    BY <1>2 DEF RequestStep, Touches
  <1>3. CASE \E a \in 1 .. MaxIds : SendOf(a) \/ Deliver(a) \/ Bury(a)
    BY <1>3 DEF SendOf, Deliver, Bury, RequestStep, WorkerStep
  <1>4. CASE AtRest
    BY <1>4 DEF AtRest
  <1> QED
    BY <1>1, <1>2, <1>3, <1>4 DEF Next, WorkerStep

LEMMA StutterInv ==
  ASSUME IInv, UNCHANGED vars
  PROVE  IInv'
  <1>1. UNCHANGED <<status, pilot, flight, counted, blobs, enabled, durable, guard, calls, asked,
                    unsent, trash, queue, poison, run, ids, faults>>
    BY DEF vars, round, requests, messages
  <1>2. Types'
    BY <1>1 DEF IInv, Types, TypeOK, FlightShape, BusyHasJob, Busy, ResultsAreSettled
  <1>3. Known' = Known /\ Underway' = Underway /\ Uploads' = Uploads /\ world' = world
    BY <1>1, UnderwayKept DEF Known, Uploads, world
  <1>4. Names'
    BY <1>1, <1>3
       DEF IInv, Names, IdsInUse, UploadsAreNew, UploadIsNew, AttemptHasOneFlight, UnsentAlone,
           Alone
  <1>5. Tracks'
    BY <1>1, <1>3 DEF IInv, Tracks, TrackIsKept, TracksAreNamed, CleansUp, Named
  <1>6. Scored'
    BY <1>1, <1>3 DEF IInv, Scored, ScoreIsCurrent, Counted, Disqualified
  <1>7. CallsGuarded' /\ (GuardKept => GuardKept') /\ (NoneManual => NoneManual')
        /\ (NotCalled => NotCalled') /\ (Steady' => Steady)
    BY <1>1, <1>3 DEF IInv, Egress, CallsGuarded, GuardKept, NoneManual, NotCalled, Steady
  <1>8. (PublishSettled => PublishSettled') /\ (CallsRemembered => CallsRemembered')
    BY <1>1, <1>3 DEF PublishSettled, CallsRemembered, Waiting, Fresh, Remembered
  <1> QED
    BY <1>2, <1>4, <1>5, <1>6, <1>7, <1>8 DEF IInv, Egress

LEMMA NextInv ==
  ASSUME IInv, [Next]_vars
  PROVE  IInv'
  <1>1. CASE RequestStep
    BY <1>1, RequestTypes, RequestNames, RequestTracks, RequestScores, RequestEgress
       DEF IInv, Tracks
  <1>2. ASSUME Quiet, Types', Egress'
        PROVE  IInv'
    BY <1>2, QuietShrinks, ShrinksKeepNames, QuietTracks, QuietScores DEF IInv, Tracks
  <1>3. CASE \E w \in Workers : WorkerStep(w)
    BY <1>2, <1>3, QuietTypes, WorkerEgress DEF IInv
  <1>4. CASE Lapse
    BY <1>2, <1>4, QuietTypes, LapseEgress DEF IInv
  <1>5. CASE \E job \in poison : HandlePoison(job)
    BY <1>2, <1>5, QuietTypes, PoisonEgress DEF IInv
  <1>6. CASE UNCHANGED vars
    BY <1>6, StutterInv
  <1> QED
    BY <1>1, <1>3, <1>4, <1>5, <1>6, NextCases

LEMMA Invariance == Spec => []IInv
  <1> QED
    BY InitInv, NextInv, PTL DEF Spec

(* Every variable keeps its type: flights, jobs and invocations are those  *)
(* the code writes (Flight, IgcValidationJob, types/src/index.ts).         *)
THEOREM TypeCorrect == Spec => []TypeOK
  <1>1. IInv => TypeOK
    BY DEF IInv, Types
  <1> QED
    BY <1>1, Invariance, PTL

(* At most one call to the FAI server is under way at any time, and the    *)
(* IGC of an attempt is sent once, unless a holder of the guard dies or    *)
(* loses it, its result is not recorded, or a flight turns manual and back *)
(* (createValidationResult, withIgcValidationGuard).                       *)
THEOREM EgressStaysOnce == Spec => []EgressOnce
  <1>1. ASSUME IInv PROVE EgressOnce
    <2> DEFINE Calling == {w \in Workers : run[w].pc = "calling"}
    <2>1. Calling \subseteq {guard}
      BY <1>1 DEF IInv, Egress, CallsGuarded
    <2>2. IsFiniteSet({guard}) /\ Cardinality({guard}) = 1
      BY FS_Singleton
    <2>3. IsFiniteSet(Calling) /\ Cardinality(Calling) <= 1
      BY <2>1, <2>2, FS_Subset
    <2>4. Steady => \A a \in 1 .. MaxIds : calls[a] <= 1
      BY <1>1 DEF IInv, Egress, CallsRemembered
    <2> QED
      BY <2>3, <2>4 DEF EgressOnce, Steady
  <1> QED
    BY <1>1, Invariance, PTL

(* The track a flight names is kept, and no other once requests are over,  *)
(* but for the faults that the two conditions name (uploadIgc, deleteIgc). *)
THEOREM TracksStayMatched == Spec => []TracksMatchFlight
  <1>1. ASSUME IInv PROVE TracksMatchFlight
    <2>1. TrackExists
      BY <1>1 DEF IInv, Tracks, TrackIsKept, TrackExists
    <2>2. NoOrphanTracks
      BY <1>1
         DEF IInv, Tracks, TracksAreNamed, CleansUp, Named, Uploads, NoOrphanTracks,
             NothingUnderWay
    <2> QED
      BY <2>1, <2>2 DEF TracksMatchFlight
  <1> QED
    BY <1>1, Invariance, PTL

(* A completed round was last scored with its flight as it stands          *)
(* (scoreRoundEnforcingValidation, applyValidationResult).                 *)
THEOREM ScoreStaysCurrent == Spec => []ScoreIsCurrent
  <1>1. IInv => ScoreIsCurrent
    BY DEF IInv, Scored
  <1> QED
    BY <1>1, Invariance, PTL

(* A verdict, which is written with the attempt of its job, never takes a  *)
(* flight back to an attempt before its newest (matchingFlight), and an    *)
(* attempt that was given up stays so (WORKER_FAILED).                     *)
THEOREM LateVerdictsStayIgnored == Spec => LateVerdictIgnored
  <1> DEFINE Later ==
        flight'.id = flight.id =>
          /\ flight'.attempt >= flight.attempt
          /\ flight'.attempt = flight.attempt /\ flight.sig = "failed" => flight'.sig = "failed"
  <1>1. ASSUME IInv, [Next]_vars PROVE Later
    <2>1. Types /\ Names /\ Facts /\ Types'
      BY <1>1, NameFacts, NextInv DEF IInv
    <2>2. ASSUME SameIds, flight'.sig = flight.sig \/ flight.sig # "failed" PROVE Later
      BY <2>1, <2>2 DEF SameIds, Facts
    <2>3. CASE flight' = NoFlight
      BY <2>1, <2>3, NoFlightType DEF Types, FlightShape
    <2>4. ASSUME Shrinks PROVE Later
      BY <2>2, <2>3, <2>4 DEF Shrinks
    <2>5. CASE RequestStep
      <3>1. ASSUME NEW r \in asked, CommitUpload(r) \/ CommitUnrenewed(r)
            PROVE  flight'.id # flight.id
        <4>1. r.op = "upload" /\ flight' = Uploaded(r)
          BY <3>1 DEF CommitUpload, CommitUnrenewed, WriteUnscored
        <4>2. r.id # 0 /\ r.id # flight.id
          BY <2>1, <4>1, UploadIds DEF UploadIsNew
        <4> QED
          BY <2>1, <4>1, <4>2, UploadedFields
      <3>2. ASSUME \/ \E r \in asked : CommitManual(r)
                   \/ \E manual \in BOOLEAN : LogFlight(manual)
            PROVE  flight'.id # flight.id
        <4>1. /\ ids' = ids + 1
              /\ \E manual \in BOOLEAN :
                   flight' = [NoFlight EXCEPT !.id = ids', !.manual = manual]
          BY <3>2 DEF CommitManual, LogFlight, WriteUnscored
        <4>2. flight'.id = ids'
          <5>1. PICK manual \in BOOLEAN :
                  flight' = [NoFlight EXCEPT !.id = ids', !.manual = manual]
            BY <4>1
          <5>2. ids' \in 0 .. MaxIds
            BY <2>1 DEF Types, TypeOK
          <5> QED
            BY <5>1, <5>2, ManualFields
        <4> QED
          BY <2>1, <4>1, <4>2 DEF Facts
      <3>3. ASSUME NEW r \in asked, CommitRevalidate(r)
            PROVE  Later
        <4>1. ids' = ids + 1 /\ flight' = Revalidated(ids')
          BY <3>3 DEF CommitRevalidate, WriteScored
        <4>2. ids' \in 0 .. MaxIds /\ TypeOK
          BY <2>1 DEF Types, TypeOK
        <4>3. flight'.attempt = ids'
          BY <4>1, <4>2, RevalidatedFields
        <4> QED
          BY <2>1, <4>1, <4>3 DEF Facts
      <3>4. ASSUME BeginUpload \/ Redispatch
            PROVE  Later
        BY <2>2, <3>4 DEF BeginUpload, Redispatch, SameIds, round
      <3> QED
        BY <1>1, <2>1, <2>4, <2>5, <3>1, <3>2, <3>3, <3>4, RequestsShrink
           DEF RequestStep, AskedStep, IInv, Tracks
    <2>6. CASE Quiet
      BY <2>1, <2>4, <2>6, QuietShrinks
    <2>7. CASE UNCHANGED vars
      BY <2>2, <2>7 DEF SameIds, vars, round
    <2> QED
      BY <1>1, <2>1, <2>5, <2>6, <2>7, NextCases, QuietTypes
  <1>2. IInv /\ [Next]_vars => [Later]_vars
    BY <1>1
  <1> QED
    BY <1>2, Invariance, PTL DEF Spec, LateVerdictIgnored

-----------------------------------------------------------------------------
(* Rescoring: type correctness.                                            *)

RescoreRuns ==
  [pc : {"idle", "begin", "score", "commit", "finish", "catch", "release"},
   job : Rescores \union {0}, count : 0 .. RescoreDequeue, holds : BOOLEAN,
   updates : [Slots -> 0 .. drawn], partial : BOOLEAN, throws : BOOLEAN]

(* An invocation at work has the job of a message, which is not its last. *)
RescorerHasJob(w) == rescorer[w].pc # "idle" => rescorer[w].job \in Rescores

RescoreTypes == R!TypeOK /\ \A w \in Rescorers : RescorerHasJob(w)

LEMMA RescoreBounds == MaxFlights \in Nat /\ MaxRescoreFaults \in Nat /\ RescoreDequeue \in Nat \ {0}
  BY RescoringAssumption

LEMMA RescorerType == ASSUME R!TypeOK PROVE rescorer \in [Rescorers -> RescoreRuns]
  BY DEF R!TypeOK, RescoreRuns

LEMMA RescoreFaultType ==
  ASSUME R!TypeOK, NEW kind, R!Fault(kind)
  PROVE  /\ rescoreFaults' \in [kinds : RescoreWorlds, count : 0 .. MaxRescoreFaults]
         /\ rescoreFaults'.kinds = rescoreFaults.kinds
  <1>1. rescoreFaults \in [kinds : RescoreWorlds, count : 0 .. MaxRescoreFaults]
    BY DEF R!TypeOK
  <1>2. rescoreFaults.count < MaxRescoreFaults /\ rescoreFaults' = [rescoreFaults EXCEPT !.count = @ + 1]
    BY DEF R!Fault
  <1>3. rescoreFaults.count + 1 \in 0 .. MaxRescoreFaults
    BY <1>1, <1>2, RescoreBounds
  <1> QED
    BY <1>1, <1>2, <1>3

LEMMA RescoreIdleType == ASSUME R!TypeOK PROVE R!Idle \in RescoreRuns
  <1>1. R!NoUpdates \in [Slots -> 0 .. drawn]
    BY RescoreBounds DEF R!NoUpdates, R!TypeOK
  <1> QED
    BY <1>1, RescoreBounds DEF R!Idle, RescoreRuns

(* What a request does at one of its steps. *)
LEMMA RescoreAskType ==
  ASSUME R!TypeOK, NEW j \in Rescores, NEW at,
         NEW next \in {"create", "look", "replace", "recreate", "write", "send", "release", "over"},
         R!Does(j, at, next)
  PROVE  asking' \in [Rescores -> {"new", "create", "look", "replace", "recreate", "write", "send",
                                   "release", "over"}]
  BY DEF R!Does, R!TypeOK

(* A worker that goes on keeps its job. *)
LEMMA RescorerMoves ==
  ASSUME RescoreTypes, NEW w \in Rescorers, NEW next \in RescoreRuns,
         rescorer' = [rescorer EXCEPT ![w] = next],
         next.pc = "idle" \/ next.job \in Rescores,
         UNCHANGED drawn
  PROVE  /\ rescorer' \in [Rescorers -> RescoreRuns] /\ RescoreRuns' = RescoreRuns
         /\ \A v \in Rescorers : RescorerHasJob(v)'
  <1>1. rescorer \in [Rescorers -> RescoreRuns]
    BY RescorerType DEF RescoreTypes
  <1>2. rescorer' \in [Rescorers -> RescoreRuns] /\ RescoreRuns' = RescoreRuns
    BY <1>1 DEF RescoreRuns
  <1>3. ASSUME NEW v \in Rescorers PROVE RescorerHasJob(v)'
    BY <1>1, <1>3 DEF RescoreTypes, RescorerHasJob
  <1> QED
    BY <1>2, <1>3

LEMMA RescoreComesBack ==
  ASSUME RescoreTypes, NEW w \in Rescorers, rescorer[w].pc # "idle"
  PROVE  R!ComesBack(w) \subseteq R!Messages
  <1>1. rescorer[w] \in RescoreRuns /\ rescorer[w].job \in Rescores
    BY RescorerType DEF RescoreTypes, RescorerHasJob
  <1>2. rescorer[w].count \in 0 .. RescoreDequeue
    BY <1>1 DEF RescoreRuns
  <1>3. rescorer[w].count < RescoreDequeue => rescorer[w].count \in 0 .. RescoreDequeue - 1
    BY <1>2, RescoreBounds
  <1> QED
    BY <1>1, <1>3 DEF R!ComesBack, R!Messages

LEMMA RescoreFlightTypes ==
  ASSUME RescoreTypes, NEW s \in Slots, R!Upload(s) \/ R!EnterByHand(s) \/ R!Remove(s)
  PROVE  RescoreTypes'
  <1>1. ASSUME NEW manual \in BOOLEAN, R!NewFlight(s, manual)
        PROVE  RescoreTypes'
    <2>1. drawn' = drawn + 1 /\ drawn' \in 0 .. MaxFlights /\ drawn \in Nat /\ drawn' \in Nat
      BY <1>1, RescoreBounds DEF R!NewFlight, RescoreTypes, R!TypeOK
    <2> DEFINE made == [id |-> drawn', manual |-> manual, score |-> IF manual THEN 0 ELSE drawn']
    <2>2. made \in [id : 0 .. drawn', manual : BOOLEAN, score : 0 .. drawn']
      BY <2>1
    <2>3. flown' = [flown EXCEPT ![s] = made]
      BY <1>1 DEF R!NewFlight
    <2>4. flown \in [Slots -> [id : 0 .. drawn', manual : BOOLEAN, score : 0 .. drawn']]
      <3>1. [id : 0 .. drawn, manual : BOOLEAN, score : 0 .. drawn]
              \subseteq [id : 0 .. drawn', manual : BOOLEAN, score : 0 .. drawn']
        BY <2>1
      <3> QED
        BY <3>1 DEF RescoreTypes, R!TypeOK
    <2> HIDE DEF made
    <2>5. flown' \in [Slots -> [id : 0 .. drawn', manual : BOOLEAN, score : 0 .. drawn']]
      BY <2>2, <2>3, <2>4
    <2>6. RescoreRuns \subseteq RescoreRuns'
      <3>1. [Slots -> 0 .. drawn] \subseteq [Slots -> 0 .. drawn']
        BY <2>1
      <3> QED
        BY <3>1 DEF RescoreRuns
    <2>7. rescorer' \in [Rescorers -> RescoreRuns']
      BY <1>1, <2>6, RescorerType DEF R!NewFlight, RescoreTypes
    <2> QED
      BY <1>1, <2>1, <2>5, <2>7 DEF R!NewFlight, RescoreTypes, R!TypeOK,
         RescorerHasJob, RescoreRuns, R!requests
  <1>2. CASE R!Remove(s)
    <2>1. R!NoFlight \in [id : 0 .. drawn, manual : BOOLEAN, score : 0 .. drawn]
      BY RescoreBounds DEF R!NoFlight, RescoreTypes, R!TypeOK
    <2>2. flown' \in [Slots -> [id : 0 .. drawn, manual : BOOLEAN, score : 0 .. drawn]]
      BY <1>2, <2>1 DEF R!Remove, RescoreTypes, R!TypeOK
    <2> QED
      BY <1>2, <2>2 DEF R!Remove, RescoreTypes, R!TypeOK, RescorerHasJob,
         R!requests
  <1> QED
    BY <1>1, <1>2 DEF R!Upload, R!EnterByHand

LEMMA RescoreRequestTypes ==
  ASSUME RescoreTypes, NEW j \in Rescores,
         R!Ask(j) \/ R!Requests(j) \/ R!RequestFails(j) \/ R!RequestDies(j)
  PROVE  RescoreTypes'
  <1> DEFINE Steps == {"new", "create", "look", "replace", "recreate", "write", "send",
                       "release", "over"}
  <1>1. asking' \in [Rescores -> Steps]
    <2>1. CASE R!Look(j)
      BY <2>1 DEF R!Look, R!Does, RescoreTypes, R!TypeOK
    <2>2. CASE R!Ask(j) \/ R!Create(j) \/ R!Replace(j) \/ R!Recreate(j) \/ R!WriteQueued(j) \/ R!Send(j)
            \/ R!GiveBack(j) \/ R!RequestFails(j) \/ R!RequestDies(j)
      BY <2>2, RescoreAskType
         DEF R!Ask, R!Create, R!Replace, R!Recreate, R!WriteQueued, R!Send, R!GiveBack, R!RequestFails,
             R!RequestDies, RescoreTypes
    <2> QED
      BY <2>1, <2>2 DEF R!Requests
  <1>2. activeGuard' \in {"free", "held", "stale"}
    BY DEF R!Ask, R!Requests, R!Create, R!Look, R!Replace,
       R!Recreate, R!WriteQueued, R!Send, R!GiveBack,
           R!RequestFails, R!RequestDies, RescoreTypes, R!TypeOK
  <1>3. progress' \in [Rescores -> {"none", "queued", "running"} \union R!Ended]
    BY DEF R!Ask, R!Requests, R!Create, R!Look, R!Replace,
       R!Recreate, R!WriteQueued, R!Send, R!GiveBack,
           R!RequestFails, R!RequestDies, RescoreTypes, R!TypeOK
  <1>4. rescoreQueue' \subseteq R!Messages
    <2>1. [job |-> j, count |-> 0] \in R!Messages
      BY RescoreBounds DEF R!Messages
    <2>2. rescoreQueue' \subseteq rescoreQueue \union {[job |-> j, count |-> 0]}
      BY DEF R!Ask, R!Requests, R!Create, R!Look, R!Replace,
         R!Recreate, R!WriteQueued, R!Send, R!GiveBack,
             R!RequestFails, R!RequestDies
    <2> QED
      BY <2>1, <2>2 DEF RescoreTypes, R!TypeOK
  <1>5. rescoreFaults' \in [kinds : RescoreWorlds, count : 0 .. MaxRescoreFaults]
    <2>1. UNCHANGED rescoreFaults \/ \E kind : R!Fault(kind)
      BY DEF R!Ask, R!Requests, R!Create, R!Look, R!Replace,
         R!Recreate, R!WriteQueued, R!Send, R!GiveBack,
             R!RequestFails, R!RequestDies
    <2> QED
      BY <2>1, RescoreFaultType DEF RescoreTypes, R!TypeOK
  <1>6. UNCHANGED <<flown, rescorer, drawn>>
    BY DEF R!Ask, R!Requests, R!Create, R!Look, R!Replace,
       R!Recreate, R!WriteQueued, R!Send, R!GiveBack,
           R!RequestFails, R!RequestDies
  <1> QED
    BY <1>1, <1>2, <1>3, <1>4, <1>5, <1>6 DEF RescoreTypes, R!TypeOK, RescorerHasJob

(* The steps of an invocation: which record it goes on with. *)
LEMMA RescorerTypes ==
  ASSUME RescoreTypes, NEW w \in Rescorers,
         \/ R!Proceeds(w) \/ R!WorkFails(w) \/ R!MarkFails(w) \/ R!Crash(w) \/ R!Stall(w)
         \/ \E m \in rescoreQueue : R!Dequeue(w, m)
  PROVE  RescoreTypes'
  <1> DEFINE Flown == [id : 0 .. drawn, manual : BOOLEAN, score : 0 .. drawn]
  <1>1. rescorer[w] \in RescoreRuns /\ rescorer \in [Rescorers -> RescoreRuns]
        /\ R!Idle \in RescoreRuns /\ R!Idle.pc = "idle"
    BY RescorerType, RescoreIdleType DEF RescoreTypes, R!Idle
  <1>2. rescorer[w].pc # "idle" => rescorer[w].job \in Rescores
    BY DEF RescoreTypes, RescorerHasJob
  <1>3. UNCHANGED <<asking, drawn>>
    BY DEF R!Proceeds, R!Begin, R!Score, R!Commit, R!Finish,
       R!MarkFailed, R!Release, R!WorkFails, R!MarkFails,
           R!Crash, R!Stall, R!Dequeue, R!Frame
  <1> DEFINE GoesOn == \E next \in RescoreRuns : /\ rescorer' = [rescorer EXCEPT ![w] = next]
                                         /\ (next.pc = "idle" \/ next.job \in Rescores)
  <1>4. GoesOn
    <2>1. ASSUME NEW pc \in {"score", "commit", "finish", "catch", "release"},
                 R!Goto(w, pc), rescorer[w].pc # "idle"
          PROVE  GoesOn
      <3> DEFINE next == [rescorer[w] EXCEPT !.pc = pc]
      <3>1. next \in RescoreRuns /\ next.job = rescorer[w].job
        BY <1>1 DEF RescoreRuns
      <3>2. rescorer' = [rescorer EXCEPT ![w] = next]
        BY <1>1, <2>1 DEF R!Goto, RescoreRuns
      <3> QED
        BY <1>2, <2>1, <3>1, <3>2
    <2>2. CASE R!Begin(w) \/ R!Commit(w) \/ R!Finish(w) \/ R!MarkFailed(w) \/ R!WorkFails(w)
      BY <2>1, <2>2 DEF R!Begin, R!Commit, R!Finish, R!MarkFailed,
         R!WorkFails, R!At
    <2>3. CASE R!Score(w)
      <3>1. PICK scored \in SUBSET R!Scorable : \E left \in SUBSET (R!Scorable \ scored) :
              rescorer' = [rescorer EXCEPT ![w].pc = "commit", ![w].partial = left # {},
                        ![w].updates = [s \in Slots |-> IF s \in scored THEN flown[s].id ELSE 0]]
        BY <2>3 DEF R!Score
      <3>2. PICK left \in SUBSET (R!Scorable \ scored) :
              rescorer' = [rescorer EXCEPT ![w].pc = "commit", ![w].partial = left # {},
                        ![w].updates = [s \in Slots |-> IF s \in scored THEN flown[s].id ELSE 0]]
        BY <3>1
      <3> DEFINE updates == [s \in Slots |-> IF s \in scored THEN flown[s].id ELSE 0]
                 next == [rescorer[w] EXCEPT !.pc = "commit", !.partial = left # {}, !.updates = updates]
      <3>3. updates \in [Slots -> 0 .. drawn]
        BY RescoreBounds DEF RescoreTypes, R!TypeOK
      <3> HIDE DEF updates
      <3>4. next \in RescoreRuns /\ next.job = rescorer[w].job
        BY <1>1, <3>3 DEF RescoreRuns
      <3>5. rescorer' = [rescorer EXCEPT ![w] = next]
        BY <1>1, <3>2 DEF RescoreRuns, updates
      <3> QED
        BY <1>2, <2>3, <3>4, <3>5 DEF R!Score, R!At
    <2>4. CASE R!Release(w) \/ R!Crash(w)
      BY <1>1, <2>4 DEF R!Release, R!Crash
    <2>5. CASE R!MarkFails(w)
      <3> DEFINE next == [rescorer[w] EXCEPT !.pc = "release", !.throws = TRUE]
      <3>1. next \in RescoreRuns /\ next.job = rescorer[w].job
        BY <1>1 DEF RescoreRuns
      <3>2. rescorer' = [rescorer EXCEPT ![w] = next]
        BY <1>1, <2>5 DEF R!MarkFails, RescoreRuns
      <3> QED
        BY <1>2, <2>5, <3>1, <3>2 DEF R!MarkFails, R!At
    <2>6. CASE R!Stall(w)
      <3> DEFINE next == [rescorer[w] EXCEPT !.holds = FALSE]
      <3>1. next \in RescoreRuns /\ next.job = rescorer[w].job
        BY <1>1 DEF RescoreRuns
      <3>2. rescorer' = [rescorer EXCEPT ![w] = next]
        BY <1>1, <2>6 DEF R!Stall, RescoreRuns
      <3> QED
        BY <1>2, <2>6, <3>1, <3>2 DEF R!Stall, R!At
    <2>7. ASSUME NEW m \in rescoreQueue, R!Dequeue(w, m)
          PROVE  GoesOn
      <3> DEFINE next == [R!Idle EXCEPT !.pc = "begin", !.job = m.job, !.count = m.count + 1]
      <3>1. m.job \in Rescores /\ m.count + 1 \in 0 .. RescoreDequeue
        BY RescoreBounds DEF RescoreTypes, R!TypeOK, R!Messages
      <3>2. next \in RescoreRuns /\ next.job = m.job
        BY <1>1, <3>1 DEF RescoreRuns
      <3> QED
        BY <2>7, <3>1, <3>2 DEF R!Dequeue
    <2> QED
      BY <2>2, <2>3, <2>4, <2>5, <2>6, <2>7 DEF R!Proceeds
  <1>5. rescorer' \in [Rescorers -> RescoreRuns] /\ RescoreRuns' = RescoreRuns
        /\ \A v \in Rescorers : RescorerHasJob(v)'
    <2>1. PICK next \in RescoreRuns :
            rescorer' = [rescorer EXCEPT ![w] = next] /\ (next.pc = "idle" \/ next.job \in Rescores)
      BY <1>4
    <2> QED
      BY <1>3, <2>1, RescorerMoves
  <1>6. flown' \in [Slots -> Flown]
    <2>1. CASE R!Commit(w)
      <3>1. rescorer[w].updates \in [Slots -> 0 .. drawn]
        BY <1>1 DEF RescoreRuns
      <3>2. flown \in [Slots -> Flown]
        BY DEF RescoreTypes, R!TypeOK
      <3>3. ASSUME NEW s \in Slots
            PROVE  /\ flown[s] \in Flown
                   /\ [flown[s] EXCEPT !.score = rescorer[w].updates[s]] \in Flown
        BY <3>1, <3>2
      <3> HIDE DEF Flown
      <3> QED
        BY <2>1, <3>3 DEF R!Commit
    <2>2. CASE UNCHANGED flown
      BY <2>2 DEF RescoreTypes, R!TypeOK
    <2> QED
      BY <2>1, <2>2 DEF R!Proceeds, R!Begin, R!Score, R!Finish,
         R!MarkFailed, R!Release, R!WorkFails, R!MarkFails,
                        R!Crash, R!Stall, R!Dequeue
  <1>7. activeGuard' \in {"free", "held", "stale"}
    BY DEF R!Proceeds, R!Begin, R!Score, R!Commit, R!Finish,
       R!MarkFailed, R!Release, R!WorkFails, R!MarkFails,
           R!Crash, R!Stall, R!Dequeue, RescoreTypes, R!TypeOK
  <1>8. progress' \in [Rescores -> {"none", "queued", "running"} \union R!Ended]
    BY DEF R!Proceeds, R!Begin, R!Score, R!Commit, R!Finish,
       R!MarkFailed, R!Release, R!WorkFails, R!MarkFails,
           R!Crash, R!Stall, R!Dequeue, RescoreTypes, R!TypeOK, R!Ended
  <1>9. rescoreQueue' \subseteq R!Messages
    <2>1. rescoreQueue \subseteq R!Messages
      BY DEF RescoreTypes, R!TypeOK
    <2>2. CASE R!Release(w) \/ R!Crash(w) \/ R!Stall(w)
      BY <2>1, <2>2, RescoreComesBack DEF R!Release, R!Crash, R!Stall, R!At
    <2>3. CASE rescoreQueue' \subseteq rescoreQueue
      BY <2>1, <2>3
    <2> QED
      BY <2>2, <2>3 DEF R!Proceeds, R!Begin, R!Score, R!Commit,
         R!Finish, R!MarkFailed, R!WorkFails, R!MarkFails,
                        R!Dequeue
  <1>10. rescoreFaults' \in [kinds : RescoreWorlds, count : 0 .. MaxRescoreFaults]
    <2>1. UNCHANGED rescoreFaults \/ \E kind : R!Fault(kind)
      BY DEF R!Proceeds, R!Begin, R!Score, R!Commit, R!Finish,
         R!MarkFailed, R!Release, R!WorkFails, R!MarkFails,
             R!Crash, R!Stall, R!Dequeue
    <2> QED
      BY <2>1, RescoreFaultType DEF RescoreTypes, R!TypeOK
  <1> QED
    BY <1>3, <1>5, <1>6, <1>7, <1>8, <1>9, <1>10 DEF RescoreTypes, R!TypeOK, RescoreRuns

LEMMA RescoreInitTypes == ASSUME R!Init PROVE RescoreTypes
  <1>1. drawn = 0 /\ flown \in [Slots -> [id : 0 .. drawn, manual : BOOLEAN, score : 0 .. drawn]]
    BY DEF R!Init, R!NoFlight
  <1>2. rescorer \in [Rescorers -> RescoreRuns] /\ \A w \in Rescorers : RescorerHasJob(w)
    <2>1. R!NoUpdates \in [Slots -> 0 .. drawn]
      BY <1>1 DEF R!NoUpdates
    <2>2. R!Idle \in RescoreRuns /\ R!Idle.pc = "idle"
      BY <2>1, RescoreBounds DEF R!Idle, RescoreRuns
    <2> QED
      BY <2>2 DEF R!Init, RescorerHasJob
  <1>3. rescoreFaults \in [kinds : RescoreWorlds, count : 0 .. MaxRescoreFaults]
    BY RescoreBounds DEF R!Init
  <1> QED
    BY <1>1, <1>2, <1>3, RescoreBounds DEF R!Init, RescoreTypes, R!TypeOK, RescoreRuns

LEMMA RescoreNextTypes == ASSUME RescoreTypes, [R!Next]_R!vars PROVE RescoreTypes'
  <1>1. CASE \E s \in Slots : R!Upload(s) \/ R!EnterByHand(s) \/ R!Remove(s)
    BY <1>1, RescoreFlightTypes
  <1>2. CASE \E j \in Rescores : R!Ask(j) \/ R!Requests(j) \/ R!RequestFails(j) \/ R!RequestDies(j)
    BY <1>2, RescoreRequestTypes
  <1>3. CASE \E j \in Rescores : R!Deliver(j)
    BY <1>3, RescorerTypes DEF R!Deliver
  <1>4. CASE R!GuardAges
    <2>1. rescoreFaults' \in [kinds : RescoreWorlds, count : 0 .. MaxRescoreFaults]
      BY <1>4, RescoreFaultType DEF R!GuardAges, RescoreTypes
    <2> QED
      BY <1>4, <2>1 DEF R!GuardAges, RescoreTypes, R!TypeOK, RescorerHasJob
  <1>5. CASE \E w \in Rescorers : R!Proceeds(w) \/ R!WorkFails(w) \/ R!MarkFails(w) \/ R!Crash(w) \/ R!Stall(w)
    BY <1>5, RescorerTypes
  <1>6. CASE UNCHANGED R!vars
    BY <1>6 DEF R!vars, R!requests, RescoreTypes, R!TypeOK, RescorerHasJob
  <1> QED
    BY <1>1, <1>2, <1>3, <1>4, <1>5, <1>6 DEF R!Next, R!AtRest

-----------------------------------------------------------------------------
(* Rescoring: the scores and the guard.                                    *)

LEMMA ScoresStayTheirOwn ==
  ASSUME RescoreTypes, R!ScoreIsItsOwn, [R!Next]_R!vars
  PROVE  R!ScoreIsItsOwn'
  <1>0. flown \in [Slots -> [id : 0 .. drawn, manual : BOOLEAN, score : 0 .. drawn]]
    BY DEF RescoreTypes, R!TypeOK
  <1>1. ASSUME NEW s \in Slots, NEW manual \in BOOLEAN, R!NewFlight(s, manual)
        PROVE  R!ScoreIsItsOwn'
    BY <1>0, <1>1 DEF R!NewFlight, R!ScoreIsItsOwn
  <1>2. ASSUME NEW s \in Slots, R!Remove(s)
        PROVE  R!ScoreIsItsOwn'
    BY <1>0, <1>2 DEF R!Remove, R!NoFlight, R!ScoreIsItsOwn
  <1>3. ASSUME NEW w \in Rescorers, R!Commit(w)
        PROVE  R!ScoreIsItsOwn'
    <2> SUFFICES ASSUME NEW s \in Slots
                 PROVE  flown'[s].score = IF flown'[s].manual THEN 0 ELSE flown'[s].id
      BY DEF R!ScoreIsItsOwn
    <2>1. flown[s].score = IF flown[s].manual THEN 0 ELSE flown[s].id
      BY DEF R!ScoreIsItsOwn
    <2> DEFINE found == rescorer[w].updates[s]
    <2>2. flown'[s] = IF found # 0 /\ R!IsCurrent(s, found)
                       THEN [flown[s] EXCEPT !.score = found] ELSE flown[s]
      BY <1>3 DEF R!Commit
    <2>3. CASE R!IsCurrent(s, found)
      BY <1>0, <2>1, <2>2, <2>3 DEF R!IsCurrent
    <2>4. CASE ~R!IsCurrent(s, found)
      BY <2>1, <2>2, <2>4
    <2> QED
      BY <2>3, <2>4
  <1>4. CASE UNCHANGED flown
    BY <1>4 DEF R!ScoreIsItsOwn
  <1>5. \/ \E s \in Slots, manual \in BOOLEAN : R!NewFlight(s, manual)
        \/ \E s \in Slots : R!Remove(s)
        \/ \E w \in Rescorers : R!Commit(w)
        \/ UNCHANGED flown
    BY DEF R!Next, R!Upload, R!EnterByHand, R!Ask, R!Requests,
       R!Create, R!Look, R!Replace, R!Recreate, R!WriteQueued,
           R!Send, R!GiveBack, R!RequestFails, R!RequestDies, R!Deliver, R!Dequeue, R!GuardAges,
           R!AtRest, R!Proceeds,
           R!Begin, R!Score, R!Finish, R!MarkFailed, R!Release, R!WorkFails, R!MarkFails,
           R!Crash, R!Stall, R!vars
  <1> QED
    BY <1>1, <1>2, <1>3, <1>4, <1>5

(* Somebody will free the guard: a request, a message or a worker. *)
GuardServed ==
  \/ \E j \in Rescores : R!Holds(j)
  \/ rescoreQueue # {}
  \/ \E w \in Rescorers : ~R!At(w, "idle")

LEMMA RescoreRequestsServe ==
  ASSUME RescoreTypes, NEW j \in Rescores, R!Ask(j) \/ R!Requests(j) \/ R!RequestFails(j),
         activeGuard' = "held",
         activeGuard = "held" => GuardServed
  PROVE  GuardServed'
  <1>0. asking \in [Rescores -> {"new", "create", "look", "replace", "recreate", "write", "send",
                             "release", "over"}]
    BY DEF RescoreTypes, R!TypeOK
  <1>1. rescoreQueue \subseteq rescoreQueue' /\ rescorer' = rescorer
    BY DEF R!Ask, R!Requests, R!Create, R!Look, R!Replace,
       R!Recreate, R!WriteQueued, R!Send, R!GiveBack, R!RequestFails
  <1>2. ASSUME activeGuard = "held", ~R!Holds(j)
        PROVE  GuardServed'
    <2>1. \A i \in Rescores : R!Holds(i) => R!Holds(i)'
      BY <1>0, <1>2 DEF R!Ask, R!Requests, R!Create, R!Look,
         R!Replace, R!Recreate, R!WriteQueued, R!Send, R!GiveBack,
                        R!RequestFails, R!Does, R!Holds
    <2> QED
      BY <1>1, <1>2, <2>1 DEF GuardServed, R!At
  <1>3. CASE R!Holds(j)
    <2>1. CASE R!Send(j)
      BY <2>1 DEF R!Send, GuardServed
    <2>2. CASE R!WriteQueued(j) \/ R!RequestFails(j)
      BY <1>0, <2>2 DEF R!WriteQueued, R!RequestFails, R!Does, R!Holds,
         GuardServed
    <2>3. CASE R!GiveBack(j)
      BY <2>3 DEF R!GiveBack
    <2> QED
      BY <1>3, <2>1, <2>2, <2>3 DEF R!Ask, R!Requests, R!Create, R!Look,
         R!Replace, R!Recreate, R!Does, R!Holds
  <1>4. CASE activeGuard # "held"
    <2>1. R!Holds(j)'
      BY <1>0, <1>4 DEF R!Ask, R!Requests, R!Create, R!Look,
         R!Replace, R!Recreate, R!WriteQueued, R!Send, R!GiveBack,
                        R!RequestFails, R!Does, R!Holds
    <2> QED
      BY <2>1 DEF GuardServed
  <1> QED
    BY <1>2, <1>3, <1>4

LEMMA GuardStaysServed ==
  ASSUME RescoreTypes, R!GuardIsServed, [R!Next]_R!vars
  PROVE  R!GuardIsServed'
  <1>0. rescoreFaults'.kinds = rescoreFaults.kinds
    <2>1. UNCHANGED rescoreFaults \/ \E kind : R!Fault(kind)
      BY DEF R!Next, R!Upload, R!EnterByHand, R!NewFlight,
         R!Remove, R!Ask, R!Requests, R!Create, R!Look,
         R!Replace,
             R!Recreate, R!WriteQueued, R!Send, R!GiveBack, R!RequestFails, R!RequestDies,
             R!Deliver, R!Dequeue,
             R!GuardAges, R!AtRest, R!Proceeds, R!Begin, R!Score, R!Commit, R!Finish,
             R!MarkFailed, R!Release,
             R!WorkFails, R!MarkFails, R!Crash, R!Stall, R!vars
    <2> QED
      BY <2>1, RescoreFaultType DEF RescoreTypes
  <1> SUFFICES ASSUME activeGuard' = "held", {"crash", "lostRequest"} \intersect R!world = {}
               PROVE  GuardServed'
    BY <1>0 DEF R!GuardIsServed, GuardServed, R!world
  <1>1. activeGuard = "held" => GuardServed
    BY DEF R!GuardIsServed, GuardServed
  <1>2. ~R!Fault("crash") /\ ~R!Fault("lostRequest")
    BY DEF R!Fault
  <1>3. CASE \E j \in Rescores : R!Ask(j) \/ R!Requests(j) \/ R!RequestFails(j)
    BY <1>1, <1>3, RescoreRequestsServe
  <1>4. CASE \E j \in Rescores : R!RequestDies(j)
    BY <1>2, <1>4 DEF R!RequestDies
  <1>5. ASSUME NEW w \in Rescorers, NEW m \in rescoreQueue, R!Dequeue(w, m)
        PROVE  GuardServed'
    <2>1. rescorer' = [rescorer EXCEPT ![w] = [R!Idle EXCEPT !.pc = "begin", !.job = m.job, !.count = m.count + 1]]
      BY <1>5 DEF R!Dequeue
    <2>2. rescorer'[w].pc = "begin"
      BY <2>1, RescorerType DEF RescoreTypes, R!Idle
    <2> QED
      BY <2>2 DEF GuardServed, R!At
  <1>6. ASSUME NEW w \in Rescorers,
               \/ R!Begin(w) \/ R!Score(w) \/ R!Commit(w) \/ R!Finish(w) \/ R!MarkFailed(w) \/ R!WorkFails(w)
               \/ R!MarkFails(w) \/ R!Stall(w)
        PROVE  GuardServed'
    <2>0. rescorer \in [Rescorers -> RescoreRuns]
      BY RescorerType DEF RescoreTypes
    <2>1. rescorer'[w].pc # "idle"
      <3>1. CASE R!Score(w)
        <4>1. PICK updates, partial :
                rescorer' = [rescorer EXCEPT ![w].pc = "commit", ![w].partial = partial, ![w].updates = updates]
          BY <3>1 DEF R!Score
        <4> QED
          BY <2>0, <4>1 DEF RescoreRuns
      <3>2. CASE R!Stall(w)
        BY <2>0, <3>2 DEF R!Stall, R!At, RescoreRuns
      <3>3. CASE R!MarkFails(w)
        BY <2>0, <3>3 DEF R!MarkFails, RescoreRuns
      <3>4. CASE R!Begin(w) \/ R!Commit(w) \/ R!Finish(w) \/ R!MarkFailed(w) \/ R!WorkFails(w)
        BY <2>0, <3>4 DEF R!Begin, R!Commit, R!Finish, R!MarkFailed,
           R!WorkFails, R!Goto, RescoreRuns
      <3> QED
        BY <1>6, <3>1, <3>2, <3>3, <3>4
    <2> QED
      BY <2>1 DEF GuardServed, R!At
  <1>7. CASE \E w \in Rescorers : R!Release(w)
    BY <1>7 DEF R!Release
  <1>8. CASE \E w \in Rescorers : R!Crash(w)
    BY <1>2, <1>8 DEF R!Crash
  <1>9. CASE R!GuardAges
    BY <1>9 DEF R!GuardAges
  <1>10. CASE UNCHANGED R!requests /\ UNCHANGED <<rescoreQueue, rescorer>>
    BY <1>1, <1>10 DEF R!requests, GuardServed, R!Holds, R!At
  <1>11. \/ \E s \in Slots : R!Upload(s) \/ R!EnterByHand(s) \/ R!Remove(s)
         \/ UNCHANGED R!vars
         => UNCHANGED R!requests /\ UNCHANGED <<rescoreQueue, rescorer>>
    BY DEF R!Upload, R!EnterByHand, R!NewFlight, R!Remove, R!vars
  <1> QED
    BY <1>3, <1>4, <1>5, <1>6, <1>7, <1>8, <1>9, <1>10, <1>11 DEF R!Next, R!AtRest,
       R!Proceeds, R!Deliver

-----------------------------------------------------------------------------
(* In every reachable state the records of jobs, messages and invocations  *)
(* are what TypeOK says, and an invocation at work has a job               *)
(* (rescoreWorker).                                                        *)
THEOREM RescoringTypeCorrect == R!Spec => []R!TypeOK
  <1>1. R!Init => RescoreTypes
    BY RescoreInitTypes
  <1>2. RescoreTypes /\ [R!Next]_R!vars => RescoreTypes'
    BY RescoreNextTypes
  <1>3. RescoreTypes => R!TypeOK
    BY DEF RescoreTypes
  <1> QED
    BY <1>1, <1>2, <1>3, PTL DEF R!Spec

(* No job gives a flight the score of another track or touches one entered *)
(* by hand (applyUpdates), and none leaves the guard of the round behind   *)
(* (rescoreRound's catch, rescoreWorker's finally), with any number of     *)
(* slots, requests, invocations and faults.                                *)
THEOREM JobsStaySafe == R!Spec => []JobsAreSafe
  <1> DEFINE Safe == RescoreTypes /\ R!ScoreIsItsOwn /\ R!GuardIsServed
  <1>1. R!Init => Safe
    BY RescoreInitTypes DEF R!Init, R!ScoreIsItsOwn, R!NoFlight,
       R!GuardIsServed
  <1>2. Safe /\ [R!Next]_R!vars => Safe'
    BY RescoreNextTypes, ScoresStayTheirOwn, GuardStaysServed
  <1>3. Safe => JobsAreSafe
    BY DEF JobsAreSafe, R!JobsAreSafe
  <1> QED
    BY <1>1, <1>2, <1>3, PTL DEF R!Spec
=============================================================================
