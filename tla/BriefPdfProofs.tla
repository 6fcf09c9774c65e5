--------------------------- MODULE BriefPdfProofs ---------------------------
(* Theorems about BriefPdf, for every value of its constants.              *)
EXTENDS BriefPdf, TLAPS

-----------------------------------------------------------------------------
(* What the helpers of the actions keep of the types. *)

Runs == [pc : {"idle", "claim", "read", "commit", "upload", "write", "email", "failed"},
         attempt : 0 .. attempts, count : 0 .. MaxDequeue, holds : BOOLEAN, brief : 0 .. brief]

(* An invocation at work has an attempt that was started, delivered at least once. *)
Assigned(w) == run[w].pc # "idle" => run[w].attempt \in 1 .. attempts

Types == TypeOK /\ \A w \in Workers : Assigned(w)

LEMMA BoundsType == MaxAttempts \in Nat /\ MaxFaults \in Nat /\ MaxDequeue \in Nat \ {0}
  BY BriefPdfAssumption

LEMMA FaultType ==
  ASSUME TypeOK, NEW kind, Fault(kind)
  PROVE  faults' \in [kinds : Worlds, count : 0 .. MaxFaults]
  <1>1. faults \in [kinds : Worlds, count : 0 .. MaxFaults]
    BY DEF TypeOK
  <1>2. faults.count < MaxFaults /\ faults' = [faults EXCEPT !.count = @ + 1]
    BY DEF Fault
  <1>3. faults.count + 1 \in 0 .. MaxFaults
    BY <1>1, <1>2, BoundsType
  <1> QED
    BY <1>1, <1>2, <1>3

LEMMA SetsStatusType ==
  ASSUME TypeOK, NEW a, NEW from,
         NEW to \in {"pending", "processing", "ready", "failed"}, SetsStatus(a, from, to)
  PROVE  pdf' \in [status : {"none", "pending", "processing", "ready", "failed"},
                   attempt : 0 .. attempts]
  BY DEF TypeOK, SetsStatus

(* Where the invocation w went, and where its message. *)
LEMMA GoesType ==
  ASSUME Types, NEW w \in Workers, run[w].pc # "idle",
         NEW pc \in {"claim", "read", "commit", "upload", "write", "email", "failed"},
         Goes(w, pc), UNCHANGED <<attempts, brief, unsent>>
  PROVE  /\ (run \in [Workers -> Runs])'
         /\ \A v \in Workers : Assigned(v)'
         /\ (unsent \union poison \subseteq 1 .. attempts)'
         /\ (queue \subseteq [attempt : 1 .. attempts, count : 0 .. MaxDequeue - 1])'
  <1>1. run' = [run EXCEPT ![w].pc = pc] /\ UNCHANGED <<queue, poison>>
    BY DEF Goes
  <1>2. run \in [Workers -> Runs] /\ Runs' = Runs
    BY DEF Types, TypeOK, Runs
  <1>3. [run[w] EXCEPT !.pc = pc] \in Runs
    BY <1>2 DEF Runs
  <1>4. run' \in [Workers -> Runs']
    BY <1>1, <1>2, <1>3
  <1>5. \A v \in Workers : run'[v].attempt = run[v].attempt
    BY <1>1, <1>2 DEF Runs
  <1>6. \A v \in Workers : Assigned(v)'
    BY <1>1, <1>2, <1>5 DEF Assigned, Types
  <1> QED
    BY <1>1, <1>4, <1>6 DEF Types, TypeOK

LEMMA EndsType ==
  ASSUME Types, NEW w \in Workers, run[w].pc # "idle",
         GivesBack(w) \/ Finishes(w), UNCHANGED <<attempts, brief, unsent>>
  PROVE  /\ (run \in [Workers -> Runs])'
         /\ \A v \in Workers : Assigned(v)'
         /\ (unsent \union poison \subseteq 1 .. attempts)'
         /\ (queue \subseteq [attempt : 1 .. attempts, count : 0 .. MaxDequeue - 1])'
  <1>1. run' = [run EXCEPT ![w] = Idle]
    BY DEF GivesBack, Finishes
  <1>2. Idle \in Runs' /\ Idle.pc = "idle"
    BY BoundsType DEF Idle, Runs, Types, TypeOK
  <1>3. run[w].attempt \in 1 .. attempts /\ run[w].count \in 0 .. MaxDequeue
    BY DEF Types, TypeOK, Assigned
  <1>4. poison' \subseteq poison \union {run[w].attempt}
    BY DEF GivesBack, Finishes
  <1>5. queue' \subseteq queue \union
          {m \in {[attempt |-> run[w].attempt, count |-> run[w].count]} : run[w].count < MaxDequeue}
    BY DEF GivesBack, Finishes
  <1>6. Runs' = Runs
    BY DEF Runs
  <1>7. run' \in [Workers -> Runs']
    BY <1>1, <1>2, <1>6 DEF Types, TypeOK, Runs
  <1>8. \A v \in Workers : Assigned(v)'
    BY <1>1, <1>2 DEF Types, TypeOK, Assigned
  <1>9. (unsent \union poison \subseteq 1 .. attempts)'
    BY <1>3, <1>4 DEF Types, TypeOK
  <1>10. (queue \subseteq [attempt : 1 .. attempts, count : 0 .. MaxDequeue - 1])'
    BY <1>3, <1>5, BoundsType DEF Types, TypeOK
  <1> QED
    BY <1>7, <1>8, <1>9, <1>10

-----------------------------------------------------------------------------
(* Type correctness. *)

LEMMA StartsTypes ==
  ASSUME Types, Lock \/ Regenerate
  PROVE  Types'
  <1>1. /\ Starts
        /\ locked' \in BOOLEAN
        /\ brief' = brief \/ brief' = brief + 1
    BY DEF Lock, Regenerate, Types, TypeOK
  <1>2. attempts' = attempts + 1 /\ attempts' \in 0 .. MaxAttempts
    BY <1>1, BoundsType DEF Starts, Types, TypeOK
  <1>3. brief' \in 0 .. attempts' /\ artifact' \in 0 .. brief'
    BY <1>1, <1>2 DEF Starts, Types, TypeOK
  <1>4. pdf' \in [status : {"none", "pending", "processing", "ready", "failed"},
                  attempt : 0 .. attempts']
    BY <1>1, <1>2 DEF Starts
  <1>5. (unsent \union poison \subseteq 1 .. attempts)'
    BY <1>1, <1>2 DEF Starts, Types, TypeOK
  <1>6. (queue \subseteq [attempt : 1 .. attempts, count : 0 .. MaxDequeue - 1])'
    BY <1>1, <1>2 DEF Starts, Types, TypeOK
  <1>7. Runs \subseteq Runs'
    BY <1>1, <1>2 DEF Runs, Types, TypeOK
  <1>8. (run \in [Workers -> Runs])'
    BY <1>1, <1>7 DEF Starts, Types, TypeOK, Runs
  <1>9. \A v \in Workers : Assigned(v)'
    BY <1>1, <1>2 DEF Starts, Types, TypeOK, Assigned
  <1> QED
    BY <1>1, <1>2, <1>3, <1>4, <1>5, <1>6, <1>8, <1>9 DEF Starts, Types, TypeOK, Runs

(* The steps of the round's requests, leases and queues that start nothing. *)
LEMMA RequestTypes ==
  ASSUME Types, NEW a,
         \/ Unlock \/ Lapse \/ AtRest \/ Send(a) \/ SendFails(a) \/ RequestDies(a)
         \/ HandlePoison(a) \/ PoisonSwallowed(a)
  PROVE  Types'
  <1>1. CASE Unlock
    <2>1. pdf' \in [status : {"none", "pending", "processing", "ready", "failed"},
                    attempt : 0 .. attempts] /\ locked' \in BOOLEAN
      <3>1. 0 \in 0 .. attempts
        BY BoundsType DEF Types, TypeOK
      <3> QED
        BY <1>1, <3>1 DEF Unlock, NoAttempt
    <2> QED
      BY <1>1, <2>1 DEF Unlock, Types, TypeOK, Assigned, messages
  <1>2. CASE Lapse
    <2>1. faults' \in [kinds : Worlds, count : 0 .. MaxFaults]
      BY <1>2, FaultType DEF Lapse, Types, TypeOK
    <2> QED
      BY <1>2, <2>1 DEF Lapse, Types, TypeOK, Assigned, round, messages
  <1>3. CASE AtRest
    BY <1>3 DEF AtRest, vars, Types, TypeOK, Assigned, round, messages
  <1>4. CASE Send(a)
    <2>1. (queue \subseteq [attempt : 1 .. attempts, count : 0 .. MaxDequeue - 1])'
      BY <1>4, BoundsType DEF Send, Types, TypeOK
    <2>2. (unsent \union poison \subseteq 1 .. attempts)'
      BY <1>4 DEF Send, Types, TypeOK
    <2> QED
      BY <1>4, <2>1, <2>2 DEF Send, Types, TypeOK, Assigned, round
  <1>5. CASE SendFails(a)
    <2>1. faults' \in [kinds : Worlds, count : 0 .. MaxFaults]
      BY <1>5, FaultType DEF SendFails, Types
    <2>2. pdf' \in [status : {"none", "pending", "processing", "ready", "failed"},
                    attempt : 0 .. attempts]
      BY <1>5, SetsStatusType DEF SendFails, Types
    <2> QED
      BY <1>5, <2>1, <2>2 DEF SendFails, Types, TypeOK, Assigned
  <1>6. CASE RequestDies(a) \/ PoisonSwallowed(a)
    <2>1. faults' \in [kinds : Worlds, count : 0 .. MaxFaults]
      BY <1>6, FaultType DEF RequestDies, PoisonSwallowed, Types
    <2>2. (unsent \union poison \subseteq 1 .. attempts)'
      BY <1>6 DEF RequestDies, PoisonSwallowed, Types, TypeOK
    <2>3. UNCHANGED <<locked, brief, pdf, artifact, lease, queue, run, emails, attempts>>
      BY <1>6 DEF RequestDies, PoisonSwallowed, round
    <2> QED
      BY <2>1, <2>2, <2>3 DEF Types, TypeOK, Assigned
  <1>7. CASE HandlePoison(a)
    <2>1. pdf' \in [status : {"none", "pending", "processing", "ready", "failed"},
                    attempt : 0 .. attempts]
      BY <1>7, SetsStatusType DEF HandlePoison, Types
    <2> QED
      BY <1>7, <2>1 DEF HandlePoison, Types, TypeOK, Assigned
  <1> QED
    BY <1>1, <1>2, <1>3, <1>4, <1>5, <1>6, <1>7

(* A worker takes up a message and reads the brief. *)
LEMMA TakeUpTypes ==
  ASSUME Types, NEW w \in Workers,
         Read(w) \/ (\E m \in queue : Dequeue(w, m))
  PROVE  Types'
  <1>0. run \in [Workers -> Runs]
    BY DEF Types, TypeOK, Runs
  <1>1. CASE Read(w)
    <2>1. run' = [run EXCEPT ![w] = [@ EXCEPT !.pc = "commit", !.brief = brief]]
      BY <1>1 DEF Read
    <2>2. [run[w] EXCEPT !.pc = "commit", !.brief = brief] \in Runs
      <3>1. brief \in 0 .. brief
        BY DEF Types, TypeOK
      <3> QED
        BY <1>0, <3>1 DEF Runs
    <2>3. run' \in [Workers -> Runs] /\ Runs' = Runs
      BY <1>0, <1>1, <2>1, <2>2 DEF Read, Runs, round
    <2>4. \A v \in Workers : run'[v].attempt = run[v].attempt /\ (run'[v].pc # "idle" => run[v].pc # "idle")
      BY <1>0, <1>1, <2>1 DEF Read, Runs
    <2>5. \A v \in Workers : Assigned(v)'
      BY <1>1, <2>4 DEF Read, Assigned, Types
    <2> QED
      BY <1>1, <2>3, <2>5 DEF Read, Types, TypeOK, Runs, round, messages
  <1>2. ASSUME NEW m \in queue, Dequeue(w, m)
        PROVE  Types'
    <2> DEFINE begun == [Idle EXCEPT !.pc = "claim", !.attempt = m.attempt, !.count = m.count + 1]
    <2>1. run' = run \/ run' = [run EXCEPT ![w] = begun]
      BY <1>2 DEF Dequeue
    <2>2. m.attempt \in 1 .. attempts /\ m.count + 1 \in 0 .. MaxDequeue
      <3>1. m \in [attempt : 1 .. attempts, count : 0 .. MaxDequeue - 1]
        BY DEF Types, TypeOK
      <3> QED
        BY <3>1, BoundsType
    <2>3. begun \in Runs /\ begun.attempt = m.attempt
      <3>1. Idle \in Runs
        BY BoundsType DEF Idle, Runs, Types, TypeOK
      <3>2. m.attempt \in 0 .. attempts
        BY <2>2 DEF Types, TypeOK
      <3> QED
        BY <2>2, <3>1, <3>2 DEF Runs
    <2> HIDE DEF begun
    <2>4. run' \in [Workers -> Runs] /\ Runs' = Runs
      <3>1. Runs' = Runs
        BY <1>2 DEF Dequeue, Runs, round
      <3>2. run' \in [Workers -> Runs]
        <4>1. CASE run' = run
          BY <1>0, <4>1
        <4>2. CASE run' = [run EXCEPT ![w] = begun]
          BY <1>0, <2>3, <4>2
        <4> QED
          BY <2>1, <4>1, <4>2
      <3> QED
        BY <3>1, <3>2
    <2>5. \A v \in Workers : Assigned(v)'
      BY <1>0, <1>2, <2>1, <2>2, <2>3 DEF Dequeue, Assigned, Types
    <2> QED
      BY <1>2, <2>4, <2>5 DEF Dequeue, Types, TypeOK, Runs, round
  <1> QED
    BY <1>1, <1>2

(* The other steps of an invocation: what each may change, in outline. *)
Works(w) ==
  \/ Claim(w) \/ ClaimFails(w) \/ RenderFails(w) \/ BeginCommit(w) \/ CommitContended(w)
  \/ Upload(w) \/ UploadFails(w) \/ Write(w) \/ WriteFails(w) \/ SendEmail(w) \/ EmailFails(w)
  \/ Fail(w) \/ FailFails(w) \/ Crash(w)

Onwards == {"read", "upload", "write", "email", "failed"}

LEMMA WorksOutline ==
  ASSUME NEW w, Works(w)
  PROVE  /\ run[w].pc # "idle"
         /\ (\E pc \in Onwards : Goes(w, pc)) \/ GivesBack(w) \/ Finishes(w)
         /\ UNCHANGED <<locked, brief, unsent, attempts>>
         /\ \/ pdf' = pdf
            \/ SetsStatus(run[w].attempt, {"pending", "failed"}, "processing")
            \/ SetsStatus(run[w].attempt, {"pending", "processing"}, "failed")
            \/ pdf' = [pdf EXCEPT !.status = "ready"]
         /\ artifact' \in {artifact, run[w].brief}
         /\ lease' \in {lease, w, NoOne}
         /\ emails' = emails \/ emails' = [emails EXCEPT ![run[w].attempt] = @ + 1]
         /\ UNCHANGED faults \/ \E kind : Fault(kind)
  <1>1. CASE Claim(w)
    BY <1>1 DEF Claim, Onwards, round, messages, Releases
  <1>2. CASE ClaimFails(w)
    BY <1>2 DEF ClaimFails, Onwards, round, messages, Releases
  <1>3. CASE RenderFails(w)
    BY <1>3 DEF RenderFails, Onwards, round, messages, Releases
  <1>4. CASE BeginCommit(w)
    BY <1>4 DEF BeginCommit, Onwards, round, messages, Releases
  <1>5. CASE CommitContended(w)
    BY <1>5 DEF CommitContended, Onwards, round, messages, Releases
  <1>6. CASE Upload(w)
    BY <1>6 DEF Upload, Onwards, round, messages, Releases
  <1>7. CASE UploadFails(w)
    BY <1>7 DEF UploadFails, Onwards, round, messages, Releases
  <1>8. CASE Write(w)
    BY <1>8 DEF Write, Onwards, round, messages, Releases
  <1>9. CASE WriteFails(w)
    BY <1>9 DEF WriteFails, Onwards, round, messages, Releases
  <1>10. CASE SendEmail(w)
    BY <1>10 DEF SendEmail, Onwards, round, messages, Releases
  <1>11. CASE EmailFails(w)
    BY <1>11 DEF EmailFails, Onwards, round, messages, Releases
  <1>12. CASE Fail(w)
    BY <1>12 DEF Fail, Onwards, round, messages, Releases
  <1>13. CASE FailFails(w)
    BY <1>13 DEF FailFails, Onwards, round, messages, Releases
  <1>14. CASE Crash(w)
    BY <1>14 DEF Crash, Onwards, round, messages, Releases
  <1> QED
    BY <1>1, <1>2, <1>3, <1>4, <1>5, <1>6, <1>7, <1>8, <1>9, <1>10, <1>11, <1>12, <1>13, <1>14 DEF Works

LEMMA WorksTypes ==
  ASSUME Types, NEW w \in Workers, Works(w)
  PROVE  Types'
  <1>1. run[w].pc # "idle" /\ UNCHANGED <<locked, brief, unsent, attempts>>
    BY WorksOutline
  <1>2. /\ (run \in [Workers -> Runs])'
        /\ \A v \in Workers : Assigned(v)'
        /\ (unsent \union poison \subseteq 1 .. attempts)'
        /\ (queue \subseteq [attempt : 1 .. attempts, count : 0 .. MaxDequeue - 1])'
    BY <1>1, WorksOutline, GoesType, EndsType DEF Onwards
  <1>3. pdf' \in [status : {"none", "pending", "processing", "ready", "failed"},
                  attempt : 0 .. attempts]
    <2>1. CASE pdf' = pdf \/ pdf' = [pdf EXCEPT !.status = "ready"]
      BY <2>1 DEF Types, TypeOK
    <2> QED
      BY <2>1, WorksOutline, SetsStatusType DEF Types
  <1>4. artifact' \in 0 .. brief /\ lease' \in Workers \union {NoOne}
    BY WorksOutline DEF Types, TypeOK
  <1>5. emails' \in [1 .. MaxAttempts -> Nat]
    <2>1. run[w].attempt \in 1 .. MaxAttempts
      BY <1>1, BoundsType DEF Types, TypeOK, Assigned
    <2>2. emails \in [1 .. MaxAttempts -> Nat]
      BY DEF Types, TypeOK
    <2> QED
      BY WorksOutline, <2>1, <2>2
  <1>6. faults' \in [kinds : Worlds, count : 0 .. MaxFaults]
    BY WorksOutline, FaultType DEF Types, TypeOK
  <1> QED
    BY <1>1, <1>2, <1>3, <1>4, <1>5, <1>6 DEF Types, TypeOK, Runs

LEMMA StallTypes ==
  ASSUME Types, NEW w \in Workers, Stall(w)
  PROVE  Types'
  <1>1. faults' \in [kinds : Worlds, count : 0 .. MaxFaults]
    BY FaultType DEF Stall, Types
  <1>2. run' = [run EXCEPT ![w] = [@ EXCEPT !.holds = FALSE]]
    BY DEF Stall
  <1>3. run \in [Workers -> Runs] /\ Runs' = Runs
    BY DEF Stall, Types, TypeOK, Runs, round
  <1>4. [run[w] EXCEPT !.holds = FALSE] \in Runs
    BY <1>3 DEF Runs
  <1>5. run' \in [Workers -> Runs']
    BY <1>2, <1>3, <1>4
  <1>6. \A v \in Workers : run'[v].attempt = run[v].attempt /\ run'[v].pc = run[v].pc
    BY <1>2, <1>3 DEF Runs
  <1>7. \A v \in Workers : Assigned(v)'
    BY <1>6 DEF Stall, Assigned, Types, round
  <1>8. run[w].attempt \in 1 .. attempts /\ run[w].count \in 0 .. MaxDequeue - 1
    BY BoundsType DEF Stall, Types, TypeOK, Assigned
  <1>9. (queue \subseteq [attempt : 1 .. attempts, count : 0 .. MaxDequeue - 1])'
    BY <1>8 DEF Stall, Types, TypeOK, round
  <1> QED
    BY <1>1, <1>5, <1>7, <1>9 DEF Stall, Types, TypeOK, Runs, round

LEMMA TypesInit == Init => Types
  <1> SUFFICES ASSUME Init PROVE Types
    OBVIOUS
  <1>1. run \in [Workers -> Runs] /\ \A w \in Workers : Assigned(w)
    BY BoundsType DEF Init, Idle, Runs, Assigned
  <1>2. pdf \in [status : {"none", "pending", "processing", "ready", "failed"},
                 attempt : 0 .. attempts]
    BY DEF Init, NoAttempt
  <1>3. faults \in [kinds : Worlds, count : 0 .. MaxFaults]
    BY BoundsType DEF Init
  <1>4. emails \in [1 .. MaxAttempts -> Nat] /\ attempts \in 0 .. MaxAttempts
    BY BoundsType DEF Init
  <1>5. brief \in 0 .. attempts /\ artifact \in 0 .. brief
    BY DEF Init
  <1>6. /\ locked \in BOOLEAN /\ lease \in Workers \union {NoOne}
        /\ unsent = {} /\ poison = {} /\ queue = {}
    BY DEF Init
  <1> QED
    BY <1>1, <1>2, <1>3, <1>4, <1>5, <1>6 DEF Types, TypeOK, Runs

LEMMA TypesStep == Types /\ [Next]_vars => Types'
  <1> SUFFICES ASSUME Types, [Next]_vars PROVE Types'
    OBVIOUS
  <1>1. CASE UNCHANGED vars
    BY <1>1 DEF vars, round, messages, Types, TypeOK, Assigned
  <1>2. CASE Lock \/ Regenerate
    BY <1>2, StartsTypes
  <1>3. CASE Unlock \/ Lapse \/ AtRest
    BY <1>3, RequestTypes
  <1>4. ASSUME NEW a, Send(a) \/ SendFails(a) \/ RequestDies(a) \/ HandlePoison(a)
                      \/ PoisonSwallowed(a)
        PROVE  Types'
    BY <1>4, RequestTypes
  <1>5. ASSUME NEW w \in Workers, Read(w) \/ (\E m \in queue : Dequeue(w, m))
        PROVE  Types'
    BY <1>5, TakeUpTypes
  <1>6. ASSUME NEW w \in Workers, Works(w) \/ Stall(w)
        PROVE  Types'
    BY <1>6, WorksTypes, StallTypes
  <1>7. ASSUME NEW a, Deliver(a)
        PROVE  Types'
    BY <1>5, <1>7 DEF Deliver
  <1> QED
    BY <1>1, <1>2, <1>3, <1>4, <1>5, <1>6, <1>7 DEF Next, Proceeds, Fails, Works

(* What the round, the blobs, the queues and the workers hold is of its    *)
(* type, in every run: no attempt is queued, claimed or mailed that was    *)
(* not started, and no message is delivered more often than the queue does *)
(* (host.json, maxDequeueCount; handleBriefPdfJob).                        *)
THEOREM TypeSafety == Spec => []TypeOK
  <1>1. Types => TypeOK
    BY DEF Types
  <1> QED
    BY <1>1, TypesInit, TypesStep, PTL DEF Spec

-----------------------------------------------------------------------------
(* The inductive invariant.  It explains why no worker spoils what another *)
(* has done: while one commits under the lease, its attempt is current and *)
(* not ready; an attempt that was mailed, or is about to be, was ready and *)
(* will never be anything else while it is current; and each attempt is    *)
(* about to be mailed by one worker at most.                               *)

Done(a) == pdf.attempt = a => pdf.status = "ready"
Mailing(w, a) == run[w].pc = "email" /\ run[w].attempt = a

CommitsCurrent ==
  \A w \in Workers : lease = w /\ run[w].pc \in {"upload", "write"} => Committable(w)
StatusOfAnAttempt == pdf.attempt = 0 <=> pdf.status = "none"
MailsOnce ==
  /\ \A w \in Workers, a \in 1 .. MaxAttempts : Mailing(w, a) => Done(a) /\ emails[a] = 0
  /\ \A v, w \in Workers, a \in 1 .. MaxAttempts : Mailing(v, a) /\ Mailing(w, a) => v = w
  /\ \A a \in 1 .. MaxAttempts : emails[a] = 0 \/ (emails[a] = 1 /\ Done(a) /\ a <= attempts)

Sound == Types /\ CommitsCurrent /\ StatusOfAnAttempt /\ MailsOnce

(* How a step may change what the round shows of its PDF. *)
PdfKept == pdf' = pdf /\ attempts' = attempts
PdfCancelled == pdf' = NoAttempt /\ attempts' = attempts
PdfStarted ==
  pdf' = [status |-> "pending", attempt |-> attempts'] /\ attempts' = attempts + 1
PdfMoves(from, to) ==
  /\ pdf.attempt # 0 /\ pdf.status \in from
  /\ pdf' = [pdf EXCEPT !.status = to] /\ attempts' = attempts
PdfMoved ==
  \/ PdfMoves({"pending", "failed"}, "processing")
  \/ PdfMoves({"pending", "processing"}, "failed")
  \/ PdfMoves({"pending", "processing", "failed"}, "ready")

LEMMA SetsStatusMoves ==
  ASSUME Sound, attempts' = attempts, NEW a,
         \/ SetsStatus(a, {"pending", "failed"}, "processing")
         \/ SetsStatus(a, {"pending", "processing"}, "failed")
  PROVE  PdfKept \/ PdfMoved
  BY DEF Sound, StatusOfAnAttempt, SetsStatus, PdfKept, PdfMoved, PdfMoves

(* A worker that writes under the lease makes the current attempt ready. *)
LEMMA WriteMoves ==
  ASSUME Sound, NEW w \in Workers, lease = w, run[w].pc = "write",
         pdf' = [pdf EXCEPT !.status = "ready"], attempts' = attempts
  PROVE  /\ PdfMoves({"pending", "processing", "failed"}, "ready")
         /\ pdf.attempt = run[w].attempt /\ pdf.status # "ready"
  <1>1. Committable(w) /\ run[w].attempt \in 1 .. attempts
    BY DEF Sound, CommitsCurrent, Types, Assigned
  <1>2. pdf.attempt = run[w].attempt /\ pdf.status # "ready" /\ pdf.attempt # 0
    BY <1>1 DEF Committable
  <1>3. pdf.status \in {"pending", "processing", "failed"}
    BY <1>2 DEF Sound, StatusOfAnAttempt, Types, TypeOK
  <1> QED
    BY <1>2, <1>3 DEF PdfMoves

(* A step takes nobody to the commit or the mail, changes the PDF's status *)
(* only while nobody has the lease, and mails nothing.                     *)
Quiet ==
  /\ \A v \in Workers : run'[v].pc \in {"upload", "write"} =>
       run[v].pc \in {"upload", "write"} /\ run'[v].attempt = run[v].attempt
  /\ \A v \in Workers : run'[v].pc = "email" =>
       run[v].pc = "email" /\ run'[v].attempt = run[v].attempt
  /\ lease' = lease \/ lease' = NoOne
  /\ pdf' = pdf \/ lease' = NoOne
  /\ emails' = emails
  /\ PdfKept \/ PdfCancelled \/ PdfStarted \/ PdfMoved

(* An attempt that is over stays over. *)
LEMMA DoneStays ==
  ASSUME Sound, NEW a \in 1 .. attempts, Done(a),
         PdfKept \/ PdfCancelled \/ PdfStarted \/ PdfMoved
  PROVE  Done(a)'
  <1>1. attempts \in Nat /\ a # 0 /\ a # attempts + 1
    BY BoundsType DEF Sound, Types, TypeOK
  <1>2. CASE PdfKept
    BY <1>2 DEF PdfKept, Done
  <1>3. CASE PdfCancelled
    BY <1>1, <1>3 DEF PdfCancelled, NoAttempt, Done
  <1>4. CASE PdfStarted
    BY <1>1, <1>4 DEF PdfStarted, Done
  <1>5. CASE PdfMoved
    BY <1>5 DEF PdfMoved, PdfMoves, Done, Sound, Types, TypeOK
  <1> QED
    BY <1>2, <1>3, <1>4, <1>5

LEMMA StatusStays ==
  ASSUME Sound, PdfKept \/ PdfCancelled \/ PdfStarted \/ PdfMoved
  PROVE  StatusOfAnAttempt'
  <1>1. CASE PdfKept
    BY <1>1 DEF PdfKept, Sound, StatusOfAnAttempt
  <1>2. CASE PdfCancelled
    BY <1>2 DEF PdfCancelled, NoAttempt, StatusOfAnAttempt
  <1>3. CASE PdfStarted
    <2>1. attempts + 1 # 0
      BY BoundsType DEF Sound, Types, TypeOK
    <2> QED
      BY <1>3, <2>1 DEF PdfStarted, StatusOfAnAttempt
  <1>4. CASE PdfMoved
    BY <1>4 DEF PdfMoved, PdfMoves, StatusOfAnAttempt, Sound, Types, TypeOK
  <1> QED
    BY <1>1, <1>2, <1>3, <1>4

LEMMA QuietKeepsSound ==
  ASSUME Sound, Types', Quiet
  PROVE  Sound'
  <1>1. StatusOfAnAttempt'
    BY StatusStays DEF Quiet
  <1>2. CommitsCurrent'
    <2> SUFFICES ASSUME NEW w \in Workers, lease' = w, run'[w].pc \in {"upload", "write"}
                 PROVE  Committable(w)'
      BY DEF CommitsCurrent
    <2>1. lease' # NoOne
      BY BriefPdfAssumption
    <2>2. lease = w /\ pdf' = pdf
      BY <2>1 DEF Quiet
    <2>3. run[w].pc \in {"upload", "write"} /\ run'[w].attempt = run[w].attempt
      BY DEF Quiet
    <2>4. Committable(w)
      BY <2>2, <2>3 DEF Sound, CommitsCurrent
    <2> QED
      BY <2>2, <2>3, <2>4 DEF Committable
  <1>3. \A w \in Workers, a \in 1 .. MaxAttempts : Mailing(w, a)' => Mailing(w, a) /\ a \in 1 .. attempts
    BY DEF Quiet, Mailing, Sound, Types, Assigned
  <1>4. attempts' >= attempts
    BY BoundsType DEF Quiet, PdfKept, PdfCancelled, PdfStarted, PdfMoved, PdfMoves, Sound, Types, TypeOK
  <1>5. MailsOnce'
    <2>1. ASSUME NEW w \in Workers, NEW a \in 1 .. MaxAttempts, Mailing(w, a)'
          PROVE  Done(a)' /\ emails'[a] = 0
      BY <1>3, <2>1, DoneStays DEF Sound, MailsOnce, Quiet
    <2>2. ASSUME NEW v \in Workers, NEW w \in Workers, NEW a \in 1 .. MaxAttempts,
                 Mailing(v, a)', Mailing(w, a)'
          PROVE  v = w
      BY <1>3, <2>2 DEF Sound, MailsOnce
    <2>3. ASSUME NEW a \in 1 .. MaxAttempts
          PROVE  emails'[a] = 0 \/ (emails'[a] = 1 /\ Done(a)' /\ a <= attempts')
      <3>1. emails' = emails
        BY DEF Quiet
      <3>2. CASE emails[a] = 0
        BY <3>1, <3>2
      <3>3. CASE emails[a] = 1 /\ Done(a) /\ a <= attempts
        <4>1. a \in 1 .. attempts /\ a <= attempts'
          BY <1>4, <3>3, BoundsType DEF Sound, Types, TypeOK
        <4> QED
          BY <3>1, <3>3, <4>1, DoneStays DEF Quiet
      <3> QED
        BY <3>2, <3>3 DEF Sound, MailsOnce
    <2> QED
      BY <2>1, <2>2, <2>3 DEF MailsOnce
  <1> QED
    BY <1>1, <1>2, <1>5 DEF Sound

(* An invocation that goes on to a place other than the commit and the     *)
(* mail, or ends, leaves all others as they are.                           *)
LEMMA QuietRun ==
  ASSUME Types, NEW w \in Workers,
         \/ \E pc \in {"read", "commit", "failed"} : Goes(w, pc)
         \/ GivesBack(w) \/ Finishes(w)
         \/ run[w].pc = "upload" /\ Goes(w, "write")
  PROVE  /\ \A v \in Workers : run'[v].pc \in {"upload", "write"} =>
              run[v].pc \in {"upload", "write"} /\ run'[v].attempt = run[v].attempt
         /\ \A v \in Workers : run'[v].pc = "email" =>
              run[v].pc = "email" /\ run'[v].attempt = run[v].attempt
  <1>1. run \in [Workers -> Runs]
    BY DEF Types, TypeOK, Runs
  <1>2. CASE GivesBack(w) \/ Finishes(w)
    <2>1. run' = [run EXCEPT ![w] = Idle] /\ Idle.pc = "idle"
      BY <1>2 DEF GivesBack, Finishes, Idle
    <2> QED
      BY <1>1, <2>1
  <1>3. ASSUME NEW pc \in {"read", "commit", "failed", "write"}, Goes(w, pc)
        PROVE  /\ run'[w].pc = pc /\ run'[w].attempt = run[w].attempt
               /\ \A v \in Workers \ {w} : run'[v] = run[v]
    BY <1>1, <1>3 DEF Goes, Runs
  <1> QED
    BY <1>2, <1>3

LEMMA QuietRequests ==
  ASSUME Sound, NEW a,
         \/ Lock \/ Regenerate \/ Unlock \/ Lapse \/ Send(a) \/ SendFails(a) \/ RequestDies(a)
         \/ HandlePoison(a) \/ PoisonSwallowed(a)
  PROVE  Quiet
  <1>1. CASE Lock \/ Regenerate
    BY <1>1 DEF Lock, Regenerate, Starts, LeaseFree, Quiet, PdfStarted
  <1>2. CASE Unlock
    BY <1>2 DEF Unlock, LeaseFree, Quiet, PdfCancelled
  <1>3. CASE Lapse \/ Send(a) \/ RequestDies(a) \/ PoisonSwallowed(a)
    BY <1>3 DEF Lapse, Send, RequestDies, PoisonSwallowed, LeaseFree, Quiet, PdfKept, round, messages
  <1>4. CASE SendFails(a) \/ HandlePoison(a)
    <2>1. PdfKept \/ PdfMoved
      BY <1>4, SetsStatusMoves DEF SendFails, HandlePoison
    <2> QED
      BY <1>4, <2>1 DEF SendFails, HandlePoison, LeaseFree, Quiet
  <1> QED
    BY <1>1, <1>2, <1>3, <1>4

(* The steps of a worker that leave the commit and the mail alone, or end them. *)
Prepares(w) ==
  \/ Claim(w) \/ ClaimFails(w) \/ Read(w) \/ RenderFails(w) \/ CommitContended(w)
  \/ Upload(w) \/ UploadFails(w) \/ WriteFails(w) \/ EmailFails(w)
  \/ Fail(w) \/ FailFails(w) \/ Crash(w) \/ Stall(w) \/ (\E m \in queue : Dequeue(w, m))

LEMMA QuietWorker ==
  ASSUME Sound, NEW w \in Workers, Prepares(w)
  PROVE  Quiet
  <1> DEFINE runs == /\ \A v \in Workers : run'[v].pc \in {"upload", "write"} =>
                          run[v].pc \in {"upload", "write"} /\ run'[v].attempt = run[v].attempt
                     /\ \A v \in Workers : run'[v].pc = "email" =>
                          run[v].pc = "email" /\ run'[v].attempt = run[v].attempt
  <1>0. Types
    BY DEF Sound
  <1>1. CASE Claim(w)
    <2>1. PdfKept \/ PdfMoved
      BY <1>1, SetsStatusMoves DEF Claim
    <2>2. runs
      BY <1>0, <1>1, QuietRun DEF Claim
    <2> QED
      BY <1>1, <2>1, <2>2 DEF Claim, LeaseFree, Quiet
  <1>2. CASE \/ ClaimFails(w) \/ RenderFails(w) \/ CommitContended(w) \/ Upload(w) \/ EmailFails(w)
             \/ FailFails(w) \/ Crash(w)
    <2>1. runs
      BY <1>0, <1>2, QuietRun
         DEF ClaimFails, RenderFails, CommitContended, Upload, EmailFails, FailFails, Crash
    <2> QED
      BY <1>2, <2>1
         DEF ClaimFails, RenderFails, CommitContended, Upload, EmailFails, FailFails, Crash,
             Quiet, PdfKept, round, messages
  <1>3. CASE Read(w)
    <2>1. run \in [Workers -> Runs]
      BY <1>0 DEF Types, TypeOK, Runs
    <2>2. run' = [run EXCEPT ![w] = [@ EXCEPT !.pc = "commit", !.brief = brief]]
      BY <1>3 DEF Read
    <2>3. runs
      BY <2>1, <2>2 DEF Runs
    <2> QED
      BY <1>3, <2>3 DEF Read, Quiet, PdfKept, round
  <1>4. CASE UploadFails(w)
    <2>1. runs
      BY <1>0, <1>4, QuietRun DEF UploadFails
    <2> QED
      BY <1>4, <2>1 DEF UploadFails, Releases, Quiet, PdfKept, round
  <1>5. CASE WriteFails(w)
    <2>1. runs
      BY <1>0, <1>5, QuietRun DEF WriteFails
    <2>2. PdfKept \/ PdfMoved
      BY <1>5, WriteMoves DEF WriteFails, PdfKept, PdfMoved
    <2> QED
      BY <1>5, <2>1, <2>2 DEF WriteFails, Releases, Quiet
  <1>6. CASE Fail(w)
    <2>1. runs
      BY <1>0, <1>6, QuietRun DEF Fail
    <2>2. pdf' = pdf \/ (LeaseFree /\ SetsStatus(run[w].attempt, {"pending", "processing"}, "failed"))
      BY <1>6 DEF Fail
    <2>3. PdfKept \/ PdfMoved
      BY <1>6, <2>2, SetsStatusMoves DEF Fail, PdfKept
    <2> QED
      BY <1>6, <2>1, <2>2, <2>3 DEF Fail, LeaseFree, Quiet
  <1>7. CASE Stall(w)
    <2>1. run \in [Workers -> Runs] /\ run' = [run EXCEPT ![w] = [@ EXCEPT !.holds = FALSE]]
      BY <1>0, <1>7 DEF Stall, Types, TypeOK, Runs
    <2>2. runs
      BY <2>1 DEF Runs
    <2> QED
      BY <1>7, <2>2 DEF Stall, Quiet, PdfKept, round
  <1>8. ASSUME NEW m \in queue, Dequeue(w, m)
        PROVE  Quiet
    <2>1. run \in [Workers -> Runs]
      BY <1>0 DEF Types, TypeOK, Runs
    <2> DEFINE begun == [Idle EXCEPT !.pc = "claim", !.attempt = m.attempt, !.count = m.count + 1]
    <2>2. run' = run \/ run' = [run EXCEPT ![w] = begun]
      BY <1>8 DEF Dequeue
    <2>3. begun.pc = "claim"
      BY DEF Idle
    <2> HIDE DEF begun
    <2>4. runs
      BY <2>1, <2>2, <2>3
    <2> QED
      BY <1>8, <2>4 DEF Dequeue, Quiet, PdfKept, round
  <1> QED
    BY <1>1, <1>2, <1>3, <1>4, <1>5, <1>6, <1>7, <1>8 DEF Prepares

LEMMA BeginCommitKeepsSound ==
  ASSUME Sound, Types', NEW w \in Workers, BeginCommit(w)
  PROVE  Sound'
  <1>0. run \in [Workers -> Runs]
    BY DEF Sound, Types, TypeOK, Runs
  <1>1. CASE ~Committable(w)
    <2>1. Finishes(w) /\ UNCHANGED <<lease, pdf, emails, attempts>>
      BY <1>1 DEF BeginCommit, round
    <2> QED
      BY <2>1, QuietRun, QuietKeepsSound DEF Quiet, PdfKept, Sound
  <1>2. CASE Committable(w)
    <2>1. /\ lease' = w /\ run' = [run EXCEPT ![w] = [@ EXCEPT !.pc = "upload"]]
          /\ UNCHANGED <<pdf, emails, attempts>>
      BY <1>2 DEF BeginCommit, Goes, round
    <2>2. /\ run'[w].pc = "upload" /\ run'[w].attempt = run[w].attempt
          /\ \A v \in Workers \ {w} : run'[v] = run[v]
      BY <1>0, <2>1 DEF Runs
    <2>3. CommitsCurrent'
      BY <1>2, <2>1, <2>2 DEF CommitsCurrent, Committable
    <2>4. \A v \in Workers, a \in 1 .. MaxAttempts : Mailing(v, a)' => Mailing(v, a)
      BY <2>2 DEF Mailing
    <2>5. StatusOfAnAttempt' /\ MailsOnce'
      BY <2>1, <2>4 DEF Sound, StatusOfAnAttempt, MailsOnce, Done
    <2> QED
      BY <2>3, <2>5 DEF Sound
  <1> QED
    BY <1>1, <1>2

LEMMA WriteKeepsSound ==
  ASSUME Sound, Types', NEW w \in Workers, Write(w)
  PROVE  Sound'
  <1>0. run \in [Workers -> Runs] /\ attempts' = attempts /\ emails' = emails
    BY DEF Sound, Types, TypeOK, Runs, Write
  <1>1. CASE lease # w
    <2>1. Goes(w, "failed") /\ UNCHANGED <<lease, pdf, emails, attempts>>
      BY <1>1 DEF Write, Releases
    <2> QED
      BY <2>1, QuietRun, QuietKeepsSound DEF Quiet, PdfKept, Sound
  <1>2. CASE lease = w
    <2> DEFINE a == run[w].attempt
    <2>1. /\ PdfMoves({"pending", "processing", "failed"}, "ready")
          /\ pdf.attempt = a /\ pdf.status # "ready"
      BY <1>0, <1>2, WriteMoves DEF Write
    <2>2. run' = [run EXCEPT ![w] = [@ EXCEPT !.pc = "email"]] /\ lease' = NoOne
      BY <1>2 DEF Write, Goes, Releases
    <2>3. /\ run'[w].pc = "email" /\ run'[w].attempt = a
          /\ \A v \in Workers \ {w} : run'[v] = run[v]
      BY <1>0, <2>2 DEF Runs
    <2>4. ~Done(a) /\ pdf'.status = "ready"
      BY <2>1 DEF Done, PdfMoves, Sound, Types, TypeOK
    <2>5. a \in 1 .. attempts /\ a \in 1 .. MaxAttempts
      <3>1. a \in 1 .. attempts
        BY DEF Sound, Types, Assigned, Write
      <3>2. attempts \in 0 .. MaxAttempts
        BY DEF Sound, Types, TypeOK
      <3> HIDE DEF a
      <3> QED
        BY <3>1, <3>2, BoundsType
    <2>6. CommitsCurrent'
      BY <2>2, BriefPdfAssumption DEF CommitsCurrent
    <2>7. StatusOfAnAttempt'
      BY <2>1, StatusStays DEF PdfMoved
    <2>8. \A v \in Workers, b \in 1 .. MaxAttempts :
            Mailing(v, b)' => (v = w /\ b = a) \/ (v # w /\ Mailing(v, b))
      BY <2>3 DEF Mailing
    <2>9. emails[a] = 0 /\ \A v \in Workers : ~Mailing(v, a)
      BY <2>4, <2>5 DEF Sound, MailsOnce
    <2>10. \A b \in 1 .. MaxAttempts : Done(b) /\ b \in 1 .. attempts => Done(b)'
      BY <2>1, DoneStays DEF PdfMoved
    <2>11. \A v \in Workers, b \in 1 .. MaxAttempts : Mailing(v, b) => b \in 1 .. attempts
      BY DEF Mailing, Sound, Types, Assigned
    <2> HIDE DEF a
    <2>12. MailsOnce'
      <3>1. ASSUME NEW v \in Workers, NEW b \in 1 .. MaxAttempts, Mailing(v, b)'
            PROVE  Done(b)' /\ emails'[b] = 0
        <4>1. CASE v = w /\ b = a
          BY <1>0, <2>4, <2>9, <4>1 DEF Done
        <4>2. CASE Mailing(v, b)
          BY <1>0, <2>10, <2>11, <4>2 DEF Sound, MailsOnce
        <4> QED
          BY <2>8, <3>1, <4>1, <4>2
      <3>2. ASSUME NEW u \in Workers, NEW v \in Workers, NEW b \in 1 .. MaxAttempts,
                   Mailing(u, b)', Mailing(v, b)'
            PROVE  u = v
        BY <2>8, <2>9, <3>2 DEF Sound, MailsOnce
      <3>3. ASSUME NEW b \in 1 .. MaxAttempts
            PROVE  emails'[b] = 0 \/ (emails'[b] = 1 /\ Done(b)' /\ b <= attempts')
        <4>1. b <= attempts => b \in 1 .. attempts
          BY BoundsType DEF Sound, Types, TypeOK
        <4> QED
          BY <1>0, <2>10, <4>1 DEF Sound, MailsOnce
      <3> QED
        BY <3>1, <3>2, <3>3 DEF MailsOnce
    <2> QED
      BY <2>6, <2>7, <2>12 DEF Sound
  <1> QED
    BY <1>1, <1>2

LEMMA SendEmailKeepsSound ==
  ASSUME Sound, Types', NEW w \in Workers, SendEmail(w)
  PROVE  Sound'
  <1> DEFINE a == run[w].attempt
  <1>0. run \in [Workers -> Runs] /\ UNCHANGED <<attempts, pdf, lease>>
    BY DEF Sound, Types, TypeOK, Runs, SendEmail, round
  <1>1. a \in 1 .. attempts /\ a \in 1 .. MaxAttempts /\ Mailing(w, a)
    BY BoundsType DEF Sound, Types, TypeOK, Assigned, SendEmail, Mailing
  <1>2. Done(a) /\ emails[a] = 0 /\ \A v \in Workers \ {w} : ~Mailing(v, a)
    BY <1>1 DEF Sound, MailsOnce
  <1>3. emails' = [emails EXCEPT ![a] = 1]
    BY <1>2 DEF SendEmail
  <1>4. run'[w].pc = "idle" /\ \A v \in Workers \ {w} : run'[v] = run[v]
    BY <1>0 DEF SendEmail, Finishes, Idle
  <1>5. \A v \in Workers, b \in 1 .. MaxAttempts : Mailing(v, b)' => Mailing(v, b) /\ v # w /\ b # a
    BY <1>2, <1>4 DEF Mailing
  <1>6. \A b \in 1 .. MaxAttempts : emails'[b] = IF b = a THEN 1 ELSE emails[b]
    BY <1>1, <1>3 DEF Sound, Types, TypeOK
  <1> HIDE DEF a
  <1>7. CommitsCurrent'
    BY <1>0, <1>4 DEF Sound, CommitsCurrent, Committable
  <1>8. StatusOfAnAttempt'
    BY <1>0 DEF Sound, StatusOfAnAttempt
  <1>9. \A b \in 1 .. MaxAttempts : Done(b)' <=> Done(b)
    BY <1>0 DEF Done
  <1>10. a <= attempts'
    BY <1>0, <1>1, BoundsType DEF Sound, Types, TypeOK
  <1>11. MailsOnce'
    BY <1>0, <1>1, <1>2, <1>5, <1>6, <1>9, <1>10 DEF Sound, MailsOnce
  <1> QED
    BY <1>7, <1>8, <1>11 DEF Sound

LEMMA SoundInit == Init => Sound
  BY TypesInit DEF Init, NoAttempt, Idle, Sound, CommitsCurrent, StatusOfAnAttempt, MailsOnce, Mailing

LEMMA SoundStep == Sound /\ [Next]_vars => Sound'
  <1> SUFFICES ASSUME Sound, [Next]_vars PROVE Sound'
    OBVIOUS
  <1>0. Types'
    BY TypesStep DEF Sound
  <1>1. CASE UNCHANGED vars
    BY <1>0, <1>1, QuietKeepsSound DEF vars, round, Quiet, PdfKept
  <1>2. ASSUME NEW a,
               \/ Lock \/ Regenerate \/ Unlock \/ Lapse \/ Send(a) \/ SendFails(a) \/ RequestDies(a)
               \/ HandlePoison(a) \/ PoisonSwallowed(a)
        PROVE  Sound'
    BY <1>0, <1>2, QuietRequests, QuietKeepsSound
  <1>3. ASSUME NEW w \in Workers, Prepares(w)
        PROVE  Sound'
    BY <1>0, <1>3, QuietWorker, QuietKeepsSound
  <1>4. ASSUME NEW w \in Workers, BeginCommit(w) \/ Write(w) \/ SendEmail(w)
        PROVE  Sound'
    BY <1>0, <1>4, BeginCommitKeepsSound, WriteKeepsSound, SendEmailKeepsSound
  <1>5. CASE AtRest
    BY <1>1, <1>5 DEF AtRest
  <1>6. ASSUME NEW a, Deliver(a)
        PROVE  Sound'
    BY <1>3, <1>6 DEF Deliver, Prepares
  <1> QED
    BY <1>1, <1>2, <1>3, <1>4, <1>5, <1>6 DEF Next, Proceeds, Fails, Prepares

THEOREM SoundAlways == Spec => []Sound
  BY SoundInit, SoundStep, PTL DEF Spec

-----------------------------------------------------------------------------
(* The refinement. *)

Due == {a \in 1 .. MaxAttempts : \E w \in Workers : run[w].pc = "email" /\ run[w].attempt = a}

(* A step that leaves the mails alone starts, cancels or moves the attempt. *)
LEMMA StatusStep ==
  ASSUME Sound, Types', PdfKept \/ PdfCancelled \/ PdfStarted \/ PdfMoved,
         Due' = Due, emails' = emails
  PROVE  A!Next \/ UNCHANGED A!vars
  <1>1. CASE PdfKept
    BY <1>1 DEF PdfKept, A!vars, Due
  <1>2. CASE PdfCancelled
    <2>1. A!Cancel
      BY <1>2 DEF PdfCancelled, NoAttempt, A!Cancel, Due
    <2> QED
      BY <2>1 DEF A!Next
  <1>3. CASE PdfStarted
    <2>1. attempts < MaxAttempts
      BY <1>3, BoundsType DEF PdfStarted, Sound, Types, TypeOK
    <2>2. A!Start
      BY <1>3, <2>1 DEF PdfStarted, A!Start, Due
    <2> QED
      BY <2>2 DEF A!Next
  <1>4. CASE PdfMoved
    <2>1. pdf'.attempt = pdf.attempt /\ attempts' = attempts /\ pdf.attempt # 0
      BY <1>4 DEF PdfMoved, PdfMoves, Sound, Types, TypeOK
    <2>2. \/ pdf.status \in {"pending", "failed"} /\ pdf'.status = "processing"
          \/ pdf.status \in {"pending", "processing"} /\ pdf'.status = "failed"
          \/ pdf.status \in {"pending", "processing", "failed"} /\ pdf'.status = "ready"
      BY <1>4 DEF PdfMoved, PdfMoves, Sound, Types, TypeOK
    <2>3. A!Claim \/ A!Fail \/ A!Succeed
      BY <2>1, <2>2 DEF A!Claim, A!Fail, A!Succeed, A!Becomes, Due
    <2> QED
      BY <2>3 DEF A!Next
  <1> QED
    BY <1>1, <1>2, <1>3, <1>4

(* The end of a mailing, without a mail. *)
LEMMA ForgetStep ==
  ASSUME Sound, NEW w \in Workers, run[w].pc = "email", run'[w].pc # "email",
         \A v \in Workers \ {w} : run'[v] = run[v],
         UNCHANGED <<attempts, pdf, emails>>
  PROVE  A!Next
  <1>1. PICK a \in 1 .. MaxAttempts : a = run[w].attempt
    <2>1. run[w].attempt \in 1 .. attempts
      BY DEF Sound, Types, Assigned
    <2>2. attempts \in 0 .. MaxAttempts
      BY DEF Sound, Types, TypeOK
    <2> QED
      BY <2>1, <2>2, BoundsType
  <1>2. \A v \in Workers : run[v].pc = "email" /\ run[v].attempt = a => v = w
    BY <1>1 DEF Sound, MailsOnce, Mailing
  <1>3. a \in Due
    BY <1>1 DEF Due
  <1>4. Due' = Due \ {a}
    BY <1>1, <1>2 DEF Due
  <1>5. A!Forget(a)
    BY <1>3, <1>4 DEF A!Forget, Due
  <1> QED
    BY <1>5 DEF A!Next, A!AttemptIds

(* The mail itself. *)
LEMMA AnnounceStep ==
  ASSUME Sound, NEW w \in Workers, SendEmail(w)
  PROVE  A!Next
  <1>0. run \in [Workers -> Runs] /\ UNCHANGED <<attempts, pdf>>
    BY DEF Sound, Types, TypeOK, Runs, SendEmail, round
  <1>1. PICK a \in 1 .. MaxAttempts : a = run[w].attempt
    <2>1. run[w].attempt \in 1 .. attempts
      BY DEF Sound, Types, Assigned, SendEmail
    <2>2. attempts \in 0 .. MaxAttempts
      BY DEF Sound, Types, TypeOK
    <2> QED
      BY <2>1, <2>2, BoundsType
  <1>2. Mailing(w, a) /\ emails[a] = 0
    BY <1>1 DEF Sound, MailsOnce, Mailing, SendEmail
  <1>3. \A v \in Workers : Mailing(v, a) => v = w
    BY <1>2 DEF Sound, MailsOnce
  <1>4. run'[w].pc = "idle" /\ \A v \in Workers \ {w} : run'[v] = run[v]
    BY <1>0 DEF SendEmail, Finishes, Idle
  <1>5. a \in Due
    BY <1>2 DEF Due, Mailing
  <1>6. Due' = Due \ {a}
    BY <1>1, <1>3, <1>4 DEF Due, Mailing
  <1>7. emails' = [emails EXCEPT ![a] = 1]
    BY <1>1, <1>2 DEF SendEmail
  <1>8. A!Announce(a)
    BY <1>0, <1>2, <1>5, <1>6, <1>7 DEF A!Announce, Due
  <1> QED
    BY <1>8 DEF A!Next, A!AttemptIds

(* A worker that goes to the mail has just made its attempt ready. *)
LEMMA SucceedStep ==
  ASSUME Sound, NEW w \in Workers, Write(w), lease = w
  PROVE  A!Next
  <1>0. run \in [Workers -> Runs] /\ UNCHANGED <<attempts, emails>>
    BY DEF Sound, Types, TypeOK, Runs, Write
  <1>1. PICK a \in 1 .. MaxAttempts : a = run[w].attempt
    <2>1. run[w].attempt \in 1 .. attempts
      BY DEF Sound, Types, Assigned, Write
    <2>2. attempts \in 0 .. MaxAttempts
      BY DEF Sound, Types, TypeOK
    <2> QED
      BY <2>1, <2>2, BoundsType
  <1>2. PdfMoves({"pending", "processing", "failed"}, "ready") /\ pdf.attempt = a
    BY <1>0, <1>1, WriteMoves DEF Write
  <1>3. /\ run[w].pc = "write" /\ run'[w].pc = "email" /\ run'[w].attempt = a
        /\ \A v \in Workers \ {w} : run'[v] = run[v]
    BY <1>0, <1>1 DEF Write, Goes, Runs
  <1>4. Due' = Due \union {a}
    BY <1>3 DEF Due
  <1>5. pdf'.attempt = pdf.attempt /\ pdf'.status = "ready"
    BY <1>2 DEF PdfMoves, Sound, Types, TypeOK
  <1>6. A!Succeed
    BY <1>0, <1>2, <1>4, <1>5 DEF A!Succeed, A!Becomes, PdfMoves, Due
  <1> QED
    BY <1>6 DEF A!Next

(* Steps that leave every mailing as it is. *)
LEMMA DueStays ==
  ASSUME \A v \in Workers : run'[v].pc = "email" <=> run[v].pc = "email",
         \A v \in Workers : run[v].pc = "email" => run'[v].attempt = run[v].attempt
  PROVE  Due' = Due
  BY DEF Due

LEMMA OthersStay ==
  ASSUME Sound, NEW w \in Workers, Prepares(w) \/ BeginCommit(w) \/ Write(w)
  PROVE  \A v \in Workers \ {w} : run'[v] = run[v]
  <1>1. run \in [Workers -> Runs]
    BY DEF Sound, Types, TypeOK, Runs
  <1>2. run' = run \/ \E r : run' = [run EXCEPT ![w] = r]
    <2>1. CASE Works(w)
      BY <2>1, WorksOutline DEF Goes, GivesBack, Finishes
    <2>2. CASE Read(w) \/ Stall(w) \/ (\E m \in queue : Dequeue(w, m))
      BY <2>2 DEF Read, Stall, Dequeue
    <2> QED
      BY <2>1, <2>2 DEF Prepares, Works
  <1> QED
    BY <1>1, <1>2

LEMMA WorkerRefines ==
  ASSUME Sound, Types', NEW w \in Workers,
         Prepares(w) \/ BeginCommit(w) \/ Write(w) \/ SendEmail(w)
  PROVE  A!Next \/ UNCHANGED A!vars
  <1>0. run \in [Workers -> Runs] /\ Types
    BY DEF Sound, Types, TypeOK, Runs
  <1>1. CASE SendEmail(w)
    BY <1>1, AnnounceStep
  <1>2. CASE Write(w) /\ lease = w
    BY <1>2, SucceedStep
  <1>3. CASE EmailFails(w) \/ (Crash(w) /\ run[w].pc = "email")
    <2>1. run[w].pc = "email" /\ UNCHANGED <<attempts, pdf, emails>>
      BY <1>3 DEF EmailFails, Crash, round
    <2>2. run'[w].pc # "email"
      BY <1>0, <1>3 DEF EmailFails, Crash, Goes, GivesBack, Idle, Runs
    <2>3. Prepares(w)
      BY <1>3 DEF Prepares
    <2> QED
      BY <2>1, <2>2, <2>3, OthersStay, ForgetStep
  <1>4. CASE Stall(w)
    <2>1. run' = [run EXCEPT ![w] = [@ EXCEPT !.holds = FALSE]]
      BY <1>4 DEF Stall
    <2>2. \A v \in Workers : run'[v].pc = run[v].pc /\ run'[v].attempt = run[v].attempt
      BY <1>0, <2>1 DEF Runs
    <2>3. PdfKept /\ emails' = emails
      BY <1>4 DEF Stall, PdfKept, round
    <2> QED
      BY <2>2, <2>3, DueStays, StatusStep
  <1>5. CASE BeginCommit(w) \/ (Write(w) /\ lease # w)
    <2>1. run[w].pc # "email" /\ PdfKept /\ emails' = emails
      BY <1>5 DEF BeginCommit, Write, PdfKept, round
    <2>2. run'[w].pc # "email"
      BY <1>0, <1>5 DEF BeginCommit, Write, Goes, Finishes, Idle, Runs
    <2>3. Due' = Due
      BY <1>5, <2>1, <2>2, OthersStay, DueStays
    <2> QED
      BY <2>1, <2>3, StatusStep
  <1>6. CASE Prepares(w) /\ ~Stall(w) /\ ~EmailFails(w) /\ ~(Crash(w) /\ run[w].pc = "email")
    <2>1. run[w].pc # "email"
      BY <1>6 DEF Prepares, Claim, ClaimFails, Read, RenderFails, CommitContended, Upload, UploadFails,
                  WriteFails, Fail, FailFails, Dequeue
    <2>2. Quiet
      BY <1>6, QuietWorker
    <2>3. Due' = Due
      BY <1>6, <2>1, <2>2, OthersStay, DueStays DEF Quiet
    <2> QED
      BY <2>2, <2>3, StatusStep DEF Quiet
  <1> QED
    BY <1>1, <1>2, <1>3, <1>4, <1>5, <1>6 DEF Prepares

LEMMA RefinesInit == Init => A!Init
  BY DEF Init, NoAttempt, Idle, A!Init, A!AttemptIds

LEMMA RefinesStep == Sound /\ Types' /\ [Next]_vars => [A!Next]_(A!vars)
  <1> SUFFICES ASSUME Sound, Types', [Next]_vars PROVE A!Next \/ UNCHANGED A!vars
    OBVIOUS
  <1>1. CASE UNCHANGED vars
    BY <1>1 DEF vars, round, A!vars
  <1>2. ASSUME NEW a,
               \/ Lock \/ Regenerate \/ Unlock \/ Lapse \/ Send(a) \/ SendFails(a) \/ RequestDies(a)
               \/ HandlePoison(a) \/ PoisonSwallowed(a)
        PROVE  A!Next \/ UNCHANGED A!vars
    <2>1. Quiet
      BY <1>2, QuietRequests
    <2>2. run' = run
      BY <1>2 DEF Lock, Regenerate, Starts, Unlock, Lapse, Send, SendFails, RequestDies, HandlePoison,
                  PoisonSwallowed
    <2>3. Due' = Due
      BY <2>2 DEF Due
    <2> QED
      BY <2>1, <2>3, StatusStep DEF Quiet
  <1>3. ASSUME NEW w \in Workers, Prepares(w) \/ BeginCommit(w) \/ Write(w) \/ SendEmail(w)
        PROVE  A!Next \/ UNCHANGED A!vars
    BY <1>3, WorkerRefines
  <1>4. CASE AtRest
    BY <1>1, <1>4 DEF AtRest
  <1>5. ASSUME NEW a, Deliver(a)
        PROVE  A!Next \/ UNCHANGED A!vars
    BY <1>3, <1>5 DEF Deliver, Prepares
  <1> QED
    BY <1>1, <1>2, <1>3, <1>4, <1>5 DEF Next, Proceeds, Fails, Prepares

(* The PDF of a round keeps the promises of Attempts, whatever crashes,    *)
(* lapses or is delivered again, for any number of workers, attempts and   *)
(* faults (handleBriefPdfJob, commitBriefPdfReady, setBriefPdfStatus).     *)
THEOREM Refinement == Spec => ImplementsAttempts
  <1>1. Sound => Types
    BY DEF Sound
  <1> QED
    BY <1>1, RefinesInit, RefinesStep, SoundAlways, PTL DEF Spec, ImplementsAttempts, A!Spec

-----------------------------------------------------------------------------
(* The blob of a ready PDF.  As long as leases last, whoever is between    *)
(* BeginCommit and Write holds the lease, so that nobody else uploads in   *)
(* between; and whoever works for the current attempt read the brief after *)
(* the attempt was started, so that it is the brief of the current lock.   *)

Committing(w) == run[w].pc \in {"upload", "write"}

CommitsUnderLease == \A w \in Workers : Committing(w) => lease = w
CurrentBriefWasRead ==
  \A w \in Workers :
    run[w].pc \in {"commit", "upload", "write"} /\ pdf.attempt = run[w].attempt
      => run[w].brief = brief
UploadedBriefIsThere == \A w \in Workers : run[w].pc = "write" => artifact = run[w].brief

ArtifactSound ==
  "lapse" \notin world =>
    /\ CommitsUnderLease /\ CurrentBriefWasRead /\ UploadedBriefIsThere
    /\ pdf.status = "ready" => artifact = brief

LEMMA WorldStays == ASSUME Types, [Next]_vars PROVE world' = world
  <1>1. UNCHANGED faults \/ \E kind : Fault(kind)
    <2>1. ASSUME NEW w \in Workers, Works(w)
          PROVE  UNCHANGED faults \/ \E kind : Fault(kind)
      BY <2>1, WorksOutline
    <2>2. ASSUME NEW w \in Workers, NEW m, Dequeue(w, m) \/ Read(w) \/ Stall(w)
          PROVE  UNCHANGED faults \/ \E kind : Fault(kind)
      BY <2>2 DEF Dequeue, Read, Stall
    <2>3. ASSUME NEW a, \/ Lock \/ Regenerate \/ Unlock \/ Lapse \/ AtRest \/ UNCHANGED vars
                        \/ Send(a) \/ SendFails(a) \/ RequestDies(a) \/ HandlePoison(a)
                        \/ PoisonSwallowed(a)
          PROVE  UNCHANGED faults \/ \E kind : Fault(kind)
      BY <2>3 DEF Lock, Regenerate, Starts, Unlock, Lapse, AtRest, Send, SendFails, RequestDies,
                  HandlePoison, PoisonSwallowed, vars
    <2> QED
      BY <2>1, <2>2, <2>3 DEF Next, Proceeds, Fails, Works, Deliver
  <1> QED
    BY <1>1 DEF Fault, world, Types, TypeOK

(* The steps of the round and its requests: no worker moves.               *)
LEMMA RequestsKeepArtifact ==
  ASSUME Sound, ArtifactSound, "lapse" \notin world, world' = world, NEW a,
         \/ Lock \/ Regenerate \/ Unlock \/ Lapse \/ Send(a) \/ SendFails(a) \/ RequestDies(a)
         \/ HandlePoison(a) \/ PoisonSwallowed(a)
  PROVE  ArtifactSound'
  <1>1. run' = run /\ artifact' = artifact
    BY DEF Lock, Regenerate, Starts, Unlock, Lapse, Send, SendFails, RequestDies, HandlePoison,
           PoisonSwallowed
  <1>2. CommitsUnderLease'
    <2>1. CASE Lapse
      <3>1. ~Fault("lapse") /\ lease \in Workers
        BY <2>1 DEF Fault, Lapse, LeaseFree, Sound, Types, TypeOK
      <3>2. ~Committing(lease)
        BY <2>1, <3>1 DEF Lapse, Committing
      <3> QED
        BY <1>1, <3>1, <3>2 DEF ArtifactSound, CommitsUnderLease, Committing
    <2>2. CASE lease' = lease
      BY <1>1, <2>2 DEF ArtifactSound, CommitsUnderLease, Committing
    <2> QED
      BY <2>1, <2>2 DEF Lock, Regenerate, Starts, Unlock, Send, SendFails, RequestDies, HandlePoison,
                        PoisonSwallowed
  <1>3. \/ PdfStarted
        \/ brief' = brief /\ (PdfKept \/ PdfCancelled)
        \/ brief' = brief /\ PdfMoved /\ pdf'.status # "ready"
    <2>1. CASE Lock \/ Regenerate
      BY <2>1 DEF Lock, Regenerate, Starts, PdfStarted
    <2>2. CASE Unlock \/ Lapse \/ Send(a) \/ RequestDies(a) \/ PoisonSwallowed(a)
      BY <2>2 DEF Unlock, Lapse, Send, RequestDies, PoisonSwallowed, PdfKept, PdfCancelled, round,
                  messages
    <2>3. CASE SendFails(a) \/ HandlePoison(a)
      <3>1. SetsStatus(a, {"pending", "processing"}, "failed") /\ brief' = brief
            /\ attempts' = attempts
        BY <2>3 DEF SendFails, HandlePoison
      <3>2. PdfKept \/ PdfMoved
        BY <3>1, SetsStatusMoves
      <3>3. pdf' = pdf \/ pdf'.status # "ready"
        BY <3>1 DEF SetsStatus, Sound, Types, TypeOK
      <3> QED
        BY <3>1, <3>2, <3>3 DEF PdfKept
    <2> QED
      BY <2>1, <2>2, <2>3
  <1>4. \A w \in Workers : run[w].pc # "idle" => run[w].attempt \in 1 .. attempts
    BY DEF Sound, Types, Assigned
  <1>5. ASSUME NEW w \in Workers, run[w].pc # "idle", pdf'.attempt = run[w].attempt
        PROVE  pdf.attempt = run[w].attempt /\ brief' = brief
    <2>1. run[w].attempt # attempts + 1 /\ run[w].attempt # 0
      BY <1>4, <1>5, BoundsType DEF Sound, Types, TypeOK
    <2>2. ~PdfStarted /\ ~PdfCancelled
      BY <1>5, <2>1 DEF PdfStarted, PdfCancelled, NoAttempt
    <2> QED
      BY <1>3, <1>5, <2>2 DEF PdfKept, PdfMoved, PdfMoves, Sound, Types, TypeOK
  <1>6. CurrentBriefWasRead'
    BY <1>1, <1>5 DEF ArtifactSound, CurrentBriefWasRead
  <1>7. UploadedBriefIsThere'
    BY <1>1 DEF ArtifactSound, UploadedBriefIsThere
  <1>8. pdf'.status = "ready" => pdf.status = "ready" /\ brief' = brief
    BY <1>3 DEF PdfStarted, PdfKept, PdfCancelled, NoAttempt
  <1> QED
    BY <1>1, <1>2, <1>6, <1>7, <1>8 DEF ArtifactSound

(* A worker that stays away from the commit, or leaves it.                 *)
LEMMA LeavingKeepsArtifact ==
  ASSUME Sound, ArtifactSound, "lapse" \notin world, world' = world, NEW w \in Workers,
         \A v \in Workers \ {w} : run'[v] = run[v],
         run'[w].pc \notin {"commit", "upload", "write"},
         UNCHANGED <<brief, artifact>>, pdf'.attempt = pdf.attempt,
         pdf'.status = "ready" => pdf.status = "ready" \/ artifact = brief,
         lease' = lease \/ lease = w
  PROVE  ArtifactSound'
  <1>1. \A v \in Workers : run'[v].pc \in {"commit", "upload", "write"} => v # w /\ run'[v] = run[v]
    OBVIOUS
  <1>2. CommitsUnderLease'
    BY <1>1 DEF ArtifactSound, CommitsUnderLease, Committing
  <1>3. CurrentBriefWasRead'
    BY <1>1 DEF ArtifactSound, CurrentBriefWasRead
  <1>4. UploadedBriefIsThere'
    BY <1>1 DEF ArtifactSound, UploadedBriefIsThere
  <1> QED
    BY <1>2, <1>3, <1>4 DEF ArtifactSound

(* Nobody else commits while a worker holds the lease, or nobody does.     *)
LEMMA WriterHasUploaded ==
  ASSUME Sound, ArtifactSound, "lapse" \notin world, NEW w \in Workers, lease = w,
         run[w].pc = "write"
  PROVE  artifact = brief
  <1>1. Committable(w)
    BY DEF Sound, CommitsCurrent
  <1> QED
    BY <1>1 DEF Committable, ArtifactSound, CurrentBriefWasRead, UploadedBriefIsThere

LEMMA WorkersKeepArtifact ==
  ASSUME Sound, ArtifactSound, "lapse" \notin world, world' = world, NEW w \in Workers,
         Prepares(w) \/ BeginCommit(w) \/ Write(w) \/ SendEmail(w)
  PROVE  ArtifactSound'
  <1>0. run \in [Workers -> Runs]
    BY DEF Sound, Types, TypeOK, Runs
  <1>1. \A v \in Workers \ {w} : run'[v] = run[v]
    <2>1. CASE SendEmail(w)
      BY <1>0, <2>1 DEF SendEmail, Finishes
    <2> QED
      BY <2>1, OthersStay
  <1>2. CASE Claim(w) \/ Fail(w)
    <2>1. /\ \/ SetsStatus(run[w].attempt, {"pending", "failed"}, "processing")
             \/ SetsStatus(run[w].attempt, {"pending", "processing"}, "failed")
             \/ pdf' = pdf
          /\ UNCHANGED <<brief, artifact, lease>>
      BY <1>2 DEF Claim, Fail
    <2>2. pdf'.attempt = pdf.attempt /\ (pdf'.status = "ready" => pdf.status = "ready")
      BY <2>1 DEF SetsStatus, Sound, Types, TypeOK
    <2>3. run'[w].pc \in {"read", "idle"}
      BY <1>0, <1>2 DEF Claim, Fail, Goes, GivesBack, Finishes, Idle, Runs
    <2> QED
      BY <1>1, <2>1, <2>2, <2>3, LeavingKeepsArtifact
  <1>3. CASE \/ ClaimFails(w) \/ RenderFails(w) \/ CommitContended(w) \/ EmailFails(w)
             \/ FailFails(w) \/ Crash(w) \/ SendEmail(w) \/ UploadFails(w)
    <2>1. UNCHANGED <<brief, artifact, pdf>> /\ (lease' = lease \/ lease = w)
      BY <1>3 DEF ClaimFails, RenderFails, CommitContended, EmailFails, FailFails, Crash, SendEmail,
                  UploadFails, Releases, round
    <2>2. run'[w].pc \in {"failed", "idle"}
      BY <1>0, <1>3 DEF ClaimFails, RenderFails, CommitContended, EmailFails, FailFails, Crash,
                        SendEmail, UploadFails, Goes, GivesBack, Finishes, Idle, Runs
    <2> QED
      BY <1>1, <2>1, <2>2, LeavingKeepsArtifact
  <1>4. ASSUME NEW m \in queue, Dequeue(w, m)
        PROVE  ArtifactSound'
    <2>1. run'[w].pc \in {"claim", "idle"} /\ UNCHANGED <<brief, artifact, pdf, lease>>
      BY <1>0, <1>4 DEF Dequeue, Idle, round
    <2> QED
      BY <1>1, <2>1, LeavingKeepsArtifact
  <1>5. CASE WriteFails(w) \/ Write(w)
    <2>1. UNCHANGED <<brief, artifact>> /\ (lease' = lease \/ lease = w)
      BY <1>5 DEF WriteFails, Write, Releases
    <2>2. run[w].pc = "write" /\ run'[w].pc \in {"failed", "email"}
      BY <1>0, <1>5 DEF WriteFails, Write, Goes, Runs
    <2>3. pdf' = pdf \/ (lease = w /\ pdf' = [pdf EXCEPT !.status = "ready"])
      BY <1>5 DEF WriteFails, Write
    <2>4. pdf'.attempt = pdf.attempt
      BY <2>3 DEF Sound, Types, TypeOK
    <2>5. pdf'.status = "ready" => pdf.status = "ready" \/ artifact = brief
      BY <2>2, <2>3, WriterHasUploaded
    <2> QED
      BY <1>1, <2>1, <2>2, <2>4, <2>5, LeavingKeepsArtifact
  <1>6. CASE Read(w)
    <2>1. run' = [run EXCEPT ![w] = [@ EXCEPT !.pc = "commit", !.brief = brief]]
          /\ UNCHANGED <<brief, artifact, pdf, lease>>
      BY <1>6 DEF Read, round
    <2>2. run'[w].pc = "commit" /\ run'[w].brief = brief
      BY <1>0, <2>1 DEF Runs
    <2>3. CommitsUnderLease' /\ CurrentBriefWasRead' /\ UploadedBriefIsThere'
      BY <1>1, <2>1, <2>2
         DEF ArtifactSound, CommitsUnderLease, CurrentBriefWasRead, UploadedBriefIsThere, Committing
    <2> QED
      BY <2>1, <2>3 DEF ArtifactSound
  <1>7. CASE BeginCommit(w)
    <2>1. run[w].pc = "commit" /\ lease = NoOne /\ UNCHANGED <<brief, artifact, pdf>>
      BY <1>7 DEF BeginCommit, LeaseFree, round
    <2>2. CASE Committable(w)
      <3>1. lease' = w /\ run' = [run EXCEPT ![w] = [@ EXCEPT !.pc = "upload"]]
        BY <1>7, <2>2 DEF BeginCommit, Goes
      <3>2. run'[w].pc = "upload" /\ run'[w].brief = run[w].brief /\ run'[w].attempt = run[w].attempt
        BY <1>0, <3>1 DEF Runs
      <3>3. \A v \in Workers : ~Committing(v)
        BY <2>1, BriefPdfAssumption DEF ArtifactSound, CommitsUnderLease
      <3>4. CommitsUnderLease' /\ UploadedBriefIsThere'
        BY <1>1, <3>1, <3>2, <3>3 DEF CommitsUnderLease, UploadedBriefIsThere, Committing
      <3>5. CurrentBriefWasRead'
        BY <1>1, <2>1, <3>2 DEF ArtifactSound, CurrentBriefWasRead
      <3> QED
        BY <2>1, <3>4, <3>5 DEF ArtifactSound
    <2>3. CASE ~Committable(w)
      <3>1. run'[w].pc = "idle" /\ lease' = lease
        BY <1>0, <1>7, <2>3 DEF BeginCommit, Finishes, Idle
      <3> QED
        BY <1>1, <2>1, <3>1, LeavingKeepsArtifact
    <2> QED
      BY <2>2, <2>3
  <1>8. CASE Upload(w)
    <2>1. /\ run' = [run EXCEPT ![w] = [@ EXCEPT !.pc = "write"]] /\ artifact' = run[w].brief
          /\ run[w].pc = "upload" /\ UNCHANGED <<brief, pdf, lease>>
      BY <1>8 DEF Upload, Goes, round
    <2>2. /\ run'[w].pc = "write" /\ run'[w].brief = run[w].brief
          /\ run'[w].attempt = run[w].attempt
      BY <1>0, <2>1 DEF Runs
    <2>3. lease = w /\ \A v \in Workers \ {w} : ~Committing(v)
      BY <2>1 DEF ArtifactSound, CommitsUnderLease, Committing
    <2>4. CommitsUnderLease' /\ UploadedBriefIsThere'
      BY <1>1, <2>1, <2>2, <2>3 DEF CommitsUnderLease, UploadedBriefIsThere, Committing
    <2>5. CurrentBriefWasRead'
      BY <1>1, <2>1, <2>2 DEF ArtifactSound, CurrentBriefWasRead
    <2>6. pdf'.status # "ready"
      BY <2>1, <2>3 DEF Sound, CommitsCurrent, Committable
    <2> QED
      BY <2>4, <2>5, <2>6 DEF ArtifactSound
  <1>9. CASE Stall(w)
    <2>1. run' = [run EXCEPT ![w] = [@ EXCEPT !.holds = FALSE]]
          /\ UNCHANGED <<brief, artifact, pdf, lease>>
      BY <1>9 DEF Stall, round
    <2>2. \A v \in Workers : /\ run'[v].pc = run[v].pc /\ run'[v].attempt = run[v].attempt
                             /\ run'[v].brief = run[v].brief
      BY <1>0, <2>1 DEF Runs
    <2>3. CommitsUnderLease' /\ CurrentBriefWasRead' /\ UploadedBriefIsThere'
      BY <2>1, <2>2
         DEF ArtifactSound, CommitsUnderLease, CurrentBriefWasRead, UploadedBriefIsThere, Committing
    <2> QED
      BY <2>1, <2>3 DEF ArtifactSound
  <1> QED
    BY <1>2, <1>3, <1>4, <1>5, <1>6, <1>7, <1>8, <1>9 DEF Prepares

LEMMA ArtifactStep == Sound /\ ArtifactSound /\ [Next]_vars => ArtifactSound'
  <1> SUFFICES ASSUME Sound, ArtifactSound, [Next]_vars PROVE ArtifactSound'
    OBVIOUS
  <1>0. world' = world
    BY WorldStays DEF Sound
  <1> SUFFICES ASSUME "lapse" \notin world PROVE ArtifactSound'
    BY <1>0 DEF ArtifactSound
  <1>1. CASE UNCHANGED vars
    BY <1>1 DEF vars, round, ArtifactSound, CommitsUnderLease, CurrentBriefWasRead,
                UploadedBriefIsThere, Committing
  <1>2. ASSUME NEW a,
               \/ Lock \/ Regenerate \/ Unlock \/ Lapse \/ Send(a) \/ SendFails(a) \/ RequestDies(a)
               \/ HandlePoison(a) \/ PoisonSwallowed(a)
        PROVE  ArtifactSound'
    BY <1>0, <1>2, RequestsKeepArtifact
  <1>3. ASSUME NEW w \in Workers, Prepares(w) \/ BeginCommit(w) \/ Write(w) \/ SendEmail(w)
        PROVE  ArtifactSound'
    BY <1>0, <1>3, WorkersKeepArtifact
  <1>4. CASE AtRest
    BY <1>1, <1>4 DEF AtRest
  <1>5. ASSUME NEW a, Deliver(a)
        PROVE  ArtifactSound'
    BY <1>3, <1>5 DEF Deliver, Prepares
  <1> QED
    BY <1>1, <1>2, <1>3, <1>4, <1>5 DEF Next, Proceeds, Fails, Prepares

(* A PDF that is shown as ready is that of the brief of the current lock,  *)
(* however late a worker of an earlier lock comes to its upload, for any   *)
(* number of workers, locks and faults other than the loss of a lease      *)
(* (commitBriefPdfReady, getRoundBriefPdf).                                *)
THEOREM ReadyPdfStaysCurrent == Spec => []ReadyPdfIsCurrent
  <1>1. Init => ArtifactSound
    BY DEF Init, NoAttempt, Idle, ArtifactSound, CommitsUnderLease, CurrentBriefWasRead,
           UploadedBriefIsThere, Committing
  <1>2. ArtifactSound => ReadyPdfIsCurrent
    BY DEF ArtifactSound, ReadyPdfIsCurrent
  <1> QED
    BY <1>1, <1>2, ArtifactStep, SoundAlways, PTL DEF Spec
=============================================================================
