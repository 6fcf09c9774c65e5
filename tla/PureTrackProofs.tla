-------------------------- MODULE PureTrackProofs --------------------------
(* Theorems about PureTrackGroups, for every value of its constants.       *)
EXTENDS PureTrackGroups, FiniteSetTheorems, TLAPS

-----------------------------------------------------------------------------
(* What a step does to the invocation w, in outline: each step of an       *)
(* invocation is of one of these kinds, and leaves the others as they are. *)

Pcs == {"idle", "acquire", "requeued", "claim", "purge", "delete", "clear", "drop", "create",
        "record", "renew", "commit", "failed", "release"}

Others(w) == run' \in [Workers -> Runs] /\ \A v \in Workers \ {w} : run'[v] = run[v]

Keeps(w) ==
  /\ run'[w].attempt = run[w].attempt /\ run'[w].token = run[w].token
  /\ run'[w].made = run[w].made /\ run'[w].claimed = run[w].claimed
  /\ run'[w].retry => run[w].retry \/ run[w].attempt # 0
KeepsLists(w) ==
  run'[w].then = run[w].then /\ run'[w].todo = run[w].todo /\ run'[w].gone = run[w].gone

(* It goes on, having changed none of its groups. *)
Moves(w) ==
  /\ Keeps(w) /\ KeepsLists(w)
  /\ \/ run[w].pc = "acquire" /\ run'[w].pc = "requeued"
     \/ run[w].pc = "claim" /\ run'[w].pc \in {"release", "failed"}
     \/ run[w].pc = "purge" /\ run'[w].pc \in {"release", "failed"}
     \/ run[w].pc = "delete" /\ run[w].todo = {} /\ run'[w].pc = "clear"
     \/ run[w].pc = "clear" /\ run'[w].pc \in {"drop", "failed"}
     \/ run[w].pc = "drop" /\ run'[w].pc \in {run[w].then, "failed"}
     \/ run[w].pc = "record" /\ run'[w].pc = "create"
     \/ run[w].pc = "create" /\ run'[w].pc = "renew"
     \/ run[w].pc = "renew" /\ run'[w].pc = "commit"
     \/ run[w].pc \in {"commit", "failed"} /\ run'[w].pc = "release"
     \/ run[w].pc # "idle" /\ run'[w].pc = run[w].pc

Quits(w) == run[w].pc # "idle" /\ run'[w] = Idle

TakesMessage(w) ==
  /\ run[w].pc = "idle"
  /\ run'[w].pc = "acquire" /\ run'[w].attempt \in 1 .. MaxAttempts
  /\ \E m \in queue : run'[w].attempt = m.attempt
  /\ run'[w].token = 0 /\ run'[w].then = "release" /\ ~run'[w].claimed
  /\ run'[w].made = {} /\ run'[w].todo = {} /\ run'[w].gone = {}

TakesGuard(w) ==
  /\ run[w].pc = "acquire" /\ run'[w].pc = "claim" /\ KeepsLists(w)
  /\ run'[w].attempt = run[w].attempt /\ run'[w].token = tokens + 1
  /\ run'[w].made = run[w].made /\ run'[w].claimed = run[w].claimed
  /\ run'[w].retry = run[w].retry

Administers(w) ==
  /\ run[w].pc = "idle" /\ run'[w].pc = "delete"
  /\ run'[w].attempt = 0 /\ run'[w].token = tokens + 1
  /\ run'[w].made = {} /\ ~run'[w].claimed /\ ~run'[w].retry
  /\ run'[w].then = "release" /\ run'[w].todo \subseteq live /\ run'[w].gone = {}

Claims(w) ==
  /\ run[w].pc = "claim" /\ run'[w].pc = "purge" /\ KeepsLists(w)
  /\ run'[w].attempt = run[w].attempt /\ run'[w].token = run[w].token
  /\ run'[w].made = run[w].made /\ run'[w].claimed /\ run'[w].retry = run[w].retry

Purges(w) ==
  /\ run[w].pc = "purge" /\ run'[w].pc = "delete" /\ Keeps(w)
  /\ run'[w].then = "create"
  /\ run'[w].todo = (echo \union records) \intersect live
  /\ run'[w].gone = (echo \union records) \ live

Shortens(w, g) ==
  /\ run[w].pc = "delete" /\ run'[w].pc = "delete" /\ Keeps(w)
  /\ g \in run[w].todo
  /\ run'[w].then = run[w].then
  /\ run'[w].todo = run[w].todo \ {g} /\ run'[w].gone = run[w].gone \union {g}

Stops(w) ==
  /\ run[w].pc = "delete" /\ run'[w].pc = "clear" /\ Keeps(w)
  /\ run'[w].then = "failed" /\ run'[w].todo = {} /\ run'[w].gone = run[w].gone

Creates(w) ==
  /\ run[w].pc = "create" /\ run'[w].pc = "record" /\ KeepsLists(w)
  /\ run'[w].attempt = run[w].attempt /\ run'[w].token = run[w].token
  /\ run'[w].made = run[w].made \union {NextGroup(w)} /\ run'[w].claimed = run[w].claimed
  /\ run'[w].retry = run[w].retry

Cleans(w) ==
  /\ run[w].pc \in {"create", "record", "renew", "commit"} /\ Keeps(w)
  /\ run'[w].then \in {"failed", "release"}
  /\ run'[w].pc = IF run[w].made = {} THEN run'[w].then ELSE "delete"
  /\ run'[w].todo = run[w].made /\ run'[w].gone = {}

-----------------------------------------------------------------------------
(* Each step is of its kind. *)

LEMMA BoundsType ==
  /\ MaxAttempts \in Nat /\ MaxFaults \in Nat /\ MaxDeletes \in Nat
  /\ MaxDequeue \in Nat \ {0} /\ GroupsPerRun \in Nat \ {0}
  BY PureTrackAssumption

LEMMA RunType == ASSUME TypeOK PROVE run \in [Workers -> Runs]
  BY DEF TypeOK

LEMMA FaultType ==
  ASSUME TypeOK, NEW kind, Fault(kind)
  PROVE  /\ faults' \in [kinds : Worlds, count : 0 .. MaxFaults]
         /\ kind \in world /\ world' = world /\ faults'.count = faults.count + 1
  <1>1. faults \in [kinds : Worlds, count : 0 .. MaxFaults]
    BY DEF TypeOK
  <1>2. faults.count < MaxFaults /\ faults' = [faults EXCEPT !.count = @ + 1] /\ kind \in world
    BY DEF Fault
  <1>3. faults.count + 1 \in 0 .. MaxFaults
    BY <1>1, <1>2, BoundsType
  <1> QED
    BY <1>1, <1>2, <1>3 DEF world

LEMMA IdleType == Idle \in Runs /\ Idle.pc = "idle"
  BY BoundsType DEF Idle, Runs

LEMMA RunPut ==
  ASSUME TypeOK, NEW w \in Workers, NEW next \in Runs, run' = [run EXCEPT ![w] = next]
  PROVE  Others(w) /\ run'[w] = next
  BY RunType DEF Others

LEMMA GoesType ==
  ASSUME TypeOK, NEW w \in Workers, NEW pc \in Pcs, run' = [run EXCEPT ![w].pc = pc]
  PROVE  Others(w) /\ Keeps(w) /\ KeepsLists(w) /\ run'[w].pc = pc
  BY RunType DEF Runs, Others, Keeps, KeepsLists, Pcs

(* The steps that only move the invocation on. *)
GoesOn(w) ==
  \/ (Claim(w) /\ ~Busy(run[w].attempt))
  \/ Skip(w) \/ SkipFails(w) \/ PurgeFails(w)
  \/ ClaimFails(w) \/ DeleteEnds(w) \/ Clear(w) \/ ClearFails(w) \/ DropRecords(w)
  \/ RecordGroup(w) \/ CreateEnds(w)
  \/ (Renew(w) /\ HoldsGuard(w)) \/ (Commit(w) /\ OwnsAttempt(w))
  \/ MarkFailed(w) \/ MarkFails(w) \/ Stall(w)
  \/ (Contended(w) /\ ~(run[w].count < MaxDequeue))

LEMMA GoesOnMoves ==
  ASSUME TypeOK, NEW w \in Workers, GoesOn(w)
  PROVE  Others(w) /\ Moves(w)
  <1>0. run \in [Workers -> Runs]
    BY RunType
  <1>1. CASE Claim(w) /\ ~Busy(run[w].attempt)
    <2>1. run[w].pc = "claim" /\ run' = [run EXCEPT ![w].pc = "release"]
      BY <1>1 DEF Claim
    <2> QED
      BY <2>1, GoesType DEF Moves, Pcs
  <1>2. CASE ClaimFails(w)
    <2>1. run[w].pc = "claim" /\ run' = [run EXCEPT ![w].pc = "failed"]
      BY <1>2 DEF ClaimFails
    <2> QED
      BY <2>1, GoesType DEF Moves, Pcs
  <1>3. CASE DeleteEnds(w)
    <2>1. run[w].pc = "delete" /\ run[w].todo = {} /\ run' = [run EXCEPT ![w].pc = "clear"]
      BY <1>3 DEF DeleteEnds
    <2> QED
      BY <2>1, GoesType DEF Moves, Pcs
  <1>4. CASE Clear(w)
    <2>1. run[w].pc = "clear" /\ run' = [run EXCEPT ![w].pc = "drop"]
      BY <1>4 DEF Clear
    <2> QED
      BY <2>1, GoesType DEF Moves, Pcs
  <1>5. CASE ClearFails(w)
    <2>1. run[w].pc = "clear" /\ run' = [run EXCEPT ![w].pc = "failed"]
      BY <1>5 DEF ClearFails
    <2> QED
      BY <2>1, GoesType DEF Moves, Pcs
  <1>6. CASE DropRecords(w)
    <2>1. PICK pc \in {run[w].then, "failed"} : run' = [run EXCEPT ![w].pc = pc]
      BY <1>6 DEF DropRecords
    <2>2. pc \in Pcs
      BY <1>0, <2>1 DEF Runs, Pcs
    <2>3. run[w].pc = "drop"
      BY <1>6 DEF DropRecords
    <2> QED
      BY <2>1, <2>2, <2>3, GoesType DEF Moves
  <1>7. CASE RecordGroup(w)
    <2>1. run[w].pc = "record" /\ run' = [run EXCEPT ![w].pc = "create"]
      BY <1>7 DEF RecordGroup
    <2> QED
      BY <2>1, GoesType DEF Moves, Pcs
  <1>8. CASE CreateEnds(w)
    <2>1. run[w].pc = "create" /\ run' = [run EXCEPT ![w].pc = "renew"]
      BY <1>8 DEF CreateEnds
    <2> QED
      BY <2>1, GoesType DEF Moves, Pcs
  <1>9. CASE Renew(w) /\ HoldsGuard(w)
    <2>1. run[w].pc = "renew" /\ run' = [run EXCEPT ![w].pc = "commit"]
      BY <1>9 DEF Renew
    <2> QED
      BY <2>1, GoesType DEF Moves, Pcs
  <1>10. CASE Commit(w) /\ OwnsAttempt(w)
    <2>1. run[w].pc = "commit" /\ run' = [run EXCEPT ![w].pc = "release"]
      BY <1>10 DEF Commit
    <2> QED
      BY <2>1, GoesType DEF Moves, Pcs
  <1>11. CASE MarkFailed(w) \/ MarkFails(w)
    <2>1. PICK retry \in BOOLEAN : /\ run' = [run EXCEPT ![w].pc = "release", ![w].retry = retry]
                                   /\ retry => run[w].attempt # 0
      <3>1. CASE MarkFails(w)
        BY <3>1 DEF MarkFails
      <3>2. CASE MarkFailed(w)
        BY <3>2 DEF MarkFailed
      <3> QED
        BY <1>11, <3>1, <3>2
    <2> DEFINE next == [run[w] EXCEPT !.pc = "release", !.retry = retry]
    <2>2. run' = [run EXCEPT ![w] = next] /\ run[w] \in Runs
      BY <1>0, <2>1
    <2>3. next \in Runs
      BY <2>2 DEF Runs
    <2>4. /\ next.pc = "release" /\ next.attempt = run[w].attempt /\ next.token = run[w].token
          /\ next.made = run[w].made /\ next.claimed = run[w].claimed /\ next.retry = retry
          /\ next.then = run[w].then
          /\ next.todo = run[w].todo /\ next.gone = run[w].gone
      BY <2>2 DEF Runs
    <2>5. run[w].pc = "failed"
      BY <1>11 DEF MarkFailed, MarkFails
    <2> HIDE DEF next
    <2> QED
      BY <2>1, <2>2, <2>3, <2>4, <2>5, RunPut DEF Keeps, KeepsLists, Moves
  <1>12. CASE Stall(w)
    <2> DEFINE next == [run[w] EXCEPT !.holds = FALSE]
    <2>1. run[w].pc # "idle" /\ run' = [run EXCEPT ![w] = next] /\ run[w] \in Runs
      BY <1>0, <1>12 DEF Stall
    <2>2. next \in Runs
      BY <2>1 DEF Runs
    <2>3. /\ next.pc = run[w].pc /\ next.attempt = run[w].attempt /\ next.token = run[w].token
          /\ next.made = run[w].made /\ next.claimed = run[w].claimed /\ next.retry = run[w].retry
          /\ next.then = run[w].then
          /\ next.todo = run[w].todo /\ next.gone = run[w].gone
      BY <2>1 DEF Runs
    <2> HIDE DEF next
    <2> QED
      BY <2>1, <2>2, <2>3, RunPut DEF Keeps, KeepsLists, Moves
  <1>13. CASE Contended(w) /\ ~(run[w].count < MaxDequeue)
    <2>1. run[w].pc = "acquire" /\ run' = [run EXCEPT ![w].pc = "requeued"]
      BY <1>13 DEF Contended
    <2> QED
      BY <2>1, GoesType DEF Moves, Pcs
  <1>14. CASE Skip(w) \/ SkipFails(w) \/ PurgeFails(w)
    <2>1. PICK pc \in {"release", "failed"} : run' = [run EXCEPT ![w].pc = pc]
      BY <1>14 DEF Skip, SkipFails, PurgeFails, Skips
    <2>2. run[w].pc = "purge"
      BY <1>14 DEF Skip, SkipFails, PurgeFails, Skips
    <2> QED
      BY <2>1, <2>2, GoesType DEF Moves, Pcs
  <1> QED
    BY <1>1, <1>2, <1>3, <1>4, <1>5, <1>6, <1>7, <1>8, <1>9, <1>10, <1>11, <1>12, <1>13, <1>14 DEF GoesOn

(* The steps that end the invocation. *)
Ends(w) ==
  \/ Requeued(w) \/ Release(w) \/ Crash(w)
  \/ (Contended(w) /\ run[w].count < MaxDequeue)

LEMMA EndsQuits ==
  ASSUME TypeOK, NEW w \in Workers, Ends(w)
  PROVE  Others(w) /\ Quits(w)
  <1>1. run' = [run EXCEPT ![w] = Idle] /\ run[w].pc # "idle"
    BY DEF Ends, Requeued, Release, Crash, Contended
  <1> QED
    BY <1>1, RunType, IdleType DEF Others, Quits

LEMMA DequeueTakes ==
  ASSUME TypeOK, NEW w \in Workers, NEW m \in queue, Dequeue(w, m)
  PROVE  Others(w) /\ (run' = run \/ TakesMessage(w))
  <1>0. run \in [Workers -> Runs]
    BY RunType
  <1>1. CASE run' = run
    BY <1>0, <1>1 DEF Others
  <1>2. CASE run' # run
    <2> DEFINE begun == [Idle EXCEPT !.pc = "acquire", !.attempt = m.attempt, !.count = m.count + 1]
    <2>1. run' = [run EXCEPT ![w] = begun] /\ run[w].pc = "idle"
      BY <1>2 DEF Dequeue
    <2>2. m \in [attempt : 1 .. MaxAttempts, count : 0 .. MaxDequeue - 1]
      BY DEF TypeOK, Messages
    <2>3. m.attempt \in 1 .. MaxAttempts /\ m.attempt \in Nat /\ m.count + 1 \in 0 .. MaxDequeue
      BY <2>2, BoundsType
    <2>4. ASSUME NEW r \in Runs, NEW a \in Nat, NEW c \in 0 .. MaxDequeue
          PROVE  [r EXCEPT !.pc = "acquire", !.attempt = a, !.count = c] \in Runs
      BY DEF Runs
    <2>5. begun \in Runs
      BY <2>3, <2>4, IdleType
    <2>6. /\ begun.pc = "acquire" /\ begun.attempt = m.attempt
          /\ begun.token = 0 /\ begun.then = "release" /\ begun.claimed = FALSE
          /\ begun.made = {} /\ begun.todo = {} /\ begun.gone = {}
      BY DEF Idle
    <2> HIDE DEF begun
    <2> QED
      BY <2>1, <2>3, <2>5, <2>6, RunPut DEF TakesMessage
  <1> QED
    BY <1>1, <1>2

LEMMA AcquiresTakes ==
  ASSUME TypeOK, NEW w \in Workers, Acquires(w)
  PROVE  Others(w) /\ TakesGuard(w)
  <1> DEFINE next == [run[w] EXCEPT !.pc = "claim", !.token = tokens + 1]
  <1>1. /\ run' = [run EXCEPT ![w].pc = "claim", ![w].token = tokens + 1] /\ run[w].pc = "acquire"
        /\ tokens + 1 \in Nat
    BY DEF Acquires, TypeOK
  <1>2. run' = [run EXCEPT ![w] = next] /\ run[w] \in Runs
    BY <1>1, RunType
  <1>3. next \in Runs
    BY <1>1, <1>2 DEF Runs
  <1>4. /\ next.pc = "claim" /\ next.token = tokens + 1 /\ next.attempt = run[w].attempt
        /\ next.made = run[w].made /\ next.claimed = run[w].claimed /\ next.retry = run[w].retry
        /\ next.then = run[w].then
        /\ next.todo = run[w].todo /\ next.gone = run[w].gone
    BY <1>2 DEF Runs
  <1> HIDE DEF next
  <1> QED
    BY <1>1, <1>2, <1>3, <1>4, RunPut DEF TakesGuard, KeepsLists

LEMMA AdminAdministers ==
  ASSUME TypeOK, NEW w \in Workers, NEW groups \in SUBSET live, AdminDelete(w, groups)
  PROVE  Others(w) /\ Administers(w)
  <1> DEFINE todo == groups \intersect live
             gone == groups \ live
             begun == [Idle EXCEPT !.pc = "delete", !.token = tokens + 1, !.todo = todo, !.gone = gone]
  <1>1. run' = [run EXCEPT ![w] = begun] /\ run[w].pc = "idle"
    BY DEF AdminDelete
  <1>2. tokens + 1 \in Nat /\ todo \in SUBSET Groups /\ gone \in SUBSET Groups
    BY DEF TypeOK
  <1>3. todo \subseteq live /\ gone = {}
    OBVIOUS
  <1> HIDE DEF todo, gone
  <1>4. ASSUME NEW r \in Runs, NEW t \in Nat, NEW a \in SUBSET Groups, NEW b \in SUBSET Groups
        PROVE  [r EXCEPT !.pc = "delete", !.token = t, !.todo = a, !.gone = b] \in Runs
    BY DEF Runs
  <1>5. begun \in Runs
    BY <1>2, <1>4, IdleType
  <1>6. /\ begun.pc = "delete" /\ begun.attempt = 0
        /\ begun.token = tokens + 1 /\ begun.then = "release" /\ begun.claimed = FALSE
        /\ begun.retry = FALSE /\ begun.made = {} /\ begun.todo = todo /\ begun.gone = gone
    BY DEF Idle
  <1> HIDE DEF begun
  <1> QED
    BY <1>1, <1>3, <1>5, <1>6, RunPut DEF Administers

LEMMA ClaimClaims ==
  ASSUME TypeOK, NEW w \in Workers, Claim(w), Busy(run[w].attempt)
  PROVE  Others(w) /\ Claims(w)
  <1> DEFINE next == [run[w] EXCEPT !.pc = "purge", !.claimed = TRUE]
  <1>1. run' = [run EXCEPT ![w].pc = "purge", ![w].claimed = TRUE] /\ run[w].pc = "claim"
    BY DEF Claim
  <1>2. run' = [run EXCEPT ![w] = next] /\ run[w] \in Runs
    BY <1>1, RunType
  <1>3. next \in Runs
    BY <1>2 DEF Runs
  <1>4. /\ next.pc = "purge" /\ next.token = run[w].token /\ next.attempt = run[w].attempt
        /\ next.made = run[w].made /\ next.then = run[w].then /\ next.retry = run[w].retry
        /\ next.todo = run[w].todo /\ next.gone = run[w].gone
    BY <1>2 DEF Runs
  <1>5. next.claimed = TRUE
    BY <1>2 DEF Runs
  <1> HIDE DEF next
  <1> QED
    BY <1>1, <1>2, <1>3, <1>4, <1>5, RunPut DEF Claims, KeepsLists

LEMMA PurgePurges ==
  ASSUME TypeOK, NEW w \in Workers, Purge(w)
  PROVE  Others(w) /\ Purges(w)
  <1> DEFINE todo == (echo \union records) \intersect live
             gone == (echo \union records) \ live
             next == [run[w] EXCEPT !.pc = "delete", !.then = "create", !.todo = todo, !.gone = gone]
  <1>1. /\ run[w].pc = "purge"
        /\ run' = [run EXCEPT ![w].pc = "delete", ![w].then = "create", ![w].todo = todo,
                              ![w].gone = gone]
    BY DEF Purge
  <1>2. todo \in SUBSET Groups /\ gone \in SUBSET Groups
    BY DEF TypeOK
  <1> HIDE DEF todo, gone
  <1>3. run' = [run EXCEPT ![w] = next] /\ run[w] \in Runs
    BY <1>1, RunType
  <1>4. next \in Runs
    BY <1>2, <1>3 DEF Runs
  <1>5. /\ next.pc = "delete" /\ next.token = run[w].token /\ next.attempt = run[w].attempt
        /\ next.made = run[w].made /\ next.claimed = run[w].claimed /\ next.retry = run[w].retry
        /\ next.then = "create"
        /\ next.todo = todo /\ next.gone = gone
    BY <1>3 DEF Runs
  <1> HIDE DEF next
  <1> QED
    BY <1>1, <1>3, <1>4, <1>5, RunPut DEF Keeps, Purges, todo, gone

LEMMA DeleteShortens ==
  ASSUME TypeOK, NEW w \in Workers, NEW g, DeleteGroup(w, g)
  PROVE  Others(w) /\ Shortens(w, g)
  <1> DEFINE todo == run[w].todo \ {g}
             gone == run[w].gone \union {g}
             next == [run[w] EXCEPT !.todo = todo, !.gone = gone]
  <1>1. /\ run[w].pc = "delete" /\ g \in run[w].todo
        /\ run' = [run EXCEPT ![w].todo = todo, ![w].gone = gone]
    BY DEF DeleteGroup
  <1>2. todo \in SUBSET Groups /\ gone \in SUBSET Groups
    BY <1>1, RunType DEF Runs
  <1> HIDE DEF todo, gone
  <1>3. run' = [run EXCEPT ![w] = next] /\ run[w] \in Runs
    BY <1>1, RunType
  <1>4. next \in Runs
    BY <1>2, <1>3 DEF Runs
  <1>5. /\ next.pc = run[w].pc /\ next.token = run[w].token /\ next.attempt = run[w].attempt
        /\ next.made = run[w].made /\ next.claimed = run[w].claimed /\ next.retry = run[w].retry
        /\ next.then = run[w].then
        /\ next.todo = todo /\ next.gone = gone
    BY <1>3 DEF Runs
  <1> HIDE DEF next
  <1> QED
    BY <1>1, <1>3, <1>4, <1>5, RunPut DEF Keeps, Shortens, todo, gone

LEMMA StopStops ==
  ASSUME TypeOK, NEW w \in Workers, DeleteStops(w)
  PROVE  Others(w) /\ Stops(w)
  <1> DEFINE next == [run[w] EXCEPT !.pc = "clear", !.then = "failed", !.todo = {}]
  <1>1. /\ run[w].pc = "delete"
        /\ run' = [run EXCEPT ![w].pc = "clear", ![w].then = "failed", ![w].todo = {}]
    BY DEF DeleteStops
  <1>2. run' = [run EXCEPT ![w] = next] /\ run[w] \in Runs
    BY <1>1, RunType
  <1>3. next \in Runs
    BY <1>2 DEF Runs
  <1>4. /\ next.pc = "clear" /\ next.token = run[w].token /\ next.attempt = run[w].attempt
        /\ next.made = run[w].made /\ next.claimed = run[w].claimed /\ next.retry = run[w].retry
        /\ next.then = "failed"
        /\ next.todo = {} /\ next.gone = run[w].gone
    BY <1>2 DEF Runs
  <1> HIDE DEF next
  <1> QED
    BY <1>1, <1>2, <1>3, <1>4, RunPut DEF Stops, Keeps

LEMMA CreateCreates ==
  ASSUME TypeOK, NEW w \in Workers, IsFiniteSet(run[w].made), CreateGroup(w)
  PROVE  Others(w) /\ Creates(w) /\ NextGroup(w) \in Groups
  <1>1. run[w] \in Runs
    BY RunType
  <1>2. Cardinality(run[w].made) + 1 \in Nat
    BY FS_CardinalityType
  <1>3. NextGroup(w) \in Groups
    BY <1>1, <1>2 DEF NextGroup, Groups, Runs
  <1> DEFINE made == run[w].made \union {NextGroup(w)}
             next == [run[w] EXCEPT !.pc = "record", !.made = made]
  <1>4. run[w].pc = "create" /\ run' = [run EXCEPT ![w].pc = "record", ![w].made = made]
    BY DEF CreateGroup
  <1>5. made \in SUBSET Groups
    BY <1>1, <1>3 DEF Runs
  <1> HIDE DEF made
  <1>6. run' = [run EXCEPT ![w] = next]
    BY <1>4, RunType
  <1>7. next \in Runs
    BY <1>1, <1>5 DEF Runs
  <1>8. /\ next.pc = "record" /\ next.token = run[w].token /\ next.attempt = run[w].attempt
        /\ next.made = made /\ next.claimed = run[w].claimed /\ next.retry = run[w].retry
        /\ next.then = run[w].then
        /\ next.todo = run[w].todo /\ next.gone = run[w].gone
    BY <1>1 DEF Runs
  <1> HIDE DEF next
  <1> QED
    BY <1>3, <1>4, <1>6, <1>7, <1>8, RunPut DEF Creates, KeepsLists, made

(* The steps that turn to the deletion of what the invocation has made. *)
TurnsBack(w) ==
  \/ RecordFails(w) \/ CreateStops(w) \/ CommitFails(w)
  \/ (Renew(w) /\ ~HoldsGuard(w)) \/ (Commit(w) /\ ~OwnsAttempt(w))

LEMMA TurnsBackCleans ==
  ASSUME TypeOK, NEW w \in Workers, TurnsBack(w)
  PROVE  Others(w) /\ Cleans(w)
  <1>1. PICK then \in {"failed", "release"} : CleansUp(w, then)
    BY DEF TurnsBack, RecordFails, CreateStops, Renew, Commit, CommitFails
  <1>2. run[w].pc \in {"create", "record", "renew", "commit"}
    BY DEF TurnsBack, RecordFails, CreateStops, Renew, Commit, CommitFails
  <1> DEFINE pc == IF run[w].made = {} THEN then ELSE "delete"
             next == [run[w] EXCEPT !.pc = pc, !.then = then, !.todo = run[w].made, !.gone = {}]
  <1>3. run' = [run EXCEPT ![w].pc = pc, ![w].then = then, ![w].todo = run[w].made, ![w].gone = {}]
    BY <1>1 DEF CleansUp
  <1>4. pc \in {"failed", "release", "delete"}
    BY <1>1
  <1> HIDE DEF pc
  <1>5. run' = [run EXCEPT ![w] = next] /\ run[w] \in Runs
    BY <1>3, RunType
  <1>6. run[w].made \in SUBSET Groups
    BY <1>5 DEF Runs
  <1>7. next \in Runs
    BY <1>1, <1>4, <1>5, <1>6 DEF Runs
  <1>8. /\ next.pc = pc /\ next.token = run[w].token /\ next.attempt = run[w].attempt
        /\ next.made = run[w].made /\ next.claimed = run[w].claimed /\ next.retry = run[w].retry
        /\ next.then = then
        /\ next.todo = run[w].made /\ next.gone = {}
    BY <1>5 DEF Runs
  <1> HIDE DEF next
  <1> QED
    BY <1>1, <1>2, <1>5, <1>7, <1>8, RunPut DEF Cleans, Keeps, pc

-----------------------------------------------------------------------------
(* The cases of Next. *)

Takes(w) == (Acquire(w) \/ TakeOver(w)) /\ Acquires(w)

WorkerStep(w) ==
  \/ GoesOn(w) \/ Ends(w) \/ TurnsBack(w)
  \/ (\E m \in queue : Dequeue(w, m)) \/ (\E groups \in SUBSET live : AdminDelete(w, groups))
  \/ Takes(w) \/ (Claim(w) /\ Busy(run[w].attempt)) \/ Purge(w)
  \/ (\E g \in run[w].todo : DeleteGroup(w, g)) \/ DeleteStops(w) \/ CreateGroup(w)

QueueStep(a) == Send(a) \/ SendFails(a) \/ RequestDies(a) \/ HandlePoison(a)

LEMMA NextCases ==
  ASSUME Next
  PROVE  \/ UNCHANGED vars \/ Lock \/ Unlock \/ CreateGroups
         \/ \E a \in 1 .. MaxAttempts : QueueStep(a)
         \/ \E w \in Workers : WorkerStep(w)
  <1>1. CASE Requests
    BY <1>1 DEF Requests, WorkerStep
  <1>2. CASE AtRest
    BY <1>2 DEF AtRest
  <1>3. ASSUME NEW a \in 1 .. MaxAttempts,
               Send(a) \/ SendFails(a) \/ RequestDies(a) \/ Deliver(a) \/ HandlePoison(a)
        PROVE  QueueStep(a) \/ \E w \in Workers : WorkerStep(w)
    BY <1>3 DEF Deliver, QueueStep, WorkerStep
  <1>4. ASSUME NEW w \in Workers, TakeOver(w) \/ Proceeds(w) \/ Fails(w)
        PROVE  WorkerStep(w)
    <2>1. CASE TakeOver(w) \/ Acquire(w)
      BY <2>1 DEF WorkerStep, Takes, TakeOver, Acquire
    <2>2. CASE Contended(w) \/ Requeued(w) \/ Release(w) \/ Crash(w)
      BY <2>2 DEF WorkerStep, Ends, GoesOn
    <2>3. CASE Claim(w) \/ ClaimFails(w)
      BY <2>3 DEF WorkerStep, GoesOn
    <2>4. CASE Purge(w) \/ (\E g \in run[w].todo : DeleteGroup(w, g)) \/ DeleteStops(w)
      BY <2>4 DEF WorkerStep
    <2>9. CASE Skip(w) \/ SkipFails(w) \/ PurgeFails(w)
      BY <2>9 DEF WorkerStep, GoesOn
    <2>5. CASE DeleteEnds(w) \/ Clear(w) \/ ClearFails(w) \/ DropRecords(w)
      BY <2>5 DEF WorkerStep, GoesOn
    <2>6. CASE CreateGroup(w) \/ RecordGroup(w) \/ CreateStops(w) \/ CreateEnds(w) \/ RecordFails(w)
      BY <2>6 DEF WorkerStep, GoesOn, TurnsBack
    <2>7. CASE Renew(w) \/ Commit(w) \/ CommitFails(w)
      BY <2>7 DEF WorkerStep, GoesOn, TurnsBack
    <2>8. CASE MarkFailed(w) \/ MarkFails(w) \/ Stall(w)
      BY <2>8 DEF WorkerStep, GoesOn
    <2> QED
      BY <1>4, <2>1, <2>2, <2>3, <2>4, <2>5, <2>6, <2>7, <2>8, <2>9 DEF Proceeds, Fails
  <1> QED
    BY <1>1, <1>2, <1>3, <1>4 DEF Next

(* What the steps do to the invocations. *)
RunStep(w) ==
  \/ Moves(w) \/ Quits(w) \/ TakesMessage(w) \/ Claims(w) \/ Purges(w)
  \/ (\E g \in Groups : Shortens(w, g)) \/ Stops(w) \/ Creates(w) \/ Cleans(w)
  \/ (tokens' = tokens + 1 /\ TakesGuard(w))
  \/ (tokens' = tokens + 1 /\ deletes' = deletes + 1 /\ Administers(w))

Finite(w) == IsFiniteSet(run[w].made)

LEMMA WorkerRuns ==
  ASSUME TypeOK, NEW w \in Workers, Finite(w), WorkerStep(w)
  PROVE  Others(w) /\ (run' = run \/ RunStep(w))
  <1>1. CASE GoesOn(w)
    BY <1>1, GoesOnMoves DEF RunStep
  <1>2. CASE Ends(w)
    BY <1>2, EndsQuits DEF RunStep
  <1>3. CASE TurnsBack(w)
    BY <1>3, TurnsBackCleans DEF RunStep
  <1>4. ASSUME NEW m \in queue, Dequeue(w, m)
        PROVE  Others(w) /\ (run' = run \/ RunStep(w))
    BY <1>4, DequeueTakes DEF RunStep
  <1>5. ASSUME NEW groups \in SUBSET live, AdminDelete(w, groups)
        PROVE  Others(w) /\ RunStep(w)
    BY <1>5, AdminAdministers DEF RunStep, AdminDelete
  <1>6. CASE Takes(w)
    BY <1>6, AcquiresTakes DEF RunStep, Takes, Acquires
  <1>7. CASE Claim(w) /\ Busy(run[w].attempt)
    BY <1>7, ClaimClaims DEF RunStep
  <1>8. CASE Purge(w)
    BY <1>8, PurgePurges DEF RunStep
  <1>9. ASSUME NEW g \in run[w].todo, DeleteGroup(w, g)
        PROVE  Others(w) /\ RunStep(w)
    <2>1. g \in Groups
      BY RunType DEF Runs
    <2> QED
      BY <1>9, <2>1, DeleteShortens DEF RunStep
  <1>10. CASE DeleteStops(w)
    BY <1>10, StopStops DEF RunStep
  <1>11. CASE CreateGroup(w)
    BY <1>11, CreateCreates DEF RunStep, Finite
  <1> QED
    BY <1>1, <1>2, <1>3, <1>4, <1>5, <1>6, <1>7, <1>8, <1>9, <1>10, <1>11 DEF WorkerStep

(* The counters only grow. *)
LEMMA Counts ==
  ASSUME TypeOK, Next
  PROVE  /\ tokens' \in Nat /\ tokens <= tokens'
         /\ deletes' \in 0 .. MaxDeletes /\ deletes <= deletes'
         /\ attempts' \in 0 .. MaxAttempts /\ attempts <= attempts'
         /\ faults' \in [kinds : Worlds, count : 0 .. MaxFaults]
         /\ world' = world /\ faults.count <= faults'.count
  <1> DEFINE Kept == UNCHANGED faults
  <1>0. /\ tokens \in Nat /\ attempts \in 0 .. MaxAttempts /\ deletes \in 0 .. MaxDeletes
        /\ faults \in [kinds : Worlds, count : 0 .. MaxFaults] /\ faults.count \in Nat
    BY BoundsType DEF TypeOK
  <1>1. ASSUME Kept
        PROVE  /\ faults' \in [kinds : Worlds, count : 0 .. MaxFaults]
               /\ world' = world /\ faults.count <= faults'.count
    BY <1>0, <1>1 DEF world
  <1>2. ASSUME NEW kind, Fault(kind)
        PROVE  /\ faults' \in [kinds : Worlds, count : 0 .. MaxFaults]
               /\ world' = world /\ faults.count <= faults'.count
    BY <1>0, <1>2, FaultType
  <1>3. \/ Kept
        \/ \E kind : Fault(kind)
    <2>1. CASE UNCHANGED vars \/ Lock \/ Unlock \/ CreateGroups
      BY <2>1 DEF vars, counters, Lock, Unlock, CreateGroups, Starts
    <2>2. ASSUME NEW a \in 1 .. MaxAttempts, QueueStep(a)
          PROVE  Kept \/ \E kind : Fault(kind)
      BY <2>2 DEF QueueStep, Send, SendFails, RequestDies, HandlePoison, counters
    <2>3. ASSUME NEW w \in Workers, WorkerStep(w)
          PROVE  Kept \/ \E kind : Fault(kind)
      <3>1. CASE GoesOn(w)
        BY <3>1 DEF GoesOn, Skip, SkipFails, Skips, PurgeFails, NoFault, Claim, ClaimFails, DeleteEnds, Clear, ClearFails, DropRecords,
           RecordGroup,
             CreateEnds, Renew, Commit, MarkFailed, MarkFails, Stall, Contended, counters
      <3>2. CASE Ends(w)
        BY <3>2 DEF Ends, Requeued, Release, Crash, Contended, counters
      <3>3. CASE TurnsBack(w)
        BY <3>3 DEF TurnsBack, RecordFails, CreateStops, CommitFails, Renew, Commit, NoFault,
           counters
      <3>4. CASE ~(GoesOn(w) \/ Ends(w) \/ TurnsBack(w))
        BY <2>3, <3>4 DEF WorkerStep, Dequeue, AdminDelete, Takes, Acquires, Claim, Purge,
           DeleteGroup,
             DeleteStops, CreateGroup, NoFault, counters
      <3> QED
        BY <3>1, <3>2, <3>3, <3>4
    <2> QED
      BY <2>1, <2>2, <2>3, NextCases
  <1>4. (tokens' = tokens \/ tokens' = tokens + 1) /\ (deletes' = deletes \/ (deletes < MaxDeletes /\ deletes' = deletes + 1))
        /\ (attempts' = attempts \/ (attempts < MaxAttempts /\ attempts' = attempts + 1))
    <2>1. CASE UNCHANGED vars \/ Lock \/ Unlock \/ CreateGroups
      BY <2>1 DEF vars, counters, Lock, Unlock, CreateGroups, Starts
    <2>2. ASSUME NEW a \in 1 .. MaxAttempts, QueueStep(a)
          PROVE  UNCHANGED <<tokens, deletes, attempts>>
      BY <2>2 DEF QueueStep, Send, SendFails, RequestDies, HandlePoison, counters
    <2>3. ASSUME NEW w \in Workers, WorkerStep(w)
          PROVE  (tokens' = tokens \/ tokens' = tokens + 1)
                 /\ (deletes' = deletes \/ (deletes < MaxDeletes /\ deletes' = deletes + 1)) /\ UNCHANGED attempts
      <3>1. CASE GoesOn(w)
        BY <3>1 DEF GoesOn, Skip, SkipFails, Skips, PurgeFails, NoFault, Claim, ClaimFails, DeleteEnds, Clear, ClearFails, DropRecords,
           RecordGroup,
             CreateEnds, Renew, Commit, MarkFailed, MarkFails, Stall, Contended, counters
      <3>2. CASE Ends(w)
        BY <3>2 DEF Ends, Requeued, Release, Crash, Contended, counters
      <3>3. CASE TurnsBack(w)
        BY <3>3 DEF TurnsBack, RecordFails, CreateStops, CommitFails, Renew, Commit, counters
      <3>4. CASE ~(GoesOn(w) \/ Ends(w) \/ TurnsBack(w))
        BY <2>3, <3>4 DEF WorkerStep, Dequeue, AdminDelete, Takes, Acquires, Claim, Purge,
           DeleteGroup,
             DeleteStops, CreateGroup, counters
      <3> QED
        BY <3>1, <3>2, <3>3, <3>4
    <2> QED
      BY <2>1, <2>2, <2>3, NextCases
  <1> QED
    BY <1>0, <1>1, <1>2, <1>3, <1>4, BoundsType

-----------------------------------------------------------------------------
(* What is true of every invocation, whatever the others do. *)

Waits(w) == run[w].pc \in {"idle", "acquire", "requeued"}
Works(w) == run[w].pc \in {"purge", "create", "record", "renew", "commit"}

(* It has a guard's token, and works for the attempt it has claimed. *)
HasToken(w) ==
  /\ Waits(w) <=> run[w].token = 0
  /\ run[w].token <= tokens
HasAttempt(w) ==
  /\ run[w].attempt <= attempts
  /\ run[w].then = "create" \/ Works(w) => run[w].claimed
  /\ Waits(w) \/ run[w].pc = "claim" => ~run[w].claimed
  /\ run[w].claimed \/ run[w].retry \/ run[w].pc \in {"acquire", "requeued", "claim"}
       => run[w].attempt # 0
  /\ run[w].pc # "idle" /\ run[w].attempt = 0 => deletes # 0

(* The groups it has made bear its name; outside the purge it deletes none *)
(* but them, an administrator excepted.                                    *)
HasMade(w) ==
  /\ Finite(w)
  /\ \A g \in run[w].made :
       g.attempt = run[w].attempt /\ g.token = run[w].token /\ g.n \in 1 .. Cardinality(run[w].made)
MakesInTime(w) ==
  \/ Waits(w) \/ run[w].pc \in {"claim", "purge"}
  \/ run[w].then = "create" /\ run[w].pc \in {"delete", "clear", "drop"}
  => run[w].made = {}
CleansOwn(w) ==
  run[w].pc = "delete" /\ run[w].then # "create" /\ run[w].attempt # 0 => run[w].todo \subseteq run[w].made

Invocation(w) == HasToken(w) /\ HasAttempt(w) /\ HasMade(w) /\ MakesInTime(w) /\ CleansOwn(w)

(* No attempt is known that was not started. *)
AttemptsStarted ==
  /\ pt.attempt <= attempts
  /\ unsent \subseteq 1 .. attempts /\ poison \subseteq 1 .. attempts
  /\ \A m \in queue : m.attempt \in 1 .. attempts

Grows ==
  tokens' \in Nat /\ tokens <= tokens' /\ deletes <= deletes' /\ attempts <= attempts'

LEMMA CountersType ==
  ASSUME TypeOK
  PROVE  tokens \in Nat /\ deletes \in Nat /\ attempts \in Nat
  BY BoundsType DEF TypeOK

LEMMA RunFields ==
  ASSUME TypeOK, NEW w \in Workers
  PROVE  /\ run[w].token \in Nat /\ run[w].attempt \in Nat /\ run[w].pc \in Pcs
         /\ run[w].then \in {"create", "failed", "release"}
         /\ run[w].claimed \in BOOLEAN /\ run[w].retry \in BOOLEAN
         /\ run[w].made \subseteq Groups /\ run[w].todo \subseteq Groups /\ run[w].gone \subseteq Groups
         /\ run[w].count \in 0 .. MaxDequeue
  BY RunType DEF Runs, Pcs

LEMMA OtherStays ==
  ASSUME TypeOK, Grows, deletes' \in Nat, attempts' \in Nat, NEW v \in Workers, Invocation(v), run'[v] = run[v]
  PROVE  Invocation(v)'
  <1>1. HasToken(v)' /\ HasAttempt(v)'
    BY CountersType, RunFields DEF Invocation, Grows, HasToken, HasAttempt, Waits, Works
  <1>2. HasMade(v)' /\ MakesInTime(v)' /\ CleansOwn(v)'
    BY DEF Invocation, HasMade, Finite, MakesInTime, CleansOwn, Waits
  <1> QED
    BY <1>1, <1>2 DEF Invocation

(* The groups of an invocation, by what a step does to them. *)
LEMMA MadeStays ==
  ASSUME NEW w \in Workers, HasMade(w),
         run'[w].made = run[w].made, run'[w].attempt = run[w].attempt,
         run'[w].token = run[w].token \/ run[w].made = {}
  PROVE  HasMade(w)'
  BY DEF HasMade, Finite

LEMMA MadeNone ==
  ASSUME NEW w \in Workers, run'[w].made = {}
  PROVE  HasMade(w)'
  BY FS_EmptySet DEF HasMade, Finite

LEMMA MadeOneMore ==
  ASSUME TypeOK, NEW w \in Workers, HasMade(w), Creates(w)
  PROVE  HasMade(w)' /\ NextGroup(w) \notin run[w].made
  <1> DEFINE made == run[w].made
             g == NextGroup(w)
             n == Cardinality(made)
  <1>1. IsFiniteSet(made) /\ n \in Nat
    BY FS_CardinalityType DEF HasMade, Finite
  <1>2. g.attempt = run[w].attempt /\ g.token = run[w].token /\ g.n = n + 1
    BY DEF NextGroup
  <1>3. g \notin made
    BY <1>1, <1>2 DEF HasMade
  <1>4. IsFiniteSet(made \union {g}) /\ Cardinality(made \union {g}) = n + 1
    BY <1>1, <1>3, FS_AddElement
  <1>5. /\ run'[w].made = made \union {g}
        /\ run'[w].attempt = run[w].attempt /\ run'[w].token = run[w].token
    BY DEF Creates
  <1>6. \A h \in made : h.attempt = run[w].attempt /\ h.token = run[w].token /\ h.n \in 1 .. n
    BY DEF HasMade
  <1> HIDE DEF made, g, n
  <1>7. \A h \in made \union {g} : h.attempt = run[w].attempt /\ h.token = run[w].token /\ h.n \in 1 .. n + 1
    BY <1>1, <1>2, <1>6
  <1>8. HasMade(w)'
    BY <1>4, <1>5, <1>7 DEF HasMade, Finite
  <1> QED
    BY <1>3, <1>8 DEF g, made

LEMMA RunStepSound ==
  ASSUME TypeOK, AttemptsStarted, Grows, deletes' \in Nat, attempts' \in Nat,
         NEW w \in Workers, Invocation(w), Others(w), RunStep(w)
  PROVE  Invocation(w)'
  <1> USE RunFields, CountersType
  <1>1. CASE Moves(w)
    <2>1. HasToken(w)'
      BY <1>1 DEF Moves, Keeps, KeepsLists, Invocation, HasToken, Waits, Grows, Pcs
    <2>2. HasAttempt(w)'
      BY <1>1 DEF Moves, Keeps, KeepsLists, Invocation, HasAttempt, Waits, Works, Grows, Pcs
    <2>3. HasMade(w)'
      BY <1>1, MadeStays DEF Moves, Keeps, Invocation
    <2>4. MakesInTime(w)' /\ CleansOwn(w)'
      BY <1>1 DEF Moves, Keeps, KeepsLists, Invocation, MakesInTime, CleansOwn, Waits, Pcs
    <2> QED
      BY <2>1, <2>2, <2>3, <2>4 DEF Invocation
  <1>2. CASE Quits(w)
    <2>1. /\ run'[w].pc = "idle" /\ run'[w].token = 0 /\ run'[w].attempt = 0 /\ run'[w].then = "release"
          /\ ~run'[w].claimed /\ ~run'[w].retry /\ run'[w].made = {}
      BY <1>2 DEF Quits, Idle
    <2>2. HasToken(w)' /\ HasAttempt(w)'
      BY <2>1 DEF HasToken, HasAttempt, Waits, Works, Grows
    <2>3. MakesInTime(w)' /\ CleansOwn(w)'
      BY <2>1 DEF MakesInTime, CleansOwn, Waits
    <2> QED
      BY <2>1, <2>2, <2>3, MadeNone DEF Invocation
  <1>3. CASE TakesMessage(w)
    <2>1. run'[w].attempt # 0 /\ run'[w].attempt <= attempts
      BY <1>3 DEF TakesMessage, AttemptsStarted
    <2>2. run'[w].attempt <= attempts'
      BY <1>3, <2>1, BoundsType DEF TakesMessage, Grows
    <2>3. HasToken(w)' /\ HasAttempt(w)'
      BY <1>3, <2>1, <2>2 DEF TakesMessage, HasToken, HasAttempt, Waits, Works, Grows
    <2>4. MakesInTime(w)' /\ CleansOwn(w)'
      BY <1>3 DEF TakesMessage, MakesInTime, CleansOwn, Waits
    <2> QED
      BY <1>3, <2>3, <2>4, MadeNone DEF Invocation, TakesMessage
  <1>4. CASE Claims(w)
    <2>1. HasToken(w)' /\ HasAttempt(w)'
      BY <1>4 DEF Claims, KeepsLists, Invocation, HasToken, HasAttempt, Waits, Works, Grows
    <2>2. MakesInTime(w)' /\ CleansOwn(w)'
      BY <1>4 DEF Claims, KeepsLists, Invocation, MakesInTime, CleansOwn, Waits
    <2> QED
      BY <1>4, <2>1, <2>2, MadeStays DEF Invocation, Claims
  <1>5. CASE Purges(w)
    <2>1. HasToken(w)' /\ HasAttempt(w)'
      BY <1>5 DEF Purges, Keeps, Invocation, HasToken, HasAttempt, Waits, Works, Grows
    <2>2. MakesInTime(w)' /\ CleansOwn(w)'
      BY <1>5 DEF Purges, Keeps, Invocation, MakesInTime, CleansOwn, Waits
    <2> QED
      BY <1>5, <2>1, <2>2, MadeStays DEF Invocation, Purges, Keeps
  <1>6. ASSUME NEW g \in Groups, Shortens(w, g)
        PROVE  Invocation(w)'
    <2>1. HasToken(w)' /\ HasAttempt(w)'
      BY <1>6 DEF Shortens, Keeps, Invocation, HasToken, HasAttempt, Waits, Works, Grows
    <2>2. MakesInTime(w)' /\ CleansOwn(w)'
      BY <1>6 DEF Shortens, Keeps, Invocation, MakesInTime, CleansOwn, Waits
    <2> QED
      BY <1>6, <2>1, <2>2, MadeStays DEF Invocation, Shortens, Keeps
  <1>7. CASE Stops(w)
    <2>1. HasToken(w)' /\ HasAttempt(w)'
      BY <1>7 DEF Stops, Keeps, Invocation, HasToken, HasAttempt, Waits, Works, Grows
    <2>2. MakesInTime(w)' /\ CleansOwn(w)'
      BY <1>7 DEF Stops, Keeps, Invocation, MakesInTime, CleansOwn, Waits
    <2> QED
      BY <1>7, <2>1, <2>2, MadeStays DEF Invocation, Stops, Keeps
  <1>8. CASE Creates(w)
    <2>1. HasToken(w)' /\ HasAttempt(w)'
      BY <1>8 DEF Creates, KeepsLists, Invocation, HasToken, HasAttempt, Waits, Works, Grows
    <2>2. MakesInTime(w)' /\ CleansOwn(w)'
      BY <1>8 DEF Creates, KeepsLists, Invocation, MakesInTime, CleansOwn, Waits
    <2> QED
      BY <1>8, <2>1, <2>2, MadeOneMore DEF Invocation
  <1>9. CASE Cleans(w)
    <2>1. HasToken(w)' /\ HasAttempt(w)'
      BY <1>9 DEF Cleans, Keeps, Invocation, HasToken, HasAttempt, Waits, Works, Grows
    <2>2. MakesInTime(w)' /\ CleansOwn(w)'
      BY <1>9 DEF Cleans, Keeps, Invocation, MakesInTime, CleansOwn, Waits
    <2> QED
      BY <1>9, <2>1, <2>2, MadeStays DEF Invocation, Cleans, Keeps
  <1>10. CASE tokens' = tokens + 1 /\ TakesGuard(w)
    <2>1. HasToken(w)' /\ HasAttempt(w)'
      BY <1>10 DEF TakesGuard, KeepsLists, Invocation, HasToken, HasAttempt, Waits, Works, Grows
    <2>2. run[w].made = {}
      BY <1>10 DEF TakesGuard, Invocation, MakesInTime, Waits
    <2>3. MakesInTime(w)' /\ CleansOwn(w)'
      BY <1>10, <2>2 DEF TakesGuard, MakesInTime, CleansOwn, Waits
    <2> QED
      BY <1>10, <2>1, <2>2, <2>3, MadeNone DEF Invocation, TakesGuard
  <1>11. CASE tokens' = tokens + 1 /\ deletes' = deletes + 1 /\ Administers(w)
    <2>1. HasToken(w)' /\ HasAttempt(w)'
      BY <1>11 DEF Administers, HasToken, HasAttempt, Waits, Works, Grows
    <2>2. MakesInTime(w)' /\ CleansOwn(w)'
      BY <1>11 DEF Administers, MakesInTime, CleansOwn, Waits
    <2> QED
      BY <1>11, <2>1, <2>2, MadeNone DEF Invocation, Administers
  <1> QED
    BY <1>1, <1>2, <1>3, <1>4, <1>5, <1>6, <1>7, <1>8, <1>9, <1>10, <1>11 DEF RunStep

-----------------------------------------------------------------------------
(* What the steps do to the round. *)

PtKept == UNCHANGED pt
PtForgotten == pt' = NoAttempt
PtStarted ==
  /\ UNCHANGED skipped
  /\ attempts < MaxAttempts /\ attempts' = attempts + 1
  /\ pt' = [status |-> "pending", attempt |-> attempts + 1, owner |-> 0]
  /\ UNCHANGED run
PtMoves(from, to) == pt.status \in from /\ pt' = [pt EXCEPT !.status = to]
PtMoved ==
  PtMoves({"processing"}, "pending") \/ PtMoves({"pending", "processing"}, "failed")
PtClaimed(w) ==
  /\ Claims(w) /\ Busy(run[w].attempt)
  /\ pt' = [pt EXCEPT !.status = "processing", !.owner = run[w].token]
  /\ UNCHANGED <<echo, skipped>>
(* An invocation that found PureTrack disabled makes the attempt ready. *)
PtSkipped(w) ==
  /\ run[w].pc = "purge" /\ OwnsAttempt(w)
  /\ pt' = [pt EXCEPT !.status = "ready"]
  /\ skipped' = skipped \union {run[w].token}
  /\ Moves(w)
  /\ run'[w].pc = "release" \/ "lostCommit" \in world
  /\ UNCHANGED echo
(* An invocation commits, and hears of it or not. *)
PtCommitted(w) ==
  /\ run[w].pc = "commit" /\ OwnsAttempt(w)
  /\ pt' = [pt EXCEPT !.status = "ready"]
  /\ echo' = run[w].made
  /\ \/ Moves(w) /\ run'[w].pc = "release"
     \/ "lostCommit" \in world /\ Cleans(w)
  /\ UNCHANGED <<upstream, skipped>>

PtQuiet == (PtKept \/ PtForgotten \/ PtMoved) /\ UNCHANGED <<attempts, skipped>>

LEMMA SetsStatusMoves ==
  ASSUME NEW from, NEW to, SetsStatus(from, to)
  PROVE  PtKept \/ PtMoves(from, to)
  BY DEF SetsStatus, PtKept, PtMoves

LEMMA MarkMoves ==
  ASSUME NEW w \in Workers, MarkFailed(w)
  PROVE  PtKept \/ PtMoved
  <1>1. UNCHANGED pt \/ SetsStatus({"processing"}, "pending") \/ SetsStatus({"pending", "processing"}, "failed")
    BY DEF MarkFailed
  <1> QED
    BY <1>1, SetsStatusMoves DEF PtKept, PtMoved

LEMMA RoundStep ==
  ASSUME TypeOK, \A w \in Workers : Finite(w), Next
  PROVE  \/ (PtQuiet \/ PtStarted) /\ echo' \subseteq echo
         \/ \E w \in Workers :
              Others(w) /\ attempts' = attempts /\ (PtClaimed(w) \/ PtCommitted(w) \/ PtSkipped(w))
  <1>1. CASE UNCHANGED vars
    BY <1>1 DEF vars, round, counters, PtQuiet, PtKept
  <1>2. CASE Lock \/ CreateGroups
    BY <1>2 DEF Lock, CreateGroups, Starts, PtStarted
  <1>3. CASE Unlock
    BY <1>3 DEF Unlock, PtQuiet, PtForgotten, counters
  <1>4. ASSUME NEW a \in 1 .. MaxAttempts, QueueStep(a)
        PROVE  PtQuiet /\ echo' \subseteq echo
    <2>1. CASE Send(a) \/ RequestDies(a)
      BY <2>1 DEF Send, RequestDies, round, counters, PtQuiet, PtKept
    <2>2. CASE SendFails(a)
      <3>1. UNCHANGED pt \/ SetsStatus({"pending", "processing"}, "failed")
        BY <2>2 DEF SendFails
      <3> QED
        BY <2>2, <3>1, SetsStatusMoves DEF SendFails, PtQuiet, PtKept, PtMoved
    <2>3. CASE HandlePoison(a)
      <3>1. UNCHANGED pt \/ SetsStatus({"pending", "processing"}, "failed")
        BY <2>3 DEF HandlePoison
      <3> QED
        BY <2>3, <3>1, SetsStatusMoves DEF HandlePoison, PtQuiet, PtKept, PtMoved, counters
    <2> QED
      BY <1>4, <2>1, <2>2, <2>3 DEF QueueStep
  <1>5. ASSUME NEW w \in Workers, WorkerStep(w)
        PROVE  \/ PtQuiet /\ echo' \subseteq echo
               \/ /\ Others(w) /\ attempts' = attempts
                  /\ PtClaimed(w) \/ PtCommitted(w) \/ PtSkipped(w)
    <2>1. CASE Clear(w)
      BY <2>1 DEF Clear, PtQuiet, PtKept, PtForgotten, counters
    <2>2. CASE MarkFailed(w)
      BY <2>2, MarkMoves DEF MarkFailed, PtQuiet, counters
    <2>3. CASE Commit(w) /\ OwnsAttempt(w)
      <3>1. Others(w) /\ Moves(w)
        BY <2>3, GoesOnMoves DEF GoesOn
      <3>2. run' = [run EXCEPT ![w].pc = "release"]
        BY <2>3 DEF Commit
      <3>3. run'[w].pc = "release"
        BY <3>2, GoesType DEF Pcs
      <3> QED
        BY <2>3, <3>1, <3>3 DEF Commit, PtCommitted, counters, upstream
    <2>4. CASE CommitFails(w)
      <3>1. Others(w) /\ Cleans(w)
        BY <2>4, TurnsBackCleans DEF TurnsBack
      <3>2. CASE Fault("status") /\ UNCHANGED <<pt, echo>>
        BY <2>4, <3>2 DEF CommitFails, PtQuiet, PtKept
      <3>3. CASE OwnsAttempt(w) /\ Fault("lostCommit") /\ pt' = [pt EXCEPT !.status = "ready"]
                 /\ echo' = run[w].made
        BY <2>4, <3>1, <3>3 DEF CommitFails, Fault, PtCommitted, upstream
      <3> QED
        BY <2>4, <3>2, <3>3 DEF CommitFails
    <2>5. CASE Claim(w) /\ Busy(run[w].attempt)
      <3>1. Others(w) /\ Claims(w)
        BY <2>5, ClaimClaims
      <3> QED
        BY <2>5, <3>1 DEF Claim, PtClaimed, counters
    <2>10. CASE Skip(w) \/ SkipFails(w)
      <3>1. Others(w) /\ Moves(w) /\ attempts' = attempts
        BY <2>10, GoesOnMoves DEF GoesOn, Skip, SkipFails, Skips
      <3>2. CASE UNCHANGED round /\ UNCHANGED skipped
        BY <3>1, <3>2 DEF round, PtQuiet, PtKept
      <3>3. CASE ~(UNCHANGED round /\ UNCHANGED skipped)
        <4>1. PICK then \in {"release", "failed"} :
                /\ Skips(w, then) /\ OwnsAttempt(w)
                /\ then = "release" \/ "lostCommit" \in world
          BY <2>10, <3>3 DEF Skip, SkipFails, Skips, Fault, round
        <4>2. run'[w].pc = then
          <5>1. run' = [run EXCEPT ![w].pc = then]
            BY <4>1 DEF Skips
          <5> QED
            BY <5>1, GoesType DEF Pcs
        <4> QED
          BY <3>1, <4>1, <4>2 DEF Skips, PtSkipped
      <3> QED
        BY <3>2, <3>3
    <2>6. CASE GoesOn(w) /\ ~Clear(w) /\ ~MarkFailed(w) /\ ~(Commit(w) /\ OwnsAttempt(w))
               /\ ~Skip(w) /\ ~SkipFails(w)
      BY <2>6 DEF GoesOn, PurgeFails, Claim, ClaimFails, DeleteEnds, ClearFails, DropRecords, RecordGroup,
             CreateEnds, Renew, MarkFails, Stall, Contended, counters, round, PtQuiet, PtKept
    <2>7. CASE Ends(w)
      BY <2>7 DEF Ends, Requeued, Release, Crash, Contended, counters, round, PtQuiet, PtKept
    <2>8. CASE TurnsBack(w) /\ ~CommitFails(w)
      BY <2>8 DEF TurnsBack, RecordFails, CreateStops, Renew, Commit, counters, round, PtQuiet,
         PtKept
    <2>9. CASE ~(GoesOn(w) \/ Ends(w) \/ TurnsBack(w) \/ (Claim(w) /\ Busy(run[w].attempt)))
      BY <1>5, <2>9 DEF WorkerStep, Dequeue, AdminDelete, Takes, Acquires, Purge, DeleteGroup,
             DeleteStops, CreateGroup, counters, round, PtQuiet, PtKept
    <2> QED
      BY <2>1, <2>2, <2>3, <2>4, <2>5, <2>6, <2>7, <2>8, <2>9, <2>10
  <1> QED
    BY <1>1, <1>2, <1>3, <1>4, <1>5, NextCases

-----------------------------------------------------------------------------
(* The types, the attempts and the invocations. *)

Base == TypeOK /\ AttemptsStarted /\ \A w \in Workers : Invocation(w)

LEMMA RunsStep ==
  ASSUME Base, Next
  PROVE  \/ UNCHANGED run
         \/ \E w \in Workers : Others(w) /\ WorkerStep(w) /\ RunStep(w)
  <1>1. CASE UNCHANGED vars \/ Lock \/ Unlock \/ CreateGroups
    BY <1>1 DEF vars, Lock, Unlock, CreateGroups, Starts
  <1>2. ASSUME NEW a \in 1 .. MaxAttempts, QueueStep(a)
        PROVE  UNCHANGED run
    BY <1>2 DEF QueueStep, Send, SendFails, RequestDies, HandlePoison
  <1>3. ASSUME NEW w \in Workers, WorkerStep(w)
        PROVE  Others(w) /\ (run' = run \/ RunStep(w))
    BY <1>3, WorkerRuns DEF Base, Invocation, HasMade
  <1> QED
    BY <1>1, <1>2, <1>3, NextCases

LEMMA MessageType ==
  ASSUME Base, NEW w \in Workers, run[w].attempt # 0
  PROVE  /\ run[w].attempt \in 1 .. attempts /\ run[w].attempt \in 1 .. MaxAttempts
         /\ run[w].count < MaxDequeue => Message(w) \in Messages
         /\ Message(w).attempt = run[w].attempt
  <1>1. run[w].attempt \in Nat /\ run[w].count \in 0 .. MaxDequeue /\ run[w].attempt <= attempts
    BY RunFields DEF Base, Invocation, HasAttempt
  <1>2. attempts \in 0 .. MaxAttempts
    BY DEF Base, TypeOK
  <1> QED
    BY <1>1, <1>2, BoundsType DEF Message, Messages

(* The messages of a step: none is lost or made that was not known. *)
Known(a) == a \in 1 .. attempts' /\ a \in 1 .. MaxAttempts

LEMMA MessagesStep ==
  ASSUME Base, Next
  PROVE  /\ \A a \in unsent' \union poison' : Known(a)
         /\ \A m \in queue' : m \in Messages /\ Known(m.attempt)
  <1>0. attempts \in 0 .. MaxAttempts /\ attempts' \in 0 .. MaxAttempts /\ attempts <= attempts'
    BY Counts DEF Base, TypeOK
  <1>1. /\ \A a \in unsent \union poison : Known(a)
        /\ \A m \in queue : m \in Messages /\ Known(m.attempt)
    BY <1>0, BoundsType DEF Base, TypeOK, AttemptsStarted, Known
  <1>2. CASE Lock \/ CreateGroups
    <2>1. unsent' = unsent \union {attempts + 1} /\ attempts' = attempts + 1 /\ UNCHANGED <<queue, poison>>
      BY <1>2 DEF Lock, CreateGroups, Starts
    <2>2. Known(attempts + 1)
      BY <1>0, <2>1, BoundsType DEF Known
    <2> QED
      BY <1>1, <2>1, <2>2
  <1>3. CASE UNCHANGED vars \/ Unlock
    BY <1>1, <1>3 DEF vars, Unlock, messages
  <1>4. ASSUME NEW a \in 1 .. MaxAttempts, QueueStep(a)
        PROVE  /\ \A b \in unsent' \union poison' : Known(b)
               /\ \A m \in queue' : m \in Messages /\ Known(m.attempt)
    <2>1. CASE Send(a)
      <3>1. /\ unsent' = unsent \ {a} /\ a \in unsent /\ poison' = poison
            /\ queue' = queue \union {[attempt |-> a, count |-> 0]}
        BY <2>1 DEF Send
      <3>2. [attempt |-> a, count |-> 0] \in Messages
        BY BoundsType DEF Messages
      <3> QED
        BY <1>1, <3>1, <3>2
    <2>2. CASE SendFails(a) \/ RequestDies(a) \/ HandlePoison(a)
      <3>1. unsent' \subseteq unsent /\ poison' \subseteq poison /\ queue' = queue
        BY <2>2 DEF SendFails, RequestDies, HandlePoison
      <3> QED
        BY <1>1, <3>1
    <2> QED
      BY <1>4, <2>1, <2>2 DEF QueueStep
  <1>5. ASSUME NEW w \in Workers, run[w].attempt # 0, GivesBack(w), UNCHANGED unsent
        PROVE  /\ \A b \in unsent' \union poison' : Known(b)
               /\ \A m \in queue' : m \in Messages /\ Known(m.attempt)
    <2>1. Known(run[w].attempt)
      BY <1>0, <1>5, MessageType, BoundsType DEF Known
    <2>2. run[w].count < MaxDequeue => Message(w) \in Messages /\ Known(Message(w).attempt)
      BY <1>5, <2>1, MessageType
    <2> QED
      BY <1>1, <1>5, <2>1, <2>2 DEF GivesBack
  <1>6. ASSUME NEW w \in Workers, WorkerStep(w)
        PROVE  /\ \A b \in unsent' \union poison' : Known(b)
               /\ \A m \in queue' : m \in Messages /\ Known(m.attempt)
    <2>0. /\ run[w].retry \/ run[w].pc \in {"acquire", "requeued", "claim"} => run[w].attempt # 0
          /\ run[w].retry \in BOOLEAN
      BY RunFields DEF Base, Invocation, HasAttempt
    <2>1. CASE Contended(w)
      <3>1. CASE run[w].count < MaxDequeue
        BY <1>5, <2>0, <2>1, <3>1 DEF Contended
      <3>2. CASE ~(run[w].count < MaxDequeue)
        <4>1. /\ queue' = queue \union {[attempt |-> run[w].attempt, count |-> 0]}
              /\ UNCHANGED <<unsent, poison>> /\ run[w].attempt # 0
          BY <2>0, <2>1, <3>2 DEF Contended
        <4>2. Known(run[w].attempt) /\ [attempt |-> run[w].attempt, count |-> 0] \in Messages
          BY <1>0, <4>1, MessageType, BoundsType DEF Known, Messages
        <4> QED
          BY <1>1, <4>1, <4>2
      <3> QED
        BY <3>1, <3>2
    <2>2. CASE Release(w)
      <3>1. CASE run[w].retry
        BY <1>5, <2>0, <2>2, <3>1 DEF Release
      <3>2. CASE ~run[w].retry
        BY <1>1, <2>0, <2>2, <3>2 DEF Release
      <3> QED
        BY <3>1, <3>2
    <2>3. CASE Crash(w)
      <3>1. CASE run[w].attempt # 0
        BY <1>5, <2>3, <3>1 DEF Crash
      <3>2. CASE run[w].attempt = 0
        BY <1>1, <2>3, <3>2 DEF Crash
      <3> QED
        BY <3>1, <3>2
    <2>4. CASE Stall(w)
      BY <1>5, <2>4 DEF Stall
    <2>5. CASE \E m \in queue : Dequeue(w, m)
      <3>1. queue' \subseteq queue /\ UNCHANGED <<unsent, poison>>
        BY <2>5 DEF Dequeue
      <3> QED
        BY <1>1, <3>1
    <2>6. CASE ~(Contended(w) \/ Release(w) \/ Crash(w) \/ Stall(w) \/ \E m \in queue : Dequeue(w, m))
      <3>1. UNCHANGED messages
        <4>1. CASE GoesOn(w)
          BY <2>6, <4>1 DEF GoesOn, Skip, SkipFails, Skips, PurgeFails, NoFault, Claim, ClaimFails, DeleteEnds, Clear, ClearFails, DropRecords,
            RecordGroup, CreateEnds, Renew, Commit, MarkFailed, MarkFails
        <4>2. CASE Ends(w)
          BY <2>6, <4>2 DEF Ends, Requeued
        <4>3. CASE TurnsBack(w)
          BY <4>3 DEF TurnsBack, RecordFails, CreateStops, CommitFails, Renew, Commit
        <4>4. CASE ~(GoesOn(w) \/ Ends(w) \/ TurnsBack(w))
          BY <1>6, <2>6, <4>4 DEF WorkerStep, AdminDelete, Takes, Acquires, Claim, Purge,
             DeleteGroup,
            DeleteStops, CreateGroup
        <4> QED
          BY <4>1, <4>2, <4>3, <4>4
      <3> QED
        BY <1>1, <3>1 DEF messages
    <2> QED
      BY <2>1, <2>2, <2>3, <2>4, <2>5, <2>6
  <1> QED
    BY <1>2, <1>3, <1>4, <1>6, NextCases

-----------------------------------------------------------------------------
(* What the steps do to puretrack.io, the records and the guard. *)

LosesResponse(w) ==
  CreateStops(w) /\ "lostResponse" \in world /\ live' = live \union {NextGroup(w)}
TakesBack(w) ==
  RecordFails(w) /\ live' = live \ (run[w].made \ records)

UpstreamStep(w) ==
  \/ \E g \in run[w].todo : DeleteGroup(w, g)
  \/ CreateGroup(w) \/ LosesResponse(w) \/ TakesBack(w) \/ RecordGroup(w) \/ DropRecords(w)

LEMMA UpstreamCases ==
  ASSUME Next
  PROVE  UNCHANGED upstream \/ \E w \in Workers : WorkerStep(w) /\ UpstreamStep(w)
  <1>1. CASE UNCHANGED vars \/ Lock \/ Unlock \/ CreateGroups
    BY <1>1 DEF vars, Lock, Unlock, CreateGroups, Starts, upstream
  <1>2. ASSUME NEW a \in 1 .. MaxAttempts, QueueStep(a)
        PROVE  UNCHANGED upstream
    BY <1>2 DEF QueueStep, Send, SendFails, RequestDies, HandlePoison
  <1>3. ASSUME NEW w \in Workers, WorkerStep(w)
        PROVE  UNCHANGED upstream \/ UpstreamStep(w)
    <2>1. CASE GoesOn(w)
      BY <2>1 DEF GoesOn, Skip, SkipFails, Skips, PurgeFails, NoFault, Claim, ClaimFails, DeleteEnds, Clear, ClearFails, CreateEnds, Renew,
         Commit,
        MarkFailed, MarkFails, Stall, Contended, UpstreamStep
    <2>2. CASE Ends(w)
      BY <2>2 DEF Ends, Requeued, Release, Crash, Contended
    <2>3. CASE RecordFails(w)
      BY <2>3 DEF RecordFails, TakesBack, UpstreamStep, upstream
    <2>4. CASE CreateStops(w)
      <3>1. UNCHANGED live \/ (Fault("lostResponse") /\ live' = live \union {NextGroup(w)})
        BY <2>4 DEF CreateStops
      <3> QED
        BY <2>4, <3>1 DEF CreateStops, Fault, LosesResponse, UpstreamStep, upstream
    <2>5. CASE TurnsBack(w) /\ ~RecordFails(w) /\ ~CreateStops(w)
      BY <2>5 DEF TurnsBack, CommitFails, Renew, Commit
    <2>6. CASE ~(GoesOn(w) \/ Ends(w) \/ TurnsBack(w))
      BY <1>3, <2>6 DEF WorkerStep, Dequeue, AdminDelete, Takes, Acquires, Claim, Purge,
        DeleteStops, UpstreamStep
    <2> QED
      BY <2>1, <2>2, <2>3, <2>4, <2>5, <2>6
  <1> QED
    BY <1>1, <1>2, <1>3, NextCases

GuardStep(w) ==
  Takes(w) \/ (\E groups \in SUBSET live : AdminDelete(w, groups)) \/ Release(w)

LEMMA GuardCases ==
  ASSUME Next
  PROVE  \/ UNCHANGED <<guard, tokens>>
         \/ \E w \in Workers : WorkerStep(w) /\ GuardStep(w)
  <1>1. CASE UNCHANGED vars \/ Lock \/ Unlock \/ CreateGroups
    BY <1>1 DEF vars, Lock, Unlock, CreateGroups, Starts, counters
  <1>2. ASSUME NEW a \in 1 .. MaxAttempts, QueueStep(a)
        PROVE  UNCHANGED <<guard, tokens>>
    BY <1>2 DEF QueueStep, Send, SendFails, RequestDies, HandlePoison, counters
  <1>3. ASSUME NEW w \in Workers, WorkerStep(w)
        PROVE  UNCHANGED <<guard, tokens>> \/ GuardStep(w)
    <2>1. CASE GoesOn(w)
      BY <2>1 DEF GoesOn, Skip, SkipFails, Skips, PurgeFails, NoFault, Claim, ClaimFails, DeleteEnds, Clear, ClearFails, DropRecords,
         RecordGroup,
        CreateEnds, Renew, Commit, MarkFailed, MarkFails, Stall, Contended, counters
    <2>2. CASE Ends(w)
      BY <2>2 DEF Ends, Requeued, Crash, Contended, GuardStep, counters
    <2>3. CASE TurnsBack(w)
      BY <2>3 DEF TurnsBack, RecordFails, CreateStops, CommitFails, Renew, Commit, counters
    <2>4. CASE ~(GoesOn(w) \/ Ends(w) \/ TurnsBack(w))
      BY <1>3, <2>4 DEF WorkerStep, Dequeue, Claim, Purge, DeleteGroup, CreateGroup,
        DeleteStops, GuardStep, counters
    <2> QED
      BY <2>1, <2>2, <2>3, <2>4
  <1> QED
    BY <1>1, <1>2, <1>3, NextCases

-----------------------------------------------------------------------------
LEMMA PtType ==
  ASSUME Base, Next
  PROVE  /\ pt' \in [status : {"none", "pending", "processing", "ready", "failed"},
                     attempt : 0 .. MaxAttempts, owner : Nat]
         /\ echo' \subseteq Groups /\ pt'.attempt <= attempts' /\ skipped' \subseteq Nat
  <1>0. /\ pt \in [status : {"none", "pending", "processing", "ready", "failed"},
                   attempt : 0 .. MaxAttempts, owner : Nat]
        /\ echo \subseteq Groups /\ attempts \in 0 .. MaxAttempts /\ pt.attempt <= attempts
        /\ skipped \subseteq Nat
    BY DEF Base, TypeOK, AttemptsStarted
  <1>1. CASE PtKept /\ UNCHANGED <<attempts, skipped>> /\ echo' \subseteq echo
    BY <1>0, <1>1 DEF PtKept
  <1>2. CASE PtForgotten /\ UNCHANGED <<attempts, skipped>> /\ echo' \subseteq echo
    BY <1>0, <1>2, BoundsType DEF PtForgotten, NoAttempt
  <1>3. CASE PtMoved /\ UNCHANGED <<attempts, skipped>> /\ echo' \subseteq echo
    BY <1>0, <1>3 DEF PtMoved, PtMoves
  <1>4. CASE PtStarted /\ echo' \subseteq echo
    BY <1>0, <1>4, BoundsType DEF PtStarted
  <1>5. ASSUME NEW w \in Workers, attempts' = attempts, PtClaimed(w) \/ PtCommitted(w) \/ PtSkipped(w)
        PROVE  /\ pt' \in [status : {"none", "pending", "processing", "ready", "failed"},
                           attempt : 0 .. MaxAttempts, owner : Nat]
               /\ echo' \subseteq Groups /\ pt'.attempt <= attempts' /\ skipped' \subseteq Nat
    <2>1. run[w].token \in Nat /\ run[w].made \subseteq Groups
      BY RunFields DEF Base
    <2> QED
      BY <1>0, <1>5, <2>1 DEF PtClaimed, PtCommitted, PtSkipped
  <1>6. \A w \in Workers : Finite(w)
    BY DEF Base, Invocation, HasMade
  <1> QED
    BY <1>1, <1>2, <1>3, <1>4, <1>5, <1>6, RoundStep DEF Base, PtQuiet

LEMMA UpstreamType ==
  ASSUME Base, Next
  PROVE  records' \subseteq Groups /\ live' \subseteq Groups /\ guard' \in Nat
  <1>0. records \subseteq Groups /\ live \subseteq Groups /\ guard \in Nat /\ tokens + 1 \in Nat
    BY DEF Base, TypeOK
  <1>1. ASSUME NEW w \in Workers, UpstreamStep(w)
        PROVE  records' \subseteq Groups /\ live' \subseteq Groups
    <2>1. run[w].made \subseteq Groups
      BY RunFields DEF Base
    <2>2. NextGroup(w) \in Groups
      <3>1. Cardinality(run[w].made) \in Nat
        BY FS_CardinalityType DEF Base, Invocation, HasMade, Finite
      <3>2. run[w].attempt \in Nat /\ run[w].token \in Nat
        BY RunFields DEF Base
      <3> QED
        BY <3>1, <3>2 DEF NextGroup, Groups
    <2> QED
      BY <1>0, <1>1, <2>1, <2>2 DEF UpstreamStep, DeleteGroup, CreateGroup, LosesResponse,
         CreateStops,
        TakesBack, RecordFails, RecordGroup, DropRecords
  <1>2. records' \subseteq Groups /\ live' \subseteq Groups
    BY <1>0, <1>1, UpstreamCases DEF upstream
  <1>3. ASSUME NEW w \in Workers, GuardStep(w)
        PROVE  guard' \in Nat
    <2>1. CASE Takes(w) \/ \E groups \in SUBSET live : AdminDelete(w, groups)
      BY <1>0, <2>1 DEF Takes, Acquires, AdminDelete
    <2>2. CASE Release(w)
      BY <1>0, <2>2 DEF Release
    <2> QED
      BY <1>3, <2>1, <2>2 DEF GuardStep
  <1>4. guard' \in Nat
    BY <1>0, <1>3, GuardCases
  <1> QED
    BY <1>2, <1>4

LEMMA LockedType ==
  ASSUME TypeOK, Next
  PROVE  locked' \in BOOLEAN
  <1>0. locked \in BOOLEAN
    BY DEF TypeOK
  <1>1. CASE UNCHANGED vars \/ Lock \/ Unlock \/ CreateGroups
    BY <1>0, <1>1 DEF vars, Lock, Unlock, CreateGroups, round
  <1>2. ASSUME NEW a \in 1 .. MaxAttempts, QueueStep(a)
        PROVE  locked' = locked
    BY <1>2 DEF QueueStep, Send, SendFails, RequestDies, HandlePoison, round
  <1>3. ASSUME NEW w \in Workers, WorkerStep(w)
        PROVE  locked' = locked
    <2>1. CASE GoesOn(w)
      BY <2>1 DEF GoesOn, Skip, SkipFails, Skips, PurgeFails, NoFault, Claim, ClaimFails, DeleteEnds, Clear, ClearFails, DropRecords,
         RecordGroup,
        CreateEnds, Renew, Commit, MarkFailed, MarkFails, Stall, Contended, round
    <2>2. CASE Ends(w)
      BY <2>2 DEF Ends, Requeued, Release, Crash, Contended, round
    <2>3. CASE TurnsBack(w)
      BY <2>3 DEF TurnsBack, RecordFails, CreateStops, CommitFails, Renew, Commit, round
    <2>4. CASE ~(GoesOn(w) \/ Ends(w) \/ TurnsBack(w))
      BY <1>3, <2>4 DEF WorkerStep, Dequeue, AdminDelete, Takes, Acquires, Claim, Purge,
         DeleteGroup,
             DeleteStops, CreateGroup, round
    <2> QED
      BY <2>1, <2>2, <2>3, <2>4
  <1> QED
    BY <1>0, <1>1, <1>2, <1>3, NextCases

LEMMA BaseStep ==
  ASSUME Base, [Next]_vars
  PROVE  Base'
  <1>1. CASE UNCHANGED vars
    BY <1>1 DEF vars, round, upstream, messages, counters, Base, TypeOK, AttemptsStarted,
       Invocation, HasToken,
      HasAttempt, HasMade, Finite, MakesInTime, CleansOwn, Waits, Works
  <1>2. CASE Next
    <2>1. /\ tokens' \in Nat /\ deletes' \in 0 .. MaxDeletes /\ attempts' \in 0 .. MaxAttempts
          /\ faults' \in [kinds : Worlds, count : 0 .. MaxFaults] /\ Grows
      BY <1>2, Counts DEF Base, Grows
    <2>2. deletes' \in Nat /\ attempts' \in Nat
      BY <2>1, BoundsType
    <2>3. run' \in [Workers -> Runs]
      <3>1. run \in [Workers -> Runs]
        BY RunType DEF Base
      <3> QED
        BY <1>2, <3>1, RunsStep DEF Others
    <2>4. TypeOK'
      <3>1. /\ unsent' \subseteq 1 .. MaxAttempts /\ poison' \subseteq 1 .. MaxAttempts
            /\ queue' \subseteq Messages
        BY <1>2, MessagesStep DEF Known
      <3> QED
        BY <1>2, <2>1, <2>3, <3>1, PtType, UpstreamType, LockedType DEF TypeOK, Base
    <2>5. AttemptsStarted'
      BY <1>2, MessagesStep, PtType DEF AttemptsStarted, Known
    <2>6. ASSUME NEW v \in Workers
          PROVE  Invocation(v)'
      <3>1. CASE run'[v] = run[v]
        BY <2>1, <2>2, <3>1, OtherStays DEF Base
      <3>2. CASE run'[v] # run[v]
        <4>1. PICK w \in Workers : Others(w) /\ RunStep(w)
          BY <1>2, <3>2, RunsStep
        <4>2. v = w
          BY <3>2, <4>1 DEF Others
        <4> QED
          BY <2>1, <2>2, <4>1, <4>2, RunStepSound DEF Base
      <3> QED
        BY <3>1, <3>2
    <2> QED
      BY <2>4, <2>5, <2>6 DEF Base
  <1> QED
    BY <1>1, <1>2

LEMMA BaseInit ==
  ASSUME Init
  PROVE  Base
  <1>1. \A w \in Workers : run[w] = Idle
    BY DEF Init
  <1>2. TypeOK
    <2>1. run \in [Workers -> Runs]
      BY IdleType DEF Init
    <2>2. NoAttempt \in [status : {"none", "pending", "processing", "ready", "failed"},
                         attempt : 0 .. MaxAttempts, owner : Nat]
      BY BoundsType DEF NoAttempt
    <2>3. faults \in [kinds : Worlds, count : 0 .. MaxFaults]
      BY BoundsType DEF Init
    <2>4. locked \in BOOLEAN
      BY DEF Init
    <2>5. skipped \subseteq Nat /\ tokens \in Nat /\ attempts \in 0 .. MaxAttempts /\ deletes \in 0 .. MaxDeletes /\ guard \in Nat
      BY BoundsType DEF Init
    <2>6. /\ echo \subseteq Groups /\ records \subseteq Groups /\ live \subseteq Groups
          /\ unsent \subseteq 1 .. MaxAttempts /\ poison \subseteq 1 .. MaxAttempts
          /\ queue \subseteq Messages
      BY DEF Init
    <2>7. pt = NoAttempt
      BY DEF Init
    <2> QED
      BY <2>1, <2>2, <2>3, <2>4, <2>5, <2>6, <2>7 DEF TypeOK
  <1>3. AttemptsStarted
    BY DEF Init, AttemptsStarted, NoAttempt
  <1>4. ASSUME NEW w \in Workers
        PROVE  Invocation(w)
    <2>1. /\ run[w].pc = "idle" /\ run[w].token = 0 /\ run[w].attempt = 0 /\ run[w].then = "release"
          /\ ~run[w].claimed /\ ~run[w].retry /\ run[w].made = {}
      BY <1>1 DEF Idle
    <2>2. HasToken(w) /\ HasAttempt(w) /\ HasMade(w)
      BY <2>1, FS_EmptySet DEF Init, HasToken, HasAttempt, HasMade, Finite, Waits, Works
    <2>3. MakesInTime(w) /\ CleansOwn(w)
      BY <2>1 DEF MakesInTime, CleansOwn, Waits
    <2> QED
      BY <2>2, <2>3 DEF Invocation
  <1> QED
    BY <1>2, <1>3, <1>4 DEF Base

(* Every variable keeps its type, every attempt that is known was started  *)
(* and every invocation is sound, for any number of invocations, attempts  *)
(* and faults (pureTrackWorker, pureTrackQueue).                           *)
THEOREM TypeSafety == Spec => []TypeOK
  <1>1. Base => TypeOK
    BY DEF Base
  <1> QED
    BY <1>1, BaseInit, BaseStep, PTL DEF Spec

-----------------------------------------------------------------------------
(* The tokens, and whose groups the round names. *)

GuardIsNewest == guard = 0 \/ guard = tokens
OwnerWasDrawn == pt.owner <= tokens
TokensUnique ==
  \A v, w \in Workers : run[v].token = run[w].token /\ run[v].token # 0 => v = w
StatusOfAnAttempt == pt.attempt = 0 <=> pt.status = "none"

(* Before an attempt is ready, the round names groups of earlier ones only. *)
EchoIsEarlier ==
  /\ \A g \in echo : g.attempt <= attempts
  /\ pt.status \in {"pending", "processing"} =>
       pt.owner \notin skipped /\ \A g \in echo : g.attempt < pt.attempt
(* Who is about to claim has never skipped. *)
SkippedWasDrawn ==
  /\ skipped \subseteq 1 .. tokens
  /\ \A w \in Workers : run[w].pc = "claim" => run[w].token \notin skipped

Echoed == EchoIsCurrent /\ EchoIsEarlier
Owned ==
  /\ GuardIsNewest /\ OwnerWasDrawn /\ TokensUnique /\ StatusOfAnAttempt
  /\ Echoed /\ SkippedWasDrawn

LEMMA TokenStep ==
  ASSUME NEW w \in Workers, RunStep(w)
  PROVE  \/ run'[w].token = run[w].token \/ run'[w].token = 0
         \/ tokens' = tokens + 1 /\ run'[w].token = tokens + 1
  BY DEF RunStep, Moves, Keeps, Quits, Idle, TakesMessage, TakesGuard, Administers, Claims, Purges,
         Shortens, Stops, Creates, Cleans

LEMMA UniqueStep ==
  ASSUME Base, TokensUnique, Next
  PROVE  TokensUnique'
  <1>0. tokens \in Nat /\ \A v \in Workers : run[v].token \in Nat /\ run[v].token <= tokens
    BY CountersType, RunFields DEF Base, Invocation, HasToken
  <1>1. CASE UNCHANGED run
    BY <1>1 DEF TokensUnique
  <1>2. ASSUME NEW w \in Workers, Others(w), RunStep(w)
        PROVE  TokensUnique'
    <2>1. \/ run'[w].token = run[w].token \/ run'[w].token = 0
          \/ run'[w].token = tokens + 1
      BY <1>2, TokenStep
    <2>2. ASSUME NEW u \in Workers, NEW v \in Workers, run'[u].token = run'[v].token, run'[u].token # 0
          PROVE  u = v
      <3>1. run'[u] = run[u] \/ u = w
        BY <1>2 DEF Others
      <3>2. run'[v] = run[v] \/ v = w
        BY <1>2 DEF Others
      <3> QED
        BY <1>0, <2>1, <2>2, <3>1, <3>2 DEF TokensUnique
    <2> QED
      BY <2>2 DEF TokensUnique
  <1> QED
    BY <1>1, <1>2, RunsStep

LEMMA SkippedStep ==
  ASSUME Base, Owned, Next
  PROVE  SkippedWasDrawn'
  <1>0. /\ tokens \in Nat /\ tokens' \in Nat /\ tokens <= tokens'
        /\ skipped \subseteq 1 .. tokens
        /\ \A w \in Workers : run[w].token \in Nat /\ run[w].token <= tokens
    BY CountersType, Counts, RunFields DEF Base, Invocation, HasToken, Owned, SkippedWasDrawn
  <1>1. \/ skipped' = skipped
        \/ \E u \in Workers : /\ Others(u) /\ run[u].pc = "purge" /\ run'[u].pc # "claim"
                              /\ skipped' = skipped \union {run[u].token}
    <2>1. \A w \in Workers : Finite(w)
      BY DEF Base, Invocation, HasMade
    <2>2. ASSUME NEW u \in Workers, Others(u), PtSkipped(u)
          PROVE  run[u].pc = "purge" /\ run'[u].pc # "claim" /\ skipped' = skipped \union {run[u].token}
      BY <2>2 DEF PtSkipped, Moves
    <2> QED
      BY <2>1, <2>2, RoundStep DEF Base, PtQuiet, PtStarted, PtClaimed, PtCommitted
  <1>2. skipped' \subseteq 1 .. tokens'
    <2>1. \A u \in Workers : run[u].pc = "purge" => run[u].token \in 1 .. tokens
      <3>1. \A u \in Workers : run[u].pc = "purge" => run[u].token # 0
        BY DEF Base, Invocation, HasToken, Waits
      <3> QED
        BY <1>0, <3>1
    <2>2. skipped' \subseteq 1 .. tokens
      <3>1. CASE skipped' = skipped
        BY <1>0, <3>1
      <3>2. ASSUME NEW u \in Workers, run[u].pc = "purge", skipped' = skipped \union {run[u].token}
            PROVE  skipped' \subseteq 1 .. tokens
        <4>1. run[u].token \in 1 .. tokens /\ skipped \subseteq 1 .. tokens
          BY <1>0, <2>1, <3>2
        <4> QED
          BY <3>2, <4>1
      <3> QED
        BY <1>1, <3>1, <3>2
    <2> QED
      BY <1>0, <2>2
  <1>3. ASSUME NEW w \in Workers, run'[w].pc = "claim"
        PROVE  run'[w].token \notin skipped /\ (run'[w].token = run[w].token => run[w].pc = "claim")
    <2>1. CASE run'[w] = run[w]
      BY <1>3, <2>1 DEF Owned, SkippedWasDrawn
    <2>2. CASE run'[w] # run[w]
      <3>1. PICK u \in Workers : Others(u) /\ RunStep(u)
        BY <2>2, RunsStep
      <3>2. u = w
        BY <2>2, <3>1 DEF Others
      <3>3. CASE Moves(w)
        <4>1. run[w].then # "claim"
          BY RunFields DEF Base
        <4>2. run[w].pc = "claim" /\ run'[w].token = run[w].token
          BY <1>3, <3>3, <4>1 DEF Moves, Keeps
        <4> QED
          BY <4>2 DEF Owned, SkippedWasDrawn
      <3>4. CASE TakesGuard(w)
        <4>1. run'[w].token = tokens + 1
          BY <3>4 DEF TakesGuard
        <4> QED
          BY <1>0, <4>1
      <3>5. ~Quits(w) /\ ~Cleans(w)
        BY <1>3, RunFields DEF Quits, Idle, Cleans
      <3> QED
        BY <1>3, <3>1, <3>2, <3>3, <3>4, <3>5
           DEF RunStep, TakesMessage, Claims, Purges, Shortens, Stops, Creates, Administers
    <2> QED
      BY <2>1, <2>2
  <1>4. ASSUME NEW w \in Workers, run'[w].pc = "claim", NEW u \in Workers,
               Others(u), run[u].pc = "purge", run'[u].pc # "claim"
        PROVE  run'[w].token # run[u].token
    <2>1. run'[w] = run[w]
      BY <1>4 DEF Others
    <2>2. run[u].token # 0 /\ u # w
      BY <1>4, <2>1 DEF Base, Invocation, HasToken, Waits
    <2> QED
      BY <2>1, <2>2 DEF Owned, TokensUnique
  <1> QED
    BY <1>1, <1>2, <1>3, <1>4 DEF SkippedWasDrawn

LEMMA EchoedStep ==
  ASSUME Base, Owned, Next
  PROVE  OwnerWasDrawn' /\ StatusOfAnAttempt' /\ Echoed'
  <1> USE DEF OwnerWasDrawn, StatusOfAnAttempt, Echoed, EchoIsCurrent, EchoIsEarlier
  <1>1. /\ tokens \in Nat /\ tokens' \in Nat /\ tokens <= tokens' /\ attempts \in Nat
        /\ attempts' \in Nat /\ attempts <= attempts'
        /\ pt \in [status : {"none", "pending", "processing", "ready", "failed"},
                   attempt : 0 .. MaxAttempts, owner : Nat]
        /\ \A g \in echo : g.attempt \in Nat /\ g.token \in Nat
    BY CountersType, Counts, BoundsType DEF Base, TypeOK, Groups
  <1>2. /\ pt.owner \in Nat /\ pt.owner <= tokens /\ (pt.attempt = 0 <=> pt.status = "none")
        /\ pt.attempt \in Nat
        /\ pt.status = "ready" =>
             \A g \in echo : IF pt.owner \in skipped THEN g.attempt < pt.attempt
                             ELSE g.attempt = pt.attempt /\ g.token = pt.owner
        /\ \A g \in echo : g.attempt <= attempts
        /\ pt.status \in {"pending", "processing"} =>
             pt.owner \notin skipped /\ \A g \in echo : g.attempt < pt.attempt
        /\ 0 \notin skipped
    BY <1>1, BoundsType DEF Owned, SkippedWasDrawn
  <1>3. CASE PtKept /\ echo' \subseteq echo /\ UNCHANGED <<attempts, skipped>>
    BY <1>1, <1>2, <1>3 DEF PtKept
  <1>4. CASE PtForgotten /\ echo' \subseteq echo /\ UNCHANGED <<attempts, skipped>>
    BY <1>1, <1>2, <1>4 DEF PtForgotten, NoAttempt
  <1>5. CASE PtMoved /\ echo' \subseteq echo /\ UNCHANGED <<attempts, skipped>>
    <2>1. /\ pt'.owner = pt.owner /\ pt'.attempt = pt.attempt
          /\ pt.status \in {"pending", "processing"} /\ pt'.status \in {"pending", "failed"}
      BY <1>1, <1>5 DEF PtMoved, PtMoves
    <2> QED
      BY <1>1, <1>2, <1>5, <2>1
  <1>6. CASE PtStarted /\ echo' \subseteq echo
    <2>1. /\ pt'.owner = 0 /\ pt'.attempt = attempts + 1 /\ pt'.status = "pending"
          /\ attempts' = attempts + 1 /\ skipped' = skipped
      BY <1>6 DEF PtStarted
    <2>2. \A g \in echo' : g.attempt < attempts + 1 /\ g.attempt <= attempts + 1
      BY <1>1, <1>2, <1>6
    <2> QED
      BY <1>1, <1>2, <2>1, <2>2
  <1>7. ASSUME NEW w \in Workers, PtClaimed(w), attempts' = attempts
        PROVE  OwnerWasDrawn' /\ StatusOfAnAttempt' /\ Echoed'
    <2>1. run[w].token \in Nat /\ run[w].token <= tokens /\ run[w].token \notin skipped
      BY <1>7, RunFields DEF PtClaimed, Claims, Base, Invocation, HasToken, Owned, SkippedWasDrawn
    <2>2. /\ pt'.status = "processing" /\ pt'.owner = run[w].token /\ pt'.attempt = pt.attempt
          /\ pt.status \in {"pending", "processing"} /\ UNCHANGED <<echo, skipped>>
      BY <1>1, <1>7 DEF PtClaimed, Busy
    <2> QED
      BY <1>1, <1>2, <1>7, <2>1, <2>2
  <1>8. ASSUME NEW w \in Workers, PtCommitted(w), attempts' = attempts
        PROVE  OwnerWasDrawn' /\ StatusOfAnAttempt' /\ Echoed'
    <2>1. \A g \in run[w].made : g.attempt = run[w].attempt /\ g.token = run[w].token
      BY DEF Base, Invocation, HasMade
    <2>2. /\ pt'.status = "ready" /\ pt'.attempt = pt.attempt /\ pt'.owner = pt.owner
          /\ pt.attempt = run[w].attempt /\ pt.owner = run[w].token /\ pt.status = "processing"
          /\ echo' = run[w].made /\ skipped' = skipped
      BY <1>1, <1>8 DEF PtCommitted, OwnsAttempt, IsCurrent
    <2>3. pt.attempt <= attempts
      BY DEF Base, AttemptsStarted
    <2> QED
      BY <1>1, <1>2, <1>8, <2>1, <2>2, <2>3
  <1>9. ASSUME NEW w \in Workers, PtSkipped(w), attempts' = attempts
        PROVE  OwnerWasDrawn' /\ StatusOfAnAttempt' /\ Echoed'
    <2>1. /\ pt'.status = "ready" /\ pt'.attempt = pt.attempt /\ pt'.owner = pt.owner
          /\ pt.owner = run[w].token /\ pt.status = "processing"
          /\ echo' = echo /\ skipped' = skipped \union {run[w].token}
      BY <1>1, <1>9 DEF PtSkipped, OwnsAttempt
    <2> QED
      BY <1>1, <1>2, <1>9, <2>1
  <1>10. \A w \in Workers : Finite(w)
    BY DEF Base, Invocation, HasMade
  <1> HIDE DEF OwnerWasDrawn, StatusOfAnAttempt, Echoed
  <1> QED
    BY <1>3, <1>4, <1>5, <1>6, <1>7, <1>8, <1>9, <1>10, RoundStep DEF PtQuiet, Base

LEMMA OwnedStep ==
  ASSUME Base, Owned, [Next]_vars
  PROVE  Owned'
  <1>1. CASE UNCHANGED vars
    BY <1>1 DEF vars, round, counters, Owned, GuardIsNewest, OwnerWasDrawn, TokensUnique,
       StatusOfAnAttempt, Echoed, EchoIsCurrent, EchoIsEarlier, SkippedWasDrawn
  <1>2. CASE Next
    <2>1. GuardIsNewest'
      <3>1. CASE UNCHANGED <<guard, tokens>>
        BY <3>1 DEF Owned, GuardIsNewest
      <3>2. ASSUME NEW w \in Workers, GuardStep(w)
            PROVE  GuardIsNewest'
        <4>1. CASE Takes(w) \/ \E groups \in SUBSET live : AdminDelete(w, groups)
          BY <4>1 DEF Takes, Acquires, AdminDelete, GuardIsNewest
        <4>2. CASE Release(w)
          BY <4>2 DEF Release, Owned, GuardIsNewest, counters
        <4> QED
          BY <3>2, <4>1, <4>2 DEF GuardStep
      <3> QED
        BY <1>2, <3>1, <3>2, GuardCases
    <2>2. TokensUnique'
      BY <1>2, UniqueStep DEF Owned
    <2> QED
      BY <1>2, <2>1, <2>2, SkippedStep, EchoedStep DEF Owned
  <1> QED
    BY <1>1, <1>2

LEMMA OwnedInit == Init => Owned
  BY DEF Init, NoAttempt, Idle, Owned, GuardIsNewest, OwnerWasDrawn, TokensUnique,
         StatusOfAnAttempt, Echoed, EchoIsCurrent, EchoIsEarlier, SkippedWasDrawn

LEMMA OwnedAlways == Spec => [](Base /\ Owned)
  <1>1. Init => Base /\ Owned
    BY BaseInit, OwnedInit
  <1>2. Base /\ Owned /\ [Next]_vars => (Base /\ Owned)'
    BY BaseStep, OwnedStep
  <1> QED
    BY <1>1, <1>2, PTL DEF Spec

(* A ready round names only groups of its current attempt and of the       *)
(* invocation that owns it, or only earlier ones when that invocation      *)
(* found PureTrack disabled, however many invocations of however many      *)
(* attempts overtake one another and whichever of their hosts have         *)
(* PureTrack disabled (commitPureTrackReady, handlePureTrackGroupJob).     *)
THEOREM EchoStaysCurrent == Spec => []EchoIsCurrent
  <1>1. Owned => EchoIsCurrent
    BY DEF Owned, Echoed
  <1> QED
    BY <1>1, OwnedAlways, PTL

-----------------------------------------------------------------------------
(* What a step tells of an invocation that has changed. *)

LEMMA Actor ==
  ASSUME Base, Next, NEW w \in Workers, run'[w] # run[w]
  PROVE  Others(w) /\ WorkerStep(w) /\ RunStep(w)
  <1>1. PICK u \in Workers : Others(u) /\ WorkerStep(u) /\ RunStep(u)
    BY RunsStep
  <1> QED
    BY <1>1 DEF Others

LEMMA ClaimsIsClaim ==
  ASSUME Base, Next, NEW w \in Workers, Claims(w)
  PROVE  Claim(w) /\ Busy(run[w].attempt)
  <1>1. run[w].pc = "claim" /\ run'[w].pc = "purge"
    BY DEF Claims
  <1>2. WorkerStep(w)
    BY <1>1, Actor
  <1>3. ~Quits(w) /\ ~Moves(w) /\ ~Cleans(w)
    BY <1>1 DEF Quits, Idle, Moves, Cleans
  <1>4. ~GoesOn(w) /\ ~Ends(w) /\ ~TurnsBack(w)
    BY <1>3, GoesOnMoves, EndsQuits, TurnsBackCleans DEF Base
  <1> QED
    BY <1>1, <1>2, <1>4 DEF WorkerStep, Dequeue, AdminDelete, Takes, Acquires, Purge,
       DeleteGroup, DeleteStops,
      CreateGroup

LEMMA CreatesIsCreate ==
  ASSUME Base, Next, NEW w \in Workers, Creates(w)
  PROVE  CreateGroup(w)
  <1>1. run[w].pc = "create" /\ run'[w].pc = "record"
    BY DEF Creates
  <1>2. WorkerStep(w)
    BY <1>1, Actor
  <1>3. ~Quits(w) /\ ~Moves(w)
    BY <1>1 DEF Quits, Idle, Moves
  <1>4. ~Cleans(w)
    BY <1>1 DEF Cleans
  <1>5. ~GoesOn(w) /\ ~Ends(w) /\ ~TurnsBack(w)
    BY <1>3, <1>4, GoesOnMoves, EndsQuits, TurnsBackCleans DEF Base
  <1> QED
    BY <1>1, <1>2, <1>5 DEF WorkerStep, Dequeue, AdminDelete, Takes, Acquires, Claim, Purge,
       DeleteGroup,
      DeleteStops

LEMMA ClaimedStep ==
  ASSUME Base, Next, NEW v \in Workers, run'[v].claimed
  PROVE  \/ Claims(v) /\ PtClaimed(v)
         \/ run[v].claimed /\ run'[v].attempt = run[v].attempt /\ run'[v].token = run[v].token
  <1>1. CASE run'[v] = run[v]
    BY <1>1
  <1>2. CASE Claims(v)
    BY <1>2, ClaimsIsClaim DEF Claim, PtClaimed, counters
  <1>3. CASE run'[v] # run[v] /\ ~Claims(v)
    <2>1. RunStep(v)
      BY <1>3, Actor
    <2>2. ~Quits(v)
      BY DEF Quits, Idle
    <2>3. ~TakesGuard(v)
      BY DEF TakesGuard, Base, Invocation, HasAttempt, Waits
    <2> QED
      BY <1>3, <2>1, <2>2, <2>3 DEF RunStep, Moves, Keeps, TakesMessage, Administers, Purges,
         Shortens, Stops,
        Creates, Cleans
  <1> QED
    BY <1>1, <1>2, <1>3

Making(w) == run[w].pc \in {"create", "record", "renew", "commit"}

LEMMA MadeStep ==
  ASSUME Base, Next, NEW w \in Workers, run'[w].made # {}
  PROVE  /\ run'[w].token = run[w].token /\ run'[w].attempt = run[w].attempt
         /\ run'[w].made = run[w].made \/ (Creates(w) /\ CreateGroup(w))
         /\ Making(w)' => Making(w)
  <1>1. CASE run'[w] = run[w]
    BY <1>1 DEF Making
  <1>2. CASE Creates(w)
    BY <1>2, CreatesIsCreate DEF Creates, Making
  <1>3. CASE run'[w] # run[w] /\ ~Creates(w)
    <2>1. RunStep(w)
      BY <1>3, Actor
    <2>2. ~Quits(w) /\ ~TakesMessage(w) /\ ~Administers(w)
      BY DEF Quits, Idle, TakesMessage, Administers
    <2>3. ~TakesGuard(w)
      BY DEF TakesGuard, Base, Invocation, MakesInTime, Waits
    <2>4. CASE Moves(w)
      <3>1. run'[w].made = run[w].made /\ run'[w].then = run[w].then
        BY <2>4 DEF Moves, Keeps, KeepsLists
      <3>2. run[w].then = "create" => run[w].pc # "drop"
        BY <3>1 DEF Base, Invocation, MakesInTime
      <3> QED
        BY <2>4, <3>1, <3>2, RunFields DEF Base, Moves, Keeps, Making
    <2>5. CASE ~Moves(w)
      BY <1>3, <2>1, <2>2, <2>3, <2>5 DEF RunStep, Claims, Purges, Shortens, Stops, Cleans,
         Keeps, Making
    <2> QED
      BY <2>4, <2>5
  <1> QED
    BY <1>1, <1>2, <1>3

(* Who holds the guard has the newest token. *)
LEMMA HolderIsNewest ==
  ASSUME Base, Owned, NEW w \in Workers, ~Waits(w), HoldsGuard(w)
  PROVE  run[w].token = tokens /\ run[w].token # 0
  BY DEF Base, Owned, GuardIsNewest, Invocation, HasToken, HoldsGuard

(* A group disappears by the hand of the invocation that made it, of one   *)
(* that purges for the current attempt, or of an administrator.            *)
LEMMA Removal ==
  ASSUME Base, Owned, deletes = 0, Next, NEW g \in live, g \notin live'
  PROVE  \E v \in Workers :
           /\ run[v].pc \in {"delete", "record"} /\ ~Making(v)'
           /\ \/ g \in run[v].made
              \/ /\ run[v].pc = "delete" /\ run[v].claimed /\ IsCurrent(v)
                 /\ run[v].token = tokens /\ run[v].token # 0
  <1>1. PICK v \in Workers : UpstreamStep(v)
    BY UpstreamCases DEF upstream
  <1>2. (DeleteGroup(v, g) /\ g \in run[v].todo) \/ (TakesBack(v) /\ g \in run[v].made)
    BY <1>1 DEF UpstreamStep, DeleteGroup, CreateGroup, LosesResponse, TakesBack, RecordGroup,
       DropRecords
  <1>3. CASE TakesBack(v) /\ g \in run[v].made
    <2>1. run[v].pc = "record"
      BY <1>3 DEF TakesBack, RecordFails
    <2>2. Cleans(v)
      BY <1>3, TurnsBackCleans DEF TakesBack, TurnsBack, Base
    <2> QED
      BY <1>3, <2>1, <2>2 DEF Cleans, Making
  <1>4. CASE DeleteGroup(v, g) /\ g \in run[v].todo
    <2>1. run[v].pc = "delete" /\ MayCall(v)
      BY <1>4 DEF DeleteGroup
    <2>2. run[v].attempt # 0
      BY <2>1 DEF Base, Invocation, HasAttempt
    <2>3. run'[v].pc = "delete"
      BY <1>4, DeleteShortens DEF Shortens, Base
    <2>4. CASE run[v].then # "create"
      BY <1>4, <2>1, <2>2, <2>3, <2>4 DEF Base, Invocation, CleansOwn, Making
    <2>5. CASE run[v].then = "create"
      <3>1. run[v].claimed /\ IsCurrent(v) /\ HoldsGuard(v)
        BY <2>1, <2>5 DEF Base, Invocation, HasAttempt, MayCall
      <3>2. run[v].token = tokens /\ run[v].token # 0
        BY <2>1, <3>1, HolderIsNewest DEF Waits
      <3> QED
        BY <2>1, <2>3, <3>1, <3>2 DEF Making
    <2> QED
      BY <2>4, <2>5
  <1> QED
    BY <1>2, <1>3, <1>4

LEMMA MakerIsOwner ==
  ASSUME Base, NEW w \in Workers, NEW g \in run[w].made
  PROVE  g.attempt = run[w].attempt /\ g.token = run[w].token /\ run[w].token # 0
  <1>1. g.attempt = run[w].attempt /\ g.token = run[w].token
    BY DEF Base, Invocation, HasMade
  <1>2. ~Waits(w)
    BY DEF Base, Invocation, MakesInTime
  <1> QED
    BY <1>1, <1>2 DEF Base, Invocation, HasToken

-----------------------------------------------------------------------------
(* The groups of a ready round. *)

(* An invocation whose attempt was claimed again by one with an older token, *)
(* which has lost the guard to it and so makes no group.                     *)
Late(v) == run[v].claimed /\ pt.attempt = run[v].attempt /\ pt.owner < run[v].token

LateMakesNothing ==
  \A v \in Workers : Late(v) =>
    /\ \A w \in Workers : run[w].token = pt.owner => run[w].made = {}
    /\ pt.status = "ready" /\ pt.owner \notin skipped => echo = {}
MadeIsLive ==
  deletes = 0 =>
    \A w \in Workers : Making(w) /\ run[w].token = pt.owner => run[w].made \subseteq live
OwnerIsDone ==
  pt.status = "ready" /\ "lostCommit" \notin world =>
    \A w \in Workers : run[w].token = pt.owner /\ run[w].token # 0 => run[w].pc = "release"

Kept == LateMakesNothing /\ MadeIsLive /\ OwnerIsDone /\ ReadyGroupsExist

(* The round's steps, by its attempt and owner. *)
LEMMA OwnerStep ==
  ASSUME Base, Next
  PROVE  \/ /\ pt'.owner = pt.owner /\ pt'.attempt = pt.attempt /\ echo' \subseteq echo
            /\ pt'.status = "ready" => pt.status = "ready"
            /\ skipped' = skipped
         \/ pt'.owner = 0 /\ pt'.attempt \in {0, attempts + 1} /\ pt'.status # "ready"
         \/ \E u \in Workers : /\ Others(u) /\ PtClaimed(u) /\ pt'.owner = run[u].token
                               /\ pt'.attempt = pt.attempt /\ pt'.status # "ready"
         \/ \E u \in Workers : /\ Others(u) /\ PtCommitted(u) /\ pt.owner = run[u].token
                               /\ pt'.owner = pt.owner /\ pt'.attempt = pt.attempt
                               /\ skipped' = skipped
         \/ \E u \in Workers : /\ Others(u) /\ PtSkipped(u) /\ pt.owner = run[u].token
                               /\ pt'.owner = pt.owner /\ pt'.attempt = pt.attempt
                               /\ pt'.owner \in skipped'
  <1>0. /\ pt \in [status : {"none", "pending", "processing", "ready", "failed"},
                   attempt : 0 .. MaxAttempts, owner : Nat]
        /\ \A w \in Workers : Finite(w)
    BY DEF Base, TypeOK, Invocation, HasMade
  <1>1. CASE (PtKept \/ PtMoved) /\ echo' \subseteq echo /\ UNCHANGED skipped
    BY <1>0, <1>1 DEF PtKept, PtMoved, PtMoves
  <1>2. CASE PtForgotten \/ PtStarted
    BY <1>0, <1>2 DEF PtForgotten, NoAttempt, PtStarted
  <1>3. ASSUME NEW u \in Workers, Others(u), PtClaimed(u)
        PROVE  pt'.owner = run[u].token /\ pt'.attempt = pt.attempt /\ pt'.status # "ready"
    BY <1>0, <1>3 DEF PtClaimed
  <1>4. ASSUME NEW u \in Workers, Others(u), PtCommitted(u)
        PROVE  /\ pt.owner = run[u].token /\ pt'.owner = pt.owner /\ pt'.attempt = pt.attempt
               /\ skipped' = skipped
    BY <1>0, <1>4 DEF PtCommitted, OwnsAttempt
  <1>5. ASSUME NEW u \in Workers, Others(u), PtSkipped(u)
        PROVE  /\ pt.owner = run[u].token /\ pt'.owner = pt.owner /\ pt'.attempt = pt.attempt
               /\ pt'.owner \in skipped'
    BY <1>0, <1>5 DEF PtSkipped, OwnsAttempt
  <1> QED
    BY <1>0, <1>1, <1>2, <1>3, <1>4, <1>5, RoundStep DEF PtQuiet, Base

LEMMA LateStep ==
  ASSUME Base, Owned, LateMakesNothing, Next
  PROVE  LateMakesNothing'
  <1>0. /\ tokens \in Nat /\ pt.owner \in Nat /\ pt.owner <= tokens /\ attempts \in Nat
        /\ \A w \in Workers :
             /\ run[w].token \in Nat /\ run[w].attempt \in Nat
             /\ run[w].token <= tokens /\ run[w].attempt <= attempts
    BY CountersType, RunFields DEF Base, TypeOK, Owned, OwnerWasDrawn, Invocation, HasToken,
       HasAttempt
  <1> SUFFICES ASSUME NEW v \in Workers, Late(v)'
               PROVE  /\ \A w \in Workers : run'[w].token = pt'.owner => run'[w].made = {}
                      /\ pt'.status = "ready" /\ pt'.owner \notin skipped' => echo' = {}
    BY DEF LateMakesNothing
  <1>1. /\ run[v].claimed /\ run'[v].attempt = run[v].attempt /\ run'[v].token = run[v].token
        /\ run[v].attempt # 0
        /\ pt'.attempt = run[v].attempt /\ pt'.owner < run[v].token
    <2>1. ~(Claims(v) /\ PtClaimed(v))
      <3>1. ASSUME Claims(v), PtClaimed(v) PROVE FALSE
        <4>1. pt'.owner = run[v].token /\ run'[v].token = run[v].token
          BY <3>1 DEF Claims, PtClaimed, Base, TypeOK
        <4> QED
          BY <1>0, <4>1 DEF Late
      <3> QED
        BY <3>1
    <2>2. /\ run[v].claimed /\ run'[v].attempt = run[v].attempt
          /\ run'[v].token = run[v].token
      BY <2>1, ClaimedStep DEF Late
    <2> QED
      BY <2>2 DEF Late, Base, Invocation, HasAttempt
  <1>2. ASSUME pt'.owner = pt.owner, pt'.attempt = pt.attempt
        PROVE  Late(v) /\ \A w \in Workers : run'[w].token = pt'.owner => run'[w].made = {}
    <2>1. Late(v)
      BY <1>1, <1>2 DEF Late
    <2>2. ASSUME NEW w \in Workers, run'[w].token = pt'.owner, run'[w].made # {}
          PROVE  FALSE
      <3>1. run[w].token = pt.owner /\ (run'[w].made = run[w].made \/ CreateGroup(w))
        BY <1>2, <2>2, MadeStep
      <3>2. run[w].made = {}
        BY <2>1, <3>1 DEF LateMakesNothing
      <3>3. CreateGroup(w)
        BY <2>2, <3>1, <3>2
      <3>4. run[w].token = tokens
        BY <3>3, HolderIsNewest DEF CreateGroup, MayCall, Waits
      <3> QED
        BY <1>0, <1>1, <1>2, <3>1, <3>4
    <2> QED
      BY <2>1, <2>2
  <1>3. CASE /\ pt'.owner = pt.owner /\ pt'.attempt = pt.attempt /\ echo' \subseteq echo
             /\ pt'.status = "ready" => pt.status = "ready"
             /\ skipped' = skipped
    BY <1>2, <1>3 DEF LateMakesNothing
  <1>4. CASE pt'.owner = 0 /\ pt'.attempt \in {0, attempts + 1} /\ pt'.status # "ready"
    BY <1>0, <1>1, <1>4
  <1>5. ASSUME NEW u \in Workers, Others(u), PtClaimed(u), pt'.owner = run[u].token, pt'.status # "ready"
        PROVE  \A w \in Workers : run'[w].token = pt'.owner => run'[w].made = {}
    <2>1. ASSUME NEW w \in Workers, run'[w].token = pt'.owner, run'[w].made # {}
          PROVE  FALSE
      <3>1. run[w].token = run[u].token
        BY <1>5, <2>1, MadeStep
      <3>2. run[u].token # 0 /\ run[u].made = {} /\ run'[u].made = run[u].made
        BY <1>5 DEF PtClaimed, Claims, Base, Invocation, HasToken, MakesInTime, Waits
      <3>3. w = u
        BY <3>1, <3>2 DEF Owned, TokensUnique
      <3> QED
        BY <2>1, <3>2, <3>3
    <2> QED
      BY <2>1
  <1>6. ASSUME NEW u \in Workers, PtCommitted(u), pt.owner = run[u].token, pt'.owner = pt.owner,
               pt'.attempt = pt.attempt
        PROVE  echo' = {}
    BY <1>2, <1>6 DEF PtCommitted, LateMakesNothing
  <1>7. CASE pt'.owner = pt.owner /\ pt'.attempt = pt.attempt /\ pt'.owner \in skipped'
    BY <1>2, <1>7
  <1> QED
    BY <1>2, <1>3, <1>4, <1>5, <1>6, <1>7, OwnerStep

LEMMA LiveStep ==
  ASSUME Base, Owned, LateMakesNothing, MadeIsLive, Next
  PROVE  MadeIsLive'
  <1>0. /\ tokens \in Nat /\ pt.owner \in Nat /\ pt.owner <= tokens
        /\ \A w \in Workers : run[w].token \in Nat /\ run[w].token <= tokens
    BY CountersType, RunFields DEF Base, TypeOK, Owned, OwnerWasDrawn, Invocation, HasToken
  <1> SUFFICES ASSUME deletes' = 0, NEW w \in Workers, Making(w)', run'[w].token = pt'.owner,
                      NEW g \in run'[w].made
               PROVE  g \in live'
    BY DEF MadeIsLive
  <1>1. deletes = 0
    <2>1. deletes \in Nat /\ deletes <= deletes'
      BY Counts, CountersType DEF Base
    <2> QED
      BY <2>1
  <1>2. /\ run'[w].token = run[w].token /\ Making(w)
        /\ run'[w].made = run[w].made \/ (Creates(w) /\ CreateGroup(w))
    BY MadeStep
  <1>3. run[w].token # 0
    BY <1>2 DEF Base, Invocation, HasToken, Waits, Making
  <1>4. run[w].token = pt.owner
    <2>1. ASSUME NEW u \in Workers, PtClaimed(u), pt'.owner = run[u].token
          PROVE  FALSE
      <3>1. w = u
        BY <1>2, <1>3, <2>1 DEF Owned, TokensUnique
      <3> QED
        BY <1>2, <2>1, <3>1 DEF PtClaimed, Claims, Making
    <2> QED
      BY <1>2, <1>3, <2>1, OwnerStep
  <1>5. run[w].made \subseteq live
    BY <1>1, <1>2, <1>4 DEF MadeIsLive
  <1>6. CASE Creates(w) /\ CreateGroup(w)
    BY <1>5, <1>6 DEF Creates, CreateGroup
  <1>7. CASE run'[w].made = run[w].made
    <2>1. g \in live /\ g \in run[w].made
      BY <1>5, <1>7
    <2>2. ASSUME g \notin live'
          PROVE  FALSE
      <3>1. PICK v \in Workers :
              /\ run[v].pc \in {"delete", "record"} /\ ~Making(v)'
              /\ \/ g \in run[v].made
                 \/ /\ run[v].pc = "delete" /\ run[v].claimed /\ IsCurrent(v)
                    /\ run[v].token = tokens /\ run[v].token # 0
        BY <1>1, <2>1, <2>2, Removal
      <3>2. v # w
        BY <3>1
      <3>3. g \notin run[v].made
        BY <1>3, <2>1, <3>2, MakerIsOwner DEF Owned, TokensUnique
      <3>4. run[v].claimed /\ IsCurrent(v) /\ run[v].token = tokens
        BY <3>1, <3>3
      <3>5. run[v].token # pt.owner
        BY <1>3, <1>4, <3>2 DEF Owned, TokensUnique
      <3>6. Late(v)
        BY <1>0, <3>4, <3>5 DEF Late, IsCurrent
      <3> QED
        BY <1>4, <2>1, <3>6 DEF LateMakesNothing
    <2> QED
      BY <2>2
  <1> QED
    BY <1>2, <1>6, <1>7

LEMMA DoneStep ==
  ASSUME Base, Owned, OwnerIsDone, Next
  PROVE  OwnerIsDone'
  <1>0. tokens \in Nat /\ pt.owner \in Nat /\ pt.owner <= tokens /\ world' = world
    BY Counts, CountersType DEF Base, TypeOK, Owned, OwnerWasDrawn
  <1> SUFFICES ASSUME pt'.status = "ready", "lostCommit" \notin world,
                      NEW w \in Workers, run'[w].token = pt'.owner, run'[w].token # 0
               PROVE  run'[w].pc = "release"
    BY <1>0 DEF OwnerIsDone
  <1>1. ASSUME NEW u \in Workers, Others(u), PtCommitted(u), pt.owner = run[u].token, pt'.owner = pt.owner
        PROVE  run'[w].pc = "release"
    <2>1. run'[u].pc = "release"
      BY <1>1 DEF PtCommitted
    <2>2. CASE w # u
      <3>1. run[w].token = run[u].token /\ run[w].token # 0
        BY <1>1, <2>2 DEF Others
      <3> QED
        BY <2>2, <3>1 DEF Owned, TokensUnique
    <2> QED
      BY <2>1, <2>2
  <1>3. ASSUME NEW u \in Workers, Others(u), PtSkipped(u), pt.owner = run[u].token, pt'.owner = pt.owner
        PROVE  run'[w].pc = "release"
    <2>1. run'[u].pc = "release"
      BY <1>3 DEF PtSkipped
    <2>2. CASE w # u
      <3>1. run[w].token = run[u].token /\ run[w].token # 0
        BY <1>3, <2>2 DEF Others
      <3> QED
        BY <2>2, <3>1 DEF Owned, TokensUnique
    <2> QED
      BY <2>1, <2>2
  <1>2. CASE pt'.owner = pt.owner /\ pt.status = "ready"
    <2>1. CASE run'[w] = run[w]
      BY <1>2, <2>1 DEF OwnerIsDone
    <2>2. CASE run'[w] # run[w]
      <3>1. RunStep(w)
        BY <2>2, Actor
      <3>2. run'[w].token = run[w].token
        BY <1>0, <1>2, <3>1, TokenStep
      <3>3. run[w].pc = "release"
        BY <1>2, <3>2 DEF OwnerIsDone
      <3>4. ~Quits(w)
        BY DEF Quits, Idle
      <3> QED
        BY <3>1, <3>3, <3>4 DEF RunStep, Moves, TakesMessage, Claims, Purges, Shortens, Stops,
           Creates,
          Cleans, TakesGuard, Administers
    <2> QED
      BY <2>1, <2>2
  <1> QED
    BY <1>1, <1>2, <1>3, OwnerStep

LEMMA ReadyStep ==
  ASSUME Base, Owned, Kept, Next
  PROVE  ReadyGroupsExist'
  <1>0. /\ tokens \in Nat /\ pt.owner \in Nat /\ pt.owner <= tokens /\ world' = world
        /\ \A w \in Workers : run[w].token \in Nat /\ run[w].token <= tokens
    BY Counts, CountersType, RunFields
       DEF Base, TypeOK, Owned, OwnerWasDrawn, Invocation, HasToken
  <1>1. deletes' = 0 => deletes = 0
    <2>1. deletes \in Nat /\ deletes <= deletes'
      BY Counts, CountersType DEF Base
    <2> QED
      BY <2>1
  <1> SUFFICES ASSUME pt'.status = "ready", deletes' = 0, "lostCommit" \notin world,
                      pt'.owner \notin skipped', NEW g \in echo'
               PROVE  g \in live'
    BY <1>0 DEF ReadyGroupsExist
  <1>2. ASSUME NEW u \in Workers, PtCommitted(u), pt.owner = run[u].token
        PROVE  g \in live'
    BY <1>1, <1>2 DEF PtCommitted, Making, Kept, MadeIsLive, upstream
  <1>3. CASE echo' \subseteq echo /\ pt.status = "ready" /\ pt.owner \notin skipped
    <2>1. g \in live /\ g \in echo /\ g.token = pt.owner
      BY <1>1, <1>3 DEF Kept, ReadyGroupsExist, Owned, Echoed, EchoIsCurrent
    <2>2. ASSUME g \notin live'
          PROVE  FALSE
      <3>1. PICK v \in Workers :
              /\ run[v].pc \in {"delete", "record"}
              /\ \/ g \in run[v].made
                 \/ /\ run[v].pc = "delete" /\ run[v].claimed /\ IsCurrent(v)
                    /\ run[v].token = tokens /\ run[v].token # 0
        BY <1>1, <2>1, <2>2, Removal
      <3>2. run[v].token = pt.owner => run[v].token = 0
        BY <1>3, <3>1 DEF Kept, OwnerIsDone
      <3>3. g \notin run[v].made
        BY <2>1, <3>2, MakerIsOwner
      <3>4. Late(v)
        BY <1>0, <3>1, <3>2, <3>3 DEF Late, IsCurrent
      <3> QED
        BY <1>3, <2>1, <3>4 DEF Kept, LateMakesNothing
    <2> QED
      BY <2>2
  <1> QED
    BY <1>2, <1>3, OwnerStep

LEMMA KeptStep ==
  ASSUME Base, Owned, Kept, [Next]_vars
  PROVE  Kept'
  <1>1. CASE UNCHANGED vars
    BY <1>1 DEF vars, round, upstream, counters, Kept, LateMakesNothing, Late, MadeIsLive,
       Making, OwnerIsDone,
      ReadyGroupsExist, world
  <1>2. CASE Next
    BY <1>2, BaseStep, LateStep, LiveStep, DoneStep, ReadyStep DEF Kept
  <1> QED
    BY <1>1, <1>2

LEMMA KeptInit == Init => Kept
  BY DEF Init, NoAttempt, Idle, Kept, LateMakesNothing, Late, MadeIsLive, Making, OwnerIsDone,
         ReadyGroupsExist

-----------------------------------------------------------------------------
(* The groups at puretrack.io and their records. *)

RecordsUnderGuard ==
  KeepsTrack => \A w \in Workers : run[w].pc = "record" => guard = run[w].token
GoneIsGone ==
  KeepsTrack => \A w \in Workers : run[w].gone \intersect live = {}

(* No group is known that the invocation with its token, if it is still at *)
(* work, has not made: the name of the next group is new.                  *)
Made(g) ==
  g.token \in 1 .. tokens /\ \A w \in Workers : run[w].token = g.token => g \in run[w].made
EachWasMade ==
  KeepsTrack =>
    /\ \A g \in echo \union records \union live : Made(g)
    /\ \A v \in Workers : \A g \in run[v].todo \union run[v].gone : Made(g)

(* A group without a record is about to have one, or is about to be deleted *)
(* because it could not have one.                                           *)
Undoes(w, g) ==
  /\ run[w].pc = "delete" /\ run[w].then # "create" /\ g \in run[w].todo
  /\ guard = run[w].token
  /\ "record" \in world /\ faults.count > 0
LiveIsKnown ==
  KeepsTrack /\ ~FailsTwice =>
    \A g \in live :
      g \in records \/ \E w \in Workers : g \in run[w].made /\ (run[w].pc = "record" \/ Undoes(w, g))

Tracked == RecordsUnderGuard /\ GoneIsGone /\ EachWasMade /\ LiveIsKnown

LEMMA WorldStays ==
  ASSUME Base, Next
  PROVE  /\ world' = world /\ (KeepsTrack' <=> KeepsTrack) /\ (FailsTwice => FailsTwice')
         /\ faults.count \in Nat /\ faults'.count \in Nat /\ faults.count <= faults'.count
  <1>1. world' = world /\ faults.count <= faults'.count /\ faults' \in [kinds : Worlds, count : 0 .. MaxFaults]
        /\ faults \in [kinds : Worlds, count : 0 .. MaxFaults]
    BY Counts DEF Base, TypeOK
  <1>2. faults.count \in Nat /\ faults'.count \in Nat
    BY <1>1, BoundsType
  <1> QED
    BY <1>1, <1>2 DEF KeepsTrack, FailsTwice

LEMMA TrackWorld ==
  ASSUME KeepsTrack
  PROVE  "crash" \notin world /\ "lostResponse" \notin world /\ "overrun" \notin world
  BY DEF KeepsTrack

LEMMA AtRecord ==
  ASSUME NEW w \in Workers, WorkerStep(w), run[w].pc = "record", KeepsTrack
  PROVE  RecordGroup(w) \/ RecordFails(w)
  <1>1. ~Crash(w) /\ ~Stall(w)
    BY TrackWorld DEF Crash, Fault, Stall
  <1> QED
    BY <1>1 DEF WorkerStep, GoesOn, Ends, TurnsBack, Skip, SkipFails, Skips, PurgeFails, Claim, ClaimFails, DeleteEnds, Clear,
       ClearFails, DropRecords,
      CreateEnds, Renew, Commit, MarkFailed, MarkFails, Contended, Requeued, Release, CreateStops, CommitFails,
      Dequeue, AdminDelete, Takes, Acquires, Purge, DeleteGroup, DeleteStops, CreateGroup

LEMMA AtDelete ==
  ASSUME NEW w \in Workers, WorkerStep(w), run[w].pc = "delete", KeepsTrack
  PROVE  (\E g \in run[w].todo : DeleteGroup(w, g)) \/ DeleteStops(w) \/ DeleteEnds(w)
  <1>1. ~Crash(w) /\ ~Stall(w)
    BY TrackWorld DEF Crash, Fault, Stall
  <1> QED
    BY <1>1 DEF WorkerStep, GoesOn, Ends, TurnsBack, Skip, SkipFails, Skips, PurgeFails, Claim, ClaimFails, Clear, ClearFails,
       DropRecords, RecordGroup,
      CreateEnds, Renew, Commit, MarkFailed, MarkFails, Contended, Requeued, Release, CreateStops, CommitFails,
      RecordFails, Dequeue, AdminDelete, Takes, Acquires, Purge, CreateGroup

(* The guard of an invocation at work is taken from it only when it could  *)
(* outlive its time limit.                                                 *)
LEMMA GuardStays ==
  ASSUME Base, Owned, KeepsTrack, Next, NEW w \in Workers, ~Waits(w), run[w].pc # "release",
         guard = run[w].token
  PROVE  guard' = guard
  <1>1. guard # 0
    BY DEF Base, Invocation, HasToken
  <1>2. ASSUME NEW u \in Workers, GuardStep(u)
        PROVE  guard' = guard
    <2>1. ~Takes(u)
      BY <1>1, TrackWorld DEF Takes, Acquire, TakeOver, StaleGuard
    <2>2. ~\E groups \in SUBSET live : AdminDelete(u, groups)
      BY <1>1, TrackWorld DEF AdminDelete, StaleGuard
    <2>3. CASE Release(u)
      <3>1. run[u].pc = "release"
        BY <2>3 DEF Release
      <3>2. u # w
        BY <3>1
      <3>3. ~HoldsGuard(u)
        BY <1>1, <3>2 DEF HoldsGuard, Owned, TokensUnique
      <3> QED
        BY <2>3, <3>3 DEF Release
    <2> QED
      BY <1>2, <2>1, <2>2, <2>3 DEF GuardStep
  <1> QED
    BY <1>2, GuardCases

LEMMA RecordsStep ==
  ASSUME Base, Owned, RecordsUnderGuard, Next
  PROVE  RecordsUnderGuard'
  <1> SUFFICES ASSUME KeepsTrack, NEW w \in Workers, run'[w].pc = "record"
               PROVE  guard' = run'[w].token
    BY WorldStays DEF RecordsUnderGuard
  <1>1. CASE run'[w].token = run[w].token /\ run[w].pc = "record"
    <2>1. guard = run[w].token /\ ~Waits(w)
      BY <1>1 DEF RecordsUnderGuard, Waits
    <2> QED
      BY <1>1, <2>1, GuardStays
  <1>2. CASE Creates(w)
    <2>1. CreateGroup(w)
      BY <1>2, CreatesIsCreate
    <2> QED
      BY <1>2, <2>1 DEF Creates, CreateGroup, MayCall, HoldsGuard
  <1>3. CASE run'[w] # run[w] /\ ~Creates(w)
    <2>1. RunStep(w)
      BY <1>3, Actor
    <2>2. run[w].then # "record"
      BY RunFields DEF Base
    <2>3. ~Quits(w)
      BY DEF Quits, Idle
    <2>4. ~Cleans(w)
      BY DEF Cleans
    <2>5. Moves(w)
      BY <1>3, <2>1, <2>3, <2>4 DEF RunStep, TakesMessage, Claims, Purges, Shortens, Stops,
         TakesGuard, Administers
    <2>6. run'[w].token = run[w].token /\ run[w].pc = "record"
      BY <2>2, <2>5 DEF Moves, Keeps
    <2> QED
      BY <1>1, <2>6
  <1> QED
    BY <1>1, <1>2, <1>3

LEMMA MakerMade ==
  ASSUME Base, Owned, NEW w \in Workers, NEW g \in run[w].made
  PROVE  Made(g)
  <1>1. g.token = run[w].token /\ run[w].token # 0
    BY MakerIsOwner
  <1>2. run[w].token \in Nat /\ run[w].token <= tokens
    BY RunFields DEF Base, Invocation, HasToken
  <1>3. g.token \in 1 .. tokens
    BY <1>1, <1>2, CountersType DEF Base
  <1>4. \A v \in Workers : run[v].token = g.token => v = w
    BY <1>1 DEF Owned, TokensUnique
  <1> QED
    BY <1>3, <1>4 DEF Made

LEMMA MadeStaysMade ==
  ASSUME Base, Next, NEW g, Made(g)
  PROVE  Made(g)'
  <1>0. g.token \in 1 .. tokens /\ tokens \in Nat /\ tokens' \in Nat /\ tokens <= tokens'
    BY Counts, CountersType DEF Base, Made
  <1>1. ASSUME NEW w \in Workers, run'[w].token = g.token
        PROVE  g \in run'[w].made
    <2>1. CASE run'[w] = run[w]
      BY <1>1, <2>1 DEF Made
    <2>2. CASE run'[w] # run[w]
      <3>1. RunStep(w)
        BY <2>2, Actor
      <3>2. run'[w].token # 0 /\ run'[w].token # tokens + 1
        BY <1>0, <1>1
      <3>3. run'[w].token = run[w].token /\ run[w].made \subseteq run'[w].made
        BY <3>1, <3>2 DEF RunStep, Moves, Keeps, Quits, Idle, TakesMessage, TakesGuard,
           Administers, Claims, Purges,
          Shortens, Stops, Creates, Cleans
      <3> QED
        BY <1>1, <3>3 DEF Made
    <2> QED
      BY <2>1, <2>2
  <1> QED
    BY <1>0, <1>1 DEF Made

LEMMA ListStep ==
  ASSUME NEW w \in Workers, RunStep(w)
  PROVE  /\ run'[w].todo \subseteq run[w].todo \union run[w].made \union echo \union records \union live
         /\ run'[w].gone \subseteq run[w].gone \union run[w].todo \union echo \union records
  <1>1. CASE Moves(w) \/ TakesGuard(w) \/ Claims(w) \/ Creates(w)
    BY <1>1 DEF Moves, TakesGuard, Claims, Creates, KeepsLists
  <1>2. CASE Quits(w) \/ TakesMessage(w)
    BY <1>2 DEF Quits, Idle, TakesMessage
  <1>3. CASE Administers(w) \/ Purges(w) \/ Stops(w) \/ Cleans(w)
    BY <1>3 DEF Administers, Purges, Stops, Cleans
  <1>4. ASSUME NEW g, Shortens(w, g)
        PROVE  /\ run'[w].todo \subseteq run[w].todo
               /\ run'[w].gone \subseteq run[w].gone \union run[w].todo
    BY <1>4 DEF Shortens
  <1> QED
    BY <1>1, <1>2, <1>3, <1>4 DEF RunStep

(* A group that appears was created, and is recorded by its maker. *)
LEMMA Appears ==
  ASSUME Base, KeepsTrack, Next, NEW g \in live', g \notin live
  PROVE  \E u \in Workers : /\ CreateGroup(u) /\ Creates(u) /\ Others(u)
                            /\ g = NextGroup(u) /\ g \notin run[u].made
  <1>1. PICK u \in Workers : UpstreamStep(u)
    BY UpstreamCases DEF upstream
  <1>2. CreateGroup(u) /\ g = NextGroup(u)
    BY <1>1, TrackWorld DEF UpstreamStep, DeleteGroup, CreateGroup, LosesResponse, TakesBack,
       RecordGroup,
      DropRecords
  <1>3. Creates(u) /\ Others(u)
    BY <1>2, CreateCreates DEF Base, Invocation, HasMade, Finite
  <1>4. g \notin run[u].made
    BY <1>2, <1>3, MadeOneMore DEF Base, Invocation
  <1> QED
    BY <1>2, <1>3, <1>4

LEMMA EachWasMadeStep ==
  ASSUME Base, Base', Owned, Owned', EachWasMade, Next
  PROVE  EachWasMade'
  <1> SUFFICES ASSUME KeepsTrack
               PROVE  /\ \A g \in echo' \union records' \union live' : Made(g)'
                      /\ \A v \in Workers : \A g \in run'[v].todo \union run'[v].gone : Made(g)'
    BY WorldStays DEF EachWasMade
  <1>1. /\ \A g \in echo \union records \union live : Made(g)
        /\ \A v \in Workers : \A g \in run[v].todo \union run[v].gone : Made(g)
    BY DEF EachWasMade
  <1>2. ASSUME NEW g \in echo'
        PROVE  Made(g)'
    <2>1. Made(g)
      <3>1. \A w \in Workers : Finite(w)
        BY DEF Base, Invocation, HasMade
      <3>2. echo' \subseteq echo \/ \E u \in Workers : echo' = run[u].made
        BY <3>1, RoundStep DEF Base, PtClaimed, PtCommitted, PtSkipped
      <3> QED
        BY <1>1, <3>2, MakerMade
    <2> QED
      BY <2>1, MadeStaysMade
  <1>3. ASSUME NEW g \in records'
        PROVE  Made(g)'
    <2>1. g \in records \/ \E u \in Workers : g \in run[u].made
      BY UpstreamCases DEF upstream, UpstreamStep, DeleteGroup, CreateGroup, LosesResponse,
         CreateStops, TakesBack,
        RecordFails, RecordGroup, DropRecords
    <2>2. Made(g)
      BY <1>1, <2>1, MakerMade
    <2> QED
      BY <2>2, MadeStaysMade
  <1>4. ASSUME NEW g \in live'
        PROVE  Made(g)'
    <2>1. CASE g \in live
      BY <1>1, <2>1, MadeStaysMade
    <2>2. CASE g \notin live
      <3>1. PICK u \in Workers : Creates(u) /\ g = NextGroup(u)
        BY <2>2, Appears
      <3>2. g \in run'[u].made
        BY <3>1 DEF Creates
      <3>3. \A w \in Workers : run'[w].token = g.token => w = u
        <4>1. g.token = run'[u].token
          BY <3>1 DEF Creates, NextGroup
        <4>2. run'[u].token # 0
          BY <3>1 DEF Creates, Base, Invocation, HasToken, Waits
        <4> QED
          BY <4>1, <4>2 DEF Owned, TokensUnique
      <3>4. g.token \in 1 .. tokens'
        <4>1. g.token = run[u].token /\ run[u].pc = "create"
          BY <3>1 DEF Creates, NextGroup
        <4>2. run[u].token # 0 /\ run[u].token <= tokens /\ run[u].token \in Nat
          BY <4>1, RunFields DEF Base, Invocation, HasToken, Waits
        <4>3. tokens' \in Nat /\ tokens <= tokens' /\ tokens \in Nat
          BY Counts, CountersType DEF Base
        <4> QED
          BY <4>1, <4>2, <4>3
      <3> QED
        BY <3>2, <3>3, <3>4 DEF Made
    <2> QED
      BY <2>1, <2>2
  <1>5. ASSUME NEW v \in Workers, NEW g \in run'[v].todo \union run'[v].gone
        PROVE  Made(g)'
    <2>1. CASE run'[v] = run[v]
      BY <1>1, <2>1, MadeStaysMade
    <2>2. CASE run'[v] # run[v]
      <3>1. RunStep(v)
        BY <2>2, Actor
      <3>2. g \in run[v].todo \union run[v].gone \union run[v].made \union echo \union records \union live
        BY <3>1, ListStep
      <3>3. Made(g)
        BY <1>1, <3>2, MakerMade
      <3> QED
        BY <3>3, MadeStaysMade
    <2> QED
      BY <2>1, <2>2
  <1> QED
    BY <1>2, <1>3, <1>4, <1>5

LEMMA ShortensIsDelete ==
  ASSUME Base, KeepsTrack, Next, NEW w \in Workers, NEW g, Shortens(w, g)
  PROVE  DeleteGroup(w, g)
  <1>1. /\ run[w].pc = "delete" /\ run'[w].pc = "delete" /\ g \in run[w].todo
        /\ run'[w].todo = run[w].todo \ {g}
    BY DEF Shortens
  <1>2. WorkerStep(w)
    BY <1>1, Actor
  <1>3. ~DeleteEnds(w)
    BY <1>1 DEF DeleteEnds
  <1>4. ~DeleteStops(w)
    BY <1>1, StopStops DEF Base, Stops
  <1>5. PICK h \in run[w].todo : DeleteGroup(w, h)
    BY <1>1, <1>2, <1>3, <1>4, AtDelete
  <1>6. run'[w].todo = run[w].todo \ {h}
    BY <1>5, DeleteShortens DEF Base, Shortens
  <1>7. h = g
    BY <1>1, <1>6
  <1> QED
    BY <1>5, <1>7

LEMMA GoneStep ==
  ASSUME Base, Owned, GoneIsGone, EachWasMade, Next
  PROVE  GoneIsGone'
  <1> SUFFICES ASSUME KeepsTrack, NEW w \in Workers, NEW g \in run'[w].gone, g \in live'
               PROVE  FALSE
    BY WorldStays DEF GoneIsGone
  <1>1. g \in run[w].gone \union run[w].todo \union echo \union records
    <2>1. CASE run'[w] = run[w]
      BY <2>1
    <2>2. CASE run'[w] # run[w]
      <3>1. RunStep(w)
        BY <2>2, Actor
      <3> QED
        BY <3>1, ListStep
    <2> QED
      BY <2>1, <2>2
  <1>2. CASE g \notin live
    <2>1. PICK u \in Workers : CreateGroup(u) /\ g = NextGroup(u) /\ g \notin run[u].made
      BY <1>2, Appears
    <2>2. Made(g) /\ g.token = run[u].token
      BY <1>1, <2>1 DEF EachWasMade, NextGroup
    <2> QED
      BY <2>1, <2>2 DEF Made
  <1>3. CASE g \in live
    <2>1. g \notin run[w].gone
      BY <1>3 DEF GoneIsGone
    <2>2. run'[w] # run[w]
      BY <2>1
    <2>3. RunStep(w)
      BY <2>2, Actor
    <2>4. ASSUME NEW h, Shortens(w, h)
          PROVE  FALSE
      <3>1. g = h
        BY <2>1, <2>4 DEF Shortens
      <3>2. DeleteGroup(w, g)
        BY <2>4, <3>1, ShortensIsDelete
      <3> QED
        BY <3>2 DEF DeleteGroup
    <2>5. ~Purges(w)
      BY <1>3 DEF Purges
    <2>6. ~Quits(w)
      BY DEF Quits, Idle
    <2> QED
      BY <2>1, <2>3, <2>4, <2>5, <2>6 DEF RunStep, Moves, KeepsLists, TakesMessage, Claims,
         Stops, Creates, Cleans,
        TakesGuard, Administers
  <1> QED
    BY <1>2, <1>3

(* What becomes of a group that had no record. *)
Follows(g) ==
  g \in records' \/ \E w \in Workers : g \in run'[w].made /\ (run'[w].pc = "record" \/ Undoes(w, g)')

LEMMA FromRecord ==
  ASSUME Base, RecordsUnderGuard, KeepsTrack, Next,
         NEW w \in Workers, run[w].pc = "record", NEW g \in run[w].made, g \in live'
  PROVE  Follows(g)
  <1>1. CASE run'[w] = run[w]
    BY <1>1 DEF Follows
  <1>2. CASE RecordGroup(w)
    BY <1>2 DEF RecordGroup, Follows
  <1>3. CASE RecordFails(w)
    <2>1. CASE g \in records
      BY <1>3, <2>1 DEF RecordFails, Follows
    <2>2. CASE g \notin records
      <3>1. /\ guard' = guard /\ guard = run[w].token /\ "record" \in world /\ world' = world
            /\ faults'.count > 0
        BY <1>3, WorldStays DEF RecordFails, RecordsUnderGuard, Fault, Base, TypeOK
      <3>2. Cleans(w)
        BY <1>3, TurnsBackCleans DEF TurnsBack, Base
      <3>3. /\ run'[w].made = run[w].made /\ run'[w].todo = run[w].made /\ run'[w].token = run[w].token
            /\ run'[w].pc = "delete" /\ run'[w].then # "create"
        BY <3>2 DEF Cleans, Keeps
      <3> QED
        BY <3>1, <3>3 DEF Follows, Undoes
    <2> QED
      BY <2>1, <2>2
  <1>4. CASE run'[w] # run[w]
    BY <1>2, <1>3, <1>4, Actor, AtRecord
  <1> QED
    BY <1>1, <1>4

LEMMA FromUndoing ==
  ASSUME Base, Owned, KeepsTrack, ~FailsTwice', Next,
         NEW w \in Workers, NEW g \in run[w].made, Undoes(w, g), g \in live'
  PROVE  Follows(g)
  <1>1. /\ guard' = guard /\ world' = world /\ faults'.count > 0
        /\ faults.count \in Nat /\ faults.count > 0
    <2>1. guard' = guard
      BY GuardStays DEF Undoes, Waits
    <2> QED
      BY <2>1, WorldStays DEF Undoes
  <1>2. CASE run'[w] = run[w]
    BY <1>1, <1>2 DEF Undoes, Follows
  <1>3. ASSUME NEW h, DeleteGroup(w, h)
        PROVE  Follows(g)
    <2>1. Shortens(w, h) /\ g # h
      BY <1>3, DeleteShortens DEF Base, DeleteGroup
    <2>2. /\ run'[w].pc = "delete" /\ run'[w].then = run[w].then /\ g \in run'[w].todo
          /\ run'[w].token = run[w].token /\ run'[w].made = run[w].made
      BY <2>1 DEF Shortens, Keeps, Undoes
    <2> QED
      BY <1>1, <2>2 DEF Undoes, Follows
  <1>4. ~DeleteEnds(w)
    BY DEF DeleteEnds, Undoes
  <1>5. ~DeleteStops(w)
    <2>1. ASSUME DeleteStops(w)
          PROVE  FALSE
      <3>1. Fault("upstream")
        BY <2>1 DEF DeleteStops, Undoes, MayCall, HoldsGuard
      <3>2. faults'.count = faults.count + 1 /\ "upstream" \in world
        BY <3>1, FaultType DEF Base
      <3> QED
        BY <1>1, <3>2 DEF FailsTwice, Undoes
    <2> QED
      BY <2>1
  <1>6. CASE run'[w] # run[w]
    BY <1>3, <1>4, <1>5, <1>6, Actor, AtDelete DEF Undoes
  <1> QED
    BY <1>2, <1>6

LEMMA KnownStep ==
  ASSUME Base, Owned, Tracked, Next
  PROVE  LiveIsKnown'
  <1> SUFFICES ASSUME KeepsTrack, ~FailsTwice', NEW g \in live'
               PROVE  Follows(g)
    BY WorldStays DEF LiveIsKnown, Follows
  <1>1. CASE g \notin live
    <2>1. PICK u \in Workers : Creates(u) /\ g = NextGroup(u)
      BY <1>1, Appears
    <2> QED
      BY <2>1 DEF Creates, Follows
  <1>2. CASE g \in live
    <2>1. g \in records \/ \E w \in Workers : g \in run[w].made /\ (run[w].pc = "record" \/ Undoes(w, g))
      BY <1>2, WorldStays DEF Tracked, LiveIsKnown
    <2>2. CASE g \in records
      <3>1. \A u \in Workers : g \notin run[u].gone
        BY <1>2 DEF Tracked, GoneIsGone
      <3>2. g \in records'
        BY <2>2, <3>1, UpstreamCases DEF upstream, UpstreamStep, DeleteGroup, CreateGroup,
           LosesResponse, CreateStops,
          TakesBack, RecordFails, RecordGroup, DropRecords
      <3> QED
        BY <3>2 DEF Follows
    <2> QED
      BY <2>1, <2>2, FromRecord, FromUndoing DEF Tracked
  <1> QED
    BY <1>1, <1>2

LEMMA TrackedStep ==
  ASSUME Base, Owned, Tracked, [Next]_vars
  PROVE  Tracked'
  <1>1. CASE UNCHANGED vars
    BY <1>1 DEF vars, round, upstream, counters, Tracked, RecordsUnderGuard, GoneIsGone,
       EachWasMade, Made,
      LiveIsKnown, Undoes, KeepsTrack, FailsTwice, world
  <1>2. CASE Next
    <2>1. Base' /\ Owned'
      BY <1>2, BaseStep, OwnedStep
    <2> QED
      BY <1>2, <2>1, RecordsStep, GoneStep, EachWasMadeStep, KnownStep DEF Tracked
  <1> QED
    BY <1>1, <1>2

LEMMA TrackedInit == Init => Tracked
  BY DEF Init, Idle, Tracked, RecordsUnderGuard, GoneIsGone, EachWasMade, Made, LiveIsKnown, Undoes

(* The groups a ready round names exist, and no group stays at puretrack.io *)
(* that neither a record nor the round names once all is quiet, however the *)
(* invocations overtake one another (cleanupInvocationGroups,               *)
(* deleteAuthoritativeGroups, deletePureTrackGroups).                            *)
THEOREM GroupsStayKnown == Spec => []GroupsAreKnown
  <1>1. Init => Kept /\ Tracked
    BY KeptInit, TrackedInit
  <1>2. Base /\ Owned /\ Kept /\ Tracked /\ [Next]_vars => (Kept /\ Tracked)'
    BY KeptStep, TrackedStep
  <1>3. Kept /\ Tracked => GroupsAreKnown
    BY DEF Kept, Tracked, LiveIsKnown, Undoes, GroupsAreKnown, NoGroupLeaks
  <1> QED
    BY <1>1, <1>2, <1>3, OwnedAlways, PTL DEF Spec

-----------------------------------------------------------------------------
(* The refinement. *)

LEMMA RefinesInit == Init => A!Init
  BY DEF Init, NoAttempt, A!Init, A!AttemptIds

LEMMA RefinesStep ==
  ASSUME Base, Owned, [Next]_vars
  PROVE  [A!Next]_A!vars
  <1>0. /\ pt \in [status : {"none", "pending", "processing", "ready", "failed"},
                   attempt : 0 .. MaxAttempts, owner : Nat]
        /\ pt.attempt = 0 <=> pt.status = "none"
        /\ \A w \in Workers : Finite(w)
    BY DEF Base, TypeOK, Owned, StatusOfAnAttempt, Invocation, HasMade
  <1>1. CASE UNCHANGED vars
    BY <1>1 DEF vars, round, counters, A!vars
  <1>2. CASE PtKept /\ attempts' = attempts
    BY <1>2 DEF PtKept, A!vars
  <1>3. CASE PtForgotten /\ attempts' = attempts
    <2>1. A!Cancel
      BY <1>3 DEF PtForgotten, NoAttempt, A!Cancel
    <2> QED
      BY <2>1 DEF A!Next
  <1>4. CASE PtStarted
    <2>1. A!Start
      BY <1>4 DEF PtStarted, A!Start
    <2> QED
      BY <2>1 DEF A!Next
  <1>5. CASE PtMoved /\ attempts' = attempts
    <2>1. pt'.attempt = pt.attempt /\ pt.attempt # 0
      BY <1>0, <1>5 DEF PtMoved, PtMoves
    <2>2. \/ pt.status = "processing" /\ pt'.status = "pending"
          \/ pt.status \in {"pending", "processing"} /\ pt'.status = "failed"
      BY <1>0, <1>5 DEF PtMoved, PtMoves
    <2>3. A!GiveBack \/ A!Fail
      BY <1>5, <2>1, <2>2 DEF A!GiveBack, A!Fail, A!Becomes
    <2> QED
      BY <2>3 DEF A!Next
  <1>6. ASSUME NEW w \in Workers, attempts' = attempts, PtClaimed(w)
        PROVE  [A!Next]_A!vars
    <2>1. /\ pt'.attempt = pt.attempt /\ pt.attempt # 0 /\ pt'.status = "processing"
          /\ pt.status \in {"pending", "processing"}
      BY <1>0, <1>6 DEF PtClaimed, Busy
    <2>2. CASE pt.status = "pending"
      <3>1. A!Claim
        BY <1>6, <2>1, <2>2 DEF A!Claim, A!Becomes
      <3> QED
        BY <3>1 DEF A!Next
    <2>3. CASE pt.status = "processing"
      BY <1>6, <2>1, <2>3 DEF A!vars
    <2> QED
      BY <2>1, <2>2, <2>3
  <1>7. ASSUME NEW w \in Workers, attempts' = attempts, PtCommitted(w)
        PROVE  [A!Next]_A!vars
    <2>1. /\ pt'.attempt = pt.attempt /\ pt.attempt # 0 /\ pt'.status = "ready"
          /\ pt.status = "processing"
      BY <1>0, <1>7 DEF PtCommitted, OwnsAttempt
    <2>2. A!Succeed
      BY <1>7, <2>1 DEF A!Succeed, A!Becomes
    <2> QED
      BY <2>2 DEF A!Next
  <1>8. ASSUME NEW w \in Workers, attempts' = attempts, PtSkipped(w)
        PROVE  [A!Next]_A!vars
    <2>1. /\ pt'.attempt = pt.attempt /\ pt.attempt # 0 /\ pt'.status = "ready"
          /\ pt.status = "processing"
      BY <1>0, <1>8 DEF PtSkipped, OwnsAttempt
    <2>2. A!Succeed
      BY <1>8, <2>1 DEF A!Succeed, A!Becomes
    <2> QED
      BY <2>2 DEF A!Next
  <1> QED
    BY <1>0, <1>1, <1>2, <1>3, <1>4, <1>5, <1>6, <1>7, <1>8, RoundStep DEF PtQuiet, Base

(* The groups of a round keep the promises of Attempts, whatever crashes,  *)
(* stalls or is delivered again, for any number of invocations, attempts   *)
(* and faults (setPureTrackStatus, commitPureTrackReady).                  *)
THEOREM Refinement == Spec => ImplementsAttempts
  <1> QED
    BY RefinesInit, RefinesStep, OwnedAlways, PTL DEF Spec, ImplementsAttempts, A!Spec
=============================================================================
