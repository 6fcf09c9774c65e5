-------------------------- MODULE PureTrackGroups --------------------------
(***************************************************************************)
(* The PureTrack groups of one round.  A lock, or a coordinator, starts an *)
(* attempt by writing it into the round and queueing a job; workers, which *)
(* a global guard blob lets in one at a time, delete the groups the round  *)
(* had, create new ones at puretrack.io and commit them to the round.  An  *)
(* administrator may delete groups under the same guard.                   *)
(*                                                                         *)
(* Each read-modify-write of the round runs under its lease and is one     *)
(* action.  What lasts is the guard, the blobs that record groups, and     *)
(* puretrack.io, none of which can be changed together with the round.     *)
(***************************************************************************)
EXTENDS Integers, FiniteSets

CONSTANTS
  Workers,      \* concurrent invocations: queue workers and administrators
  Worlds,       \* BOUND: sets of kinds of fault that may happen together; "overrun": an
                \* invocation may outlive its time limit, and its guard go stale;
                \* "delete": administrators delete groups; "disabled": some hosts run
                \* with PURETRACK_ENABLED=false
  MaxDequeue,   \* deliveries of a message before it is poison
  MaxAttempts,  \* BOUND: attempts
  MaxFaults,    \* BOUND: faults
  MaxDeletes,   \* BOUND: deletions by administrators
  GroupsPerRun  \* the groups an attempt makes: one of the round, one a team

ASSUME PureTrackAssumption ==
  /\ UNION Worlds \subseteq {"crash", "upstream", "lostResponse", "record", "status",
                             "lostCommit", "lostRequest", "lostSend", "stall", "overrun", "delete",
                             "disabled"}
  /\ {MaxDequeue, GroupsPerRun} \subseteq Nat \ {0}
  /\ {MaxAttempts, MaxFaults, MaxDeletes} \subseteq Nat

VARIABLES
  locked,    \* the round is Locked or Complete
  pt,        \* round.pureTrack
  echo,      \* the groups the round document names
  records,   \* the groups with a blob in puretrack-groups/
  live,      \* the groups that exist at puretrack.io
  guard,     \* the owner token in the guard blob; 0 when there is no blob
  unsent,    \* attempts written to the round whose job is not queued yet
  queue,     \* messages waiting: an attempt and its deliveries so far
  poison,    \* attempts whose message was given up by the host
  run,       \* what each invocation is doing
  tokens,    \* owner tokens drawn so far
  attempts,  \* attempts started so far
  deletes,   \* deletions by administrators so far
  skipped,   \* history: the owner tokens under which a host that has PureTrack disabled
             \* made an attempt ready
  faults     \* the kinds of fault that may happen, and how many have

round == <<locked, pt, echo>>
upstream == <<records, live>>
messages == <<unsent, queue, poison>>
counters == <<tokens, attempts, deletes, skipped, faults>>
vars == <<round, upstream, guard, messages, run, counters>>

-----------------------------------------------------------------------------
NoAttempt == [status |-> "none", attempt |-> 0, owner |-> 0]
Busy(a) == pt.attempt = a /\ pt.status \in {"pending", "processing"}
Messages == [attempt : 1 .. MaxAttempts, count : 0 .. MaxDequeue - 1]

(* A group is known by the attempt and the invocation that made it. *)
Groups == [attempt : Nat, token : Nat, n : Nat]

(* attempt 0 is an administrator's deletion; "then" is what follows the   *)
(* deletion of groups that is under way.                                  *)
Idle == [pc |-> "idle", attempt |-> 0, count |-> 0, token |-> 0, then |-> "release",
         todo |-> {}, gone |-> {}, made |-> {}, claimed |-> FALSE, retry |-> FALSE,
         holds |-> TRUE]

Runs == [pc : {"idle", "acquire", "requeued", "claim", "purge", "delete", "clear", "drop", "create",
               "record", "renew", "commit", "failed", "release"},
         attempt : Nat, count : 0 .. MaxDequeue, token : Nat,
         then : {"create", "failed", "release"},
         todo : SUBSET Groups, gone : SUBSET Groups, made : SUBSET Groups,
         claimed : BOOLEAN, retry : BOOLEAN, holds : BOOLEAN]

TypeOK ==
  /\ locked \in BOOLEAN
  /\ pt \in [status : {"none", "pending", "processing", "ready", "failed"},
             attempt : 0 .. MaxAttempts, owner : Nat]
  /\ echo \subseteq Groups /\ records \subseteq Groups /\ live \subseteq Groups
  /\ guard \in Nat
  /\ unsent \subseteq 1 .. MaxAttempts /\ poison \subseteq 1 .. MaxAttempts
  /\ queue \subseteq Messages
  /\ run \in [Workers -> Runs]
  /\ skipped \subseteq Nat
  /\ tokens \in Nat /\ attempts \in 0 .. MaxAttempts /\ deletes \in 0 .. MaxDeletes
  /\ faults \in [kinds : Worlds, count : 0 .. MaxFaults]

world == faults.kinds

Fault(kind) ==
  /\ kind \in world
  /\ faults.count < MaxFaults
  /\ faults' = [faults EXCEPT !.count = @ + 1]
NoFault == UNCHANGED faults

-----------------------------------------------------------------------------
(* The round and its requests.                                             *)

Starts(a) ==
  /\ attempts < MaxAttempts
  /\ a = attempts + 1
  /\ attempts' = a
  /\ pt' = [status |-> "pending", attempt |-> a, owner |-> 0]
  /\ unsent' = unsent \union {a}
  /\ UNCHANGED <<upstream, guard, queue, poison, run, tokens, deletes, skipped, faults>>

(* The lock forgets the groups without deleting them; their records stay. *)
Lock ==
  /\ ~locked
  /\ locked' = TRUE
  /\ echo' = {}
  /\ Starts(attempts + 1)

Unlock ==
  /\ locked
  /\ pt.status \notin {"pending", "processing"}
  /\ locked' = FALSE
  /\ pt' = NoAttempt
  /\ echo' = {}
  /\ UNCHANGED <<upstream, guard, messages, run, counters>>

(* pureTrack.updatedAt is 12 minutes old.  An invocation is killed after  *)
(* 10, so that none of the attempt is still running.                      *)
StaleAttempt ==
  "overrun" \in world \/ \A w \in Workers : run[w].pc = "idle" \/ run[w].attempt # pt.attempt

CreateGroups ==
  /\ locked
  /\ Busy(pt.attempt) => StaleAttempt
  /\ Starts(attempts + 1)
  /\ UNCHANGED <<locked, echo>>

Send(a) ==
  /\ a \in unsent
  /\ unsent' = unsent \ {a}
  /\ queue' = queue \union {[attempt |-> a, count |-> 0]}
  /\ UNCHANGED <<round, upstream, guard, poison, run, counters>>

SetsStatus(from, to) ==
  pt' = IF pt.status \in from THEN [pt EXCEPT !.status = to] ELSE pt

(* The queue refuses the job: the attempt fails at once... *)
SendFails(a) ==
  /\ a \in unsent
  /\ Fault("lostSend")
  /\ unsent' = unsent \ {a}
  /\ IF pt.attempt = a THEN SetsStatus({"pending", "processing"}, "failed") ELSE UNCHANGED pt
  /\ UNCHANGED <<locked, echo, upstream, guard, queue, poison, run, tokens, attempts, deletes, skipped>>

(* ...or the request dies before it can queue or mark anything. *)
RequestDies(a) ==
  /\ a \in unsent
  /\ Fault("lostRequest")
  /\ unsent' = unsent \ {a}
  /\ UNCHANGED <<round, upstream, guard, queue, poison, run, tokens, attempts, deletes, skipped>>

-----------------------------------------------------------------------------
(* The worker: taking a message and the guard.                             *)

Message(w) == [attempt |-> run[w].attempt, count |-> run[w].count]

(* An invocation ends without being done with its message: the message goes *)
(* back, to the poison queue in the end, unless it did so already.          *)
GivesBack(w) ==
  IF ~run[w].holds THEN UNCHANGED <<queue, poison>>
  ELSE IF run[w].count < MaxDequeue
       THEN queue' = queue \union {Message(w)} /\ UNCHANGED poison
       ELSE poison' = poison \union {run[w].attempt} /\ UNCHANGED queue

Dequeue(w, m) ==
  /\ run[w].pc = "idle"
  /\ m \in queue
  /\ queue' = queue \ {m}
  /\ IF pt.attempt = m.attempt /\ pt.status # "ready"
     THEN run' = [run EXCEPT ![w] = [Idle EXCEPT !.pc = "acquire", !.attempt = m.attempt,
                                                 !.count = m.count + 1]]
     ELSE UNCHANGED run
  /\ UNCHANGED <<round, upstream, guard, unsent, poison, counters>>

(* Mutant: a guard is never given up as stale. *)
NeverStale == FALSE

(* The guard blob is 12 minutes old. *)
StaleGuard ==
  /\ guard # 0
  /\ "overrun" \in world \/ \A w \in Workers : run[w].token # guard

(* An administrator chooses groups from the live list. *)
AdminDelete(w, groups) ==
  /\ run[w].pc = "idle"
  /\ guard = 0 \/ StaleGuard
  /\ groups # {}
  /\ "delete" \in world /\ deletes < MaxDeletes
  /\ deletes' = deletes + 1
  /\ tokens' = tokens + 1
  /\ guard' = tokens'
  /\ run' = [run EXCEPT ![w] = [Idle EXCEPT !.pc = "delete", !.token = tokens',
                                            !.todo = groups \intersect live,
                                            !.gone = groups \ live]]
  /\ UNCHANGED <<round, upstream, messages, attempts, skipped, faults>>

Acquires(w) ==
  /\ run[w].pc = "acquire"
  /\ tokens' = tokens + 1
  /\ guard' = tokens'
  /\ run' = [run EXCEPT ![w].pc = "claim", ![w].token = tokens']
  /\ UNCHANGED <<round, upstream, messages, attempts, deletes, skipped, faults>>

Acquire(w) == guard = 0 /\ Acquires(w)
TakeOver(w) == StaleGuard /\ Acquires(w)

(* The guard is taken: the last delivery leaves a fresh message behind. *)
Contended(w) ==
  /\ run[w].pc = "acquire"
  /\ guard # 0
  /\ IF run[w].count < MaxDequeue
     THEN /\ GivesBack(w)
          /\ run' = [run EXCEPT ![w] = Idle]
     ELSE /\ queue' = queue \union {[attempt |-> run[w].attempt, count |-> 0]}
          /\ run' = [run EXCEPT ![w].pc = "requeued"]
          /\ UNCHANGED poison
  /\ UNCHANGED <<round, upstream, guard, unsent, counters>>

Requeued(w) ==
  /\ run[w].pc = "requeued"
  /\ run' = [run EXCEPT ![w] = Idle]
  /\ UNCHANGED <<round, upstream, guard, messages, counters>>

Claim(w) ==
  /\ run[w].pc = "claim"
  /\ IF Busy(run[w].attempt)
     THEN /\ pt' = [pt EXCEPT !.status = "processing", !.owner = run[w].token]
          /\ run' = [run EXCEPT ![w].pc = "purge", ![w].claimed = TRUE]
     ELSE /\ run' = [run EXCEPT ![w].pc = "release"]
          /\ UNCHANGED pt
  /\ UNCHANGED <<locked, echo, upstream, guard, messages, counters>>

ClaimFails(w) ==
  /\ run[w].pc = "claim"
  /\ Fault("status")
  /\ run' = [run EXCEPT ![w].pc = "failed"]
  /\ UNCHANGED <<round, upstream, guard, messages, tokens, attempts, deletes, skipped>>

HoldsGuard(w) == guard = run[w].token
IsCurrent(w) == pt.attempt = run[w].attempt

(* Mutant: the commit looks at the attempt and not at its owner. *)
OwnsAttemptLoosely(w) == IsCurrent(w) /\ pt.status = "processing"

OwnsAttempt(w) == IsCurrent(w) /\ pt.owner = run[w].token /\ pt.status = "processing"

(* The host has PureTrack disabled: the attempt is ready as it is, with the *)
(* groups the round names, those of earlier attempts, left alone.           *)
Skips(w, then) ==
  /\ run[w].pc = "purge" /\ "disabled" \in world
  /\ IF OwnsAttempt(w)
     THEN /\ pt' = [pt EXCEPT !.status = "ready"]
          /\ skipped' = skipped \union {run[w].token}
     ELSE UNCHANGED <<pt, skipped>>
  /\ run' = [run EXCEPT ![w].pc = then]
  /\ UNCHANGED <<locked, echo, upstream, guard, messages, tokens, attempts, deletes>>

Skip(w) == NoFault /\ Skips(w, "release")

(* The write of the round fails, or its success is not heard of. *)
SkipFails(w) ==
  \/ Fault("lostCommit") /\ Skips(w, "failed")
  \/ /\ run[w].pc = "purge" /\ "disabled" \in world
     /\ Fault("status")
     /\ run' = [run EXCEPT ![w].pc = "failed"]
     /\ UNCHANGED <<round, upstream, guard, messages, tokens, attempts, deletes, skipped>>

-----------------------------------------------------------------------------
(* The worker: deleting groups, at first those of earlier attempts.        *)

(* Mutant: the fence looks at the attempt and not at the guard. *)
MayCallUnguarded(w) == run[w].then = "create" => IsCurrent(w)

(* beforeOutbound, and beforeCleanup for groups of the invocation itself. *)
MayCall(w) ==
  /\ HoldsGuard(w)
  /\ run[w].then = "create" => IsCurrent(w)

Purge(w) ==
  /\ run[w].pc = "purge"
  /\ LET authoritative == echo \union records IN
       run' = [run EXCEPT ![w].pc = "delete", ![w].then = "create",
                          ![w].todo = authoritative \intersect live,
                          ![w].gone = authoritative \ live]
  /\ UNCHANGED <<round, upstream, guard, messages, counters>>

(* The fence or puretrack.io refuses before anything is deleted. *)
PurgeFails(w) ==
  /\ run[w].pc = "purge"
  /\ IF HoldsGuard(w) /\ IsCurrent(w) THEN Fault("upstream") ELSE NoFault
  /\ run' = [run EXCEPT ![w].pc = "failed"]
  /\ UNCHANGED <<round, upstream, guard, messages, tokens, attempts, deletes, skipped>>

DeleteGroup(w, g) ==
  /\ run[w].pc = "delete"
  /\ g \in run[w].todo   \* perhaps gone already: 404 and 410 count as deleted
  /\ MayCall(w)
  /\ live' = live \ {g}
  /\ run' = [run EXCEPT ![w].todo = @ \ {g}, ![w].gone = @ \union {g}]
  /\ UNCHANGED <<round, records, guard, messages, counters>>

(* The fence or puretrack.io refuses: only what is gone is cleared. *)
DeleteStops(w) ==
  /\ run[w].pc = "delete"
  /\ run[w].todo # {}
  /\ IF MayCall(w) THEN Fault("upstream") ELSE NoFault
  /\ run' = [run EXCEPT ![w].pc = "clear", ![w].then = "failed", ![w].todo = {}]
  /\ UNCHANGED <<round, upstream, guard, messages, tokens, attempts, deletes, skipped>>

DeleteEnds(w) ==
  /\ run[w].pc = "delete"
  /\ run[w].todo = {}
  /\ run' = [run EXCEPT ![w].pc = "clear"]
  /\ UNCHANGED <<round, upstream, guard, messages, counters>>

(* mutatePureTrackEchoes: a worker for its own attempt only; an            *)
(* administrator also forgets the attempt, whatever it is doing.           *)
Clear(w) ==
  /\ run[w].pc = "clear"
  /\ IF run[w].attempt = 0
     THEN /\ echo' = echo \ run[w].gone
          /\ pt' = IF echo' # echo THEN NoAttempt ELSE pt
     ELSE /\ echo' = IF IsCurrent(w) THEN echo \ run[w].gone ELSE echo
          /\ UNCHANGED pt
  /\ run' = [run EXCEPT ![w].pc = "drop"]
  /\ UNCHANGED <<locked, upstream, guard, messages, counters>>

ClearFails(w) ==
  /\ run[w].pc = "clear"
  /\ Fault("status")
  /\ run' = [run EXCEPT ![w].pc = "failed"]
  /\ UNCHANGED <<round, upstream, guard, messages, tokens, attempts, deletes, skipped>>

DropRecords(w) ==
  /\ run[w].pc = "drop"
  /\ records' = records \ run[w].gone
  /\ run' = [run EXCEPT ![w].pc = IF run[w].then = "create" /\ ~HoldsGuard(w)
                                  THEN "failed" ELSE run[w].then]
  /\ UNCHANGED <<round, live, guard, messages, counters>>

-----------------------------------------------------------------------------
(* The worker: creating groups and committing them.                        *)

(* cleanupInvocationGroups with the groups this invocation has made. *)
CleansUp(w, then) ==
  run' = [run EXCEPT ![w].pc = IF run[w].made = {} THEN then ELSE "delete",
                     ![w].then = then, ![w].todo = run[w].made, ![w].gone = {}]

NextGroup(w) ==
  [attempt |-> run[w].attempt, token |-> run[w].token, n |-> Cardinality(run[w].made) + 1]

CreateGroup(w) ==
  /\ run[w].pc = "create"
  /\ MayCall(w)
  /\ Cardinality(run[w].made) < GroupsPerRun
  /\ live' = live \union {NextGroup(w)}
  /\ run' = [run EXCEPT ![w].pc = "record", ![w].made = @ \union {NextGroup(w)}]
  /\ UNCHANGED <<round, records, guard, messages, counters>>

RecordGroup(w) ==
  /\ run[w].pc = "record"
  /\ records' = records \union run[w].made
  /\ run' = [run EXCEPT ![w].pc = "create"]
  /\ UNCHANGED <<round, live, guard, messages, counters>>

(* The record cannot be written: the group is deleted again, if that works. *)
RecordFails(w) ==
  /\ run[w].pc = "record"
  /\ Fault("record")
  /\ \/ MayCall(w) /\ live' = live \ (run[w].made \ records)
     \/ UNCHANGED live
  /\ CleansUp(w, "failed")
  /\ UNCHANGED <<round, records, guard, messages, tokens, attempts, deletes, skipped>>

(* The fence stops the creation, or puretrack.io refuses to create or to   *)
(* import; a response that is lost leaves a group nobody knows.            *)
CreateStops(w) ==
  /\ run[w].pc = "create"
  /\ \/ ~MayCall(w) /\ NoFault /\ UNCHANGED live
     \/ Fault("upstream") /\ UNCHANGED live
     \/ /\ MayCall(w)
        /\ Cardinality(run[w].made) < GroupsPerRun
        /\ Fault("lostResponse")
        /\ live' = live \union {NextGroup(w)}
  /\ CleansUp(w, "failed")
  /\ UNCHANGED <<round, records, guard, messages, tokens, attempts, deletes, skipped>>

(* All groups are there, or nobody in the round has a PureTrack id. *)
CreateEnds(w) ==
  /\ run[w].pc = "create"
  /\ Cardinality(run[w].made) \in {0, GroupsPerRun}
  /\ run' = [run EXCEPT ![w].pc = "renew"]
  /\ UNCHANGED <<round, upstream, guard, messages, counters>>

Renew(w) ==
  /\ run[w].pc = "renew"
  /\ IF HoldsGuard(w)
     THEN run' = [run EXCEPT ![w].pc = "commit"]
     ELSE CleansUp(w, "failed")
  /\ UNCHANGED <<round, upstream, guard, messages, counters>>

Commit(w) ==
  /\ run[w].pc = "commit"
  /\ IF OwnsAttempt(w)
     THEN /\ pt' = [pt EXCEPT !.status = "ready"]
          /\ echo' = run[w].made
          /\ run' = [run EXCEPT ![w].pc = "release"]
     ELSE /\ CleansUp(w, "release")
          /\ UNCHANGED <<pt, echo>>
  /\ UNCHANGED <<locked, upstream, guard, messages, counters>>

(* The write of the round fails, or its success is not heard of. *)
CommitFails(w) ==
  /\ run[w].pc = "commit"
  /\ \/ Fault("status") /\ UNCHANGED <<pt, echo>>
     \/ /\ OwnsAttempt(w)
        /\ Fault("lostCommit")
        /\ pt' = [pt EXCEPT !.status = "ready"]
        /\ echo' = run[w].made
  /\ CleansUp(w, "failed")
  /\ UNCHANGED <<locked, upstream, guard, messages, tokens, attempts, deletes, skipped>>

-----------------------------------------------------------------------------
(* The worker: its end.                                                    *)

IsOwner(w) == pt.owner = run[w].token

(* Mutant: the last failure is recorded whatever the status is. *)
MarkFailedAlways(w) ==
  /\ run[w].pc = "failed"
  /\ IF run[w].attempt = 0 \/ ~IsCurrent(w)
     THEN UNCHANGED pt
     ELSE IF run[w].count < MaxDequeue
          THEN IF IsOwner(w) THEN SetsStatus({"processing"}, "pending") ELSE UNCHANGED pt
          ELSE IF run[w].claimed => IsOwner(w)
               THEN SetsStatus({"pending", "processing", "ready"}, "failed")
               ELSE UNCHANGED pt
  /\ run' = [run EXCEPT ![w].pc = "release",
                        ![w].retry = run[w].attempt # 0 /\ run[w].count < MaxDequeue]
  /\ UNCHANGED <<locked, echo, upstream, guard, messages, counters>>

(* Only on the last delivery may an invocation speak that never claimed. *)
MarkFailed(w) ==
  /\ run[w].pc = "failed"
  /\ IF run[w].attempt = 0 \/ ~IsCurrent(w)
     THEN UNCHANGED pt
     ELSE IF run[w].count < MaxDequeue
          THEN IF IsOwner(w) THEN SetsStatus({"processing"}, "pending") ELSE UNCHANGED pt
          ELSE IF run[w].claimed => IsOwner(w)
               THEN SetsStatus({"pending", "processing"}, "failed")
               ELSE UNCHANGED pt
  /\ run' = [run EXCEPT ![w].pc = "release",
                        ![w].retry = run[w].attempt # 0 /\ run[w].count < MaxDequeue]
  /\ UNCHANGED <<locked, echo, upstream, guard, messages, counters>>

MarkFails(w) ==
  /\ run[w].pc = "failed"
  /\ run[w].attempt # 0
  /\ Fault("status")
  /\ run' = [run EXCEPT ![w].pc = "release", ![w].retry = TRUE]
  /\ UNCHANGED <<round, upstream, guard, messages, tokens, attempts, deletes, skipped>>

Release(w) ==
  /\ run[w].pc = "release"
  /\ guard' = IF HoldsGuard(w) THEN 0 ELSE guard
  /\ IF run[w].retry
     THEN GivesBack(w)
     ELSE UNCHANGED <<queue, poison>>
  /\ run' = [run EXCEPT ![w] = Idle]
  /\ UNCHANGED <<round, upstream, unsent, counters>>

(* The host dies or reaches its time limit: the message comes again. *)
Crash(w) ==
  /\ run[w].pc # "idle"
  /\ Fault("crash")
  /\ run' = [run EXCEPT ![w] = Idle]
  /\ IF run[w].attempt # 0
     THEN GivesBack(w)
     ELSE UNCHANGED <<queue, poison>>
  /\ UNCHANGED <<round, upstream, guard, unsent, tokens, attempts, deletes, skipped>>

(* A host that is stalled stops renewing its hold of the message, which    *)
(* comes again while the invocation goes on.                               *)
Stall(w) ==
  /\ "overrun" \in world
  /\ run[w].pc # "idle" /\ run[w].attempt # 0 /\ run[w].holds
  /\ Fault("stall")
  /\ GivesBack(w)
  /\ run' = [run EXCEPT ![w].holds = FALSE]
  /\ UNCHANGED <<round, upstream, guard, unsent, tokens, attempts, deletes, skipped>>

HandlePoison(a) ==
  /\ a \in poison
  /\ poison' = poison \ {a}
  /\ IF pt.attempt = a THEN SetsStatus({"pending", "processing"}, "failed") ELSE UNCHANGED pt
  /\ UNCHANGED <<locked, echo, upstream, guard, unsent, queue, run, counters>>

-----------------------------------------------------------------------------
Init ==
  /\ locked = FALSE /\ pt = NoAttempt /\ echo = {}
  /\ records = {} /\ live = {}
  /\ guard = 0
  /\ unsent = {} /\ queue = {} /\ poison = {}
  /\ run = [w \in Workers |-> Idle]
  /\ tokens = 0 /\ attempts = 0 /\ deletes = 0 /\ skipped = {}
  /\ faults \in [kinds : Worlds, count : {0}]

Requests ==
  \/ Lock \/ Unlock \/ CreateGroups
  \/ \E w \in Workers, groups \in SUBSET live : AdminDelete(w, groups)

(* The steps an invocation takes when nothing goes wrong with its host. *)
Proceeds(w) ==
  \/ Acquire(w) \/ Contended(w) \/ Requeued(w) \/ Claim(w) \/ Skip(w)
  \/ Purge(w) \/ (\E g \in run[w].todo : DeleteGroup(w, g)) \/ DeleteStops(w) \/ DeleteEnds(w)
  \/ Clear(w) \/ DropRecords(w)
  \/ CreateGroup(w) \/ RecordGroup(w) \/ CreateStops(w) \/ CreateEnds(w)
  \/ Renew(w) \/ Commit(w) \/ MarkFailed(w) \/ Release(w)

Fails(w) ==
  \/ ClaimFails(w) \/ SkipFails(w) \/ PurgeFails(w) \/ ClearFails(w) \/ RecordFails(w)
  \/ CommitFails(w) \/ MarkFails(w) \/ Crash(w) \/ Stall(w)

Deliver(a) == \E w \in Workers, m \in {m \in queue : m.attempt = a} : Dequeue(w, m)

(* Nothing is under way, and the bounds may allow nothing more. *)
AtRest ==
  /\ unsent = {} /\ queue = {} /\ poison = {}
  /\ \A w \in Workers : run[w].pc = "idle"
  /\ UNCHANGED vars

Next ==
  \/ Requests
  \/ AtRest
  \/ \E a \in 1 .. MaxAttempts : \/ Send(a) \/ SendFails(a) \/ RequestDies(a)
                                 \/ Deliver(a) \/ HandlePoison(a)
  \/ \E w \in Workers : TakeOver(w) \/ Proceeds(w) \/ Fails(w)

Spec == Init /\ [][Next]_vars

(* The queue delivers every message, the host runs what it has started and *)
(* a guard left behind goes stale; users and faults owe nothing.           *)
Fairness ==
  /\ \A a \in 1 .. MaxAttempts :
       WF_vars(Send(a)) /\ SF_vars(Deliver(a)) /\ WF_vars(HandlePoison(a))
  /\ \A w \in Workers : WF_vars(Proceeds(w)) /\ SF_vars(TakeOver(w))

FairSpec == Spec /\ Fairness

-----------------------------------------------------------------------------
(* Properties.                                                             *)

(* A ready round names groups of its current attempt and of the invocation *)
(* that owns it, never those of an attempt a later lock replaced or of a   *)
(* worker whose guard was taken over (commitPureTrackReady).  Only when    *)
(* the owner found PureTrack disabled may a round that is ready name       *)
(* groups of earlier attempts, and then it names no others.                *)
EchoIsCurrent ==
  pt.status = "ready" =>
    \A g \in echo : IF pt.owner \in skipped THEN g.attempt < pt.attempt
                    ELSE g.attempt = pt.attempt /\ g.token = pt.owner

(* The groups a ready round names exist at puretrack.io: no late cleanup    *)
(* and no purge takes away what another invocation has committed.  Apart   *)
(* stand an administrator's deletion, which may stop halfway, a commit     *)
(* that succeeded but was not heard of, which is followed by a cleanup,    *)
(* and an owner that found PureTrack disabled, perhaps after an invocation *)
(* of the attempt died between a group's deletion and its clearing.        *)
ReadyGroupsExist ==
  pt.status = "ready" /\ deletes = 0 /\ "lostCommit" \notin world /\ pt.owner \notin skipped
    => echo \subseteq live

(* When no invocation is at work, every group at puretrack.io is recorded *)
(* for the round or named by it, so that the next attempt deletes it.     *)
(* Beyond the code are a host that dies, or a response that is lost,      *)
(* between the creation of a group and its record, and a record that      *)
(* cannot be written of a group that cannot be deleted either.            *)
KeepsTrack == world \intersect {"crash", "lostResponse", "overrun"} = {}
FailsTwice == {"record", "upstream"} \subseteq world /\ faults.count > 1

NoGroupLeaks ==
  (\A w \in Workers : run[w].pc = "idle") /\ KeepsTrack /\ ~FailsTwice
    => live \subseteq records \union echo

(* The groups at puretrack.io and those the system knows of are the same.  *)
GroupsAreKnown == ReadyGroupsExist /\ NoGroupLeaks

(* What the round shows of its groups is that of Attempts; nothing is      *)
(* announced.                                                              *)
A == INSTANCE Attempts WITH
  started <- attempts,
  current <- pt.attempt,
  status <- pt.status,
  due <- {},
  announced <- [a \in 1 .. MaxAttempts |-> 0]

(* The groups of a round keep the promises of Attempts: a ready round      *)
(* stays ready until it is unlocked, made anew or cleared by an            *)
(* administrator, and no attempt that was replaced comes back, though an   *)
(* invocation whose guard was taken over goes on (setPureTrackStatus,      *)
(* commitPureTrackReady, clearDeletedPureTrackState).                      *)
ImplementsAttempts == A!Spec

(* Requests live to queue their jobs, and invocations keep their time limit. *)
KeepsTime == world \intersect {"overrun", "lostRequest"} = {}

(* Every attempt comes to an end. *)
AttemptsEnd == \A a \in 1 .. MaxAttempts : Busy(a) /\ KeepsTime ~> ~Busy(a)
=============================================================================
