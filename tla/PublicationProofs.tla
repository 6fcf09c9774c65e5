--------------------------- MODULE PublicationProofs ---------------------------
(***************************************************************************)
(* Proofs about what the public sees of a season, for every number of      *)
(* hosts, rounds, writes and faults: when all is quiet, the league and the *)
(* results count every completed round as it stands, and the index shows   *)
(* every round as it stands, under the conditions the properties name.     *)
(***************************************************************************)
EXTENDS Publication, TLAPS

-----------------------------------------------------------------------------
(* Types.                                                                  *)

Task == [round : Rounds, version : Versions, host : Hosts,
         pc : {"write", "append", "leased", "fallback", "publish", "recompute"},
         season : Seasons, admin : BOOLEAN]
Pass == [pc : {"idle", "lock", "rounds", "results", "index", "copy"},
         listed : SUBSET Rounds, unread : SUBSET Rounds,
         table : [Rounds -> Versions], dirty : BOOLEAN]

Types ==
  /\ record \in [Rounds -> Versions] /\ season \in Seasons
  /\ results \in [Rounds -> Versions] /\ index \in [Rounds -> Versions]
  /\ created \subseteq Rounds /\ tasks \subseteq Task
  /\ writer \in Rounds \union {None}
  /\ lock \in Hosts \union {None} /\ builder \in Hosts \union {None}
  /\ pass \in [Hosts -> Pass]
  /\ faults \in [kinds : Worlds, count : 0 .. MaxFaults]

(* A host without a pass has no wish for another, and what is still to be  *)
(* read is listed.                                                         *)
Passes ==
  \A h \in Hosts :
    /\ pass[h].pc = "idle" => pass[h] = NoPass
    /\ pass[h].unread \subseteq pass[h].listed

LEMMA ConstantTypes ==
  /\ None \notin Hosts /\ None \notin Rounds
  /\ MaxVersion \in Nat /\ MaxVersion > 0 /\ MaxFaults \in Nat
  /\ Versions \subseteq Nat /\ 0 \in Versions /\ 1 \in Versions
  /\ Nothing \in [Rounds -> Versions]
  /\ NoPass \in Pass /\ NoPass.pc = "idle" /\ NoPass.dirty = FALSE /\ NoPass.unread = {}
  /\ NoSeason \in Seasons
<1>1. /\ None \notin Hosts /\ None \notin Rounds
      /\ MaxVersion \in Nat /\ MaxVersion > 0 /\ MaxFaults \in Nat
  BY PublicationAssumption
<1>2. Versions \subseteq Nat /\ 0 \in Versions /\ 1 \in Versions
  BY <1>1 DEF Versions
<1>3. Nothing \in [Rounds -> Versions]
  BY <1>2 DEF Nothing
<1>4. NoPass \in Pass /\ NoPass.pc = "idle" /\ NoPass.dirty = FALSE /\ NoPass.unread = {}
  BY <1>3 DEF NoPass, Pass
<1>5. NoSeason \in Seasons
  BY <1>3 DEF NoSeason, Seasons
<1>. QED
  BY <1>1, <1>2, <1>3, <1>4, <1>5

LEMMA FaultIs ==
  ASSUME Types, NEW kind, Fault(kind)
  PROVE  /\ kind \in world /\ world' = world
         /\ faults' \in [kinds : Worlds, count : 0 .. MaxFaults]
<1>1. /\ kind \in world /\ faults.count < MaxFaults
      /\ faults' = [faults EXCEPT !.count = @ + 1]
  BY DEF Fault
<1>2. faults.count + 1 \in 0 .. MaxFaults
  BY <1>1, ConstantTypes DEF Types
<1>. QED
  BY <1>1, <1>2 DEF Types, world

(* What the end of a pass leaves of it: nothing, or another pass.          *)
LEMMA EndsPassIs ==
  ASSUME Types, NEW h \in Hosts, EndsPass(h)
  PROVE  \E next \in Pass :
           /\ pass' = [pass EXCEPT ![h] = next]
           /\ \/ pass[h].dirty /\ next.pc = "lock"
              \/ ~pass[h].dirty /\ next = NoPass
           /\ next.unread = {}
           /\ lock' = (IF lock = h THEN None ELSE lock)
           /\ builder' = (IF builder = h THEN None ELSE builder)
<1>. DEFINE again == [NoPass EXCEPT !.pc = "lock"]
<1>1. again \in Pass /\ again.pc = "lock" /\ again.unread = {}
  BY ConstantTypes DEF Pass
<1>. HIDE DEF again
<1>2. pass' = [pass EXCEPT ![h] = IF pass[h].dirty THEN again ELSE NoPass]
  BY DEF EndsPass, again
<1>. QED
  BY <1>1, <1>2, ConstantTypes DEF EndsPass

LEMMA BecomesIs ==
  ASSUME Types, NEW t \in tasks, NEW pc \in {"append", "leased", "fallback", "publish", "recompute"},
         Becomes(t, pc)
  PROVE  \E next \in Task :
           /\ tasks' = (tasks \ {t}) \union {next}
           /\ next.pc = pc /\ next.round = t.round /\ next.version = t.version
           /\ next.host = t.host /\ next.admin = t.admin
<1>. DEFINE next == [t EXCEPT !.pc = pc]
<1>1. t \in Task
  BY DEF Types
<1>2. /\ next \in Task /\ next.pc = pc /\ next.round = t.round /\ next.version = t.version
      /\ next.host = t.host /\ next.admin = t.admin
  BY <1>1 DEF Task
<1>. HIDE DEF next
<1>3. tasks' = (tasks \ {t}) \union {next}
  BY DEF Becomes, next
<1>. QED
  BY <1>2, <1>3

LEMMA RequestIs ==
  ASSUME NEW r \in Rounds, NEW v \in Versions, NEW h \in Hosts
  PROVE  \E q \in Task :
           /\ q = Request(r, v, h)
           /\ q.pc = "publish" /\ q.round = r /\ q.version = v
<1>. PICK q : q = Request(r, v, h)
  OBVIOUS
<1>1. q \in Task /\ q.pc = "publish" /\ q.round = r /\ q.version = v
  BY ConstantTypes DEF Request, Task
<1>. QED
  BY <1>1

-----------------------------------------------------------------------------
(* The kinds of step.                                                      *)

(* Requests: one that begins has its round as it stands, or is to make it. *)
Begins(t) ==
  /\ t \in Task /\ tasks' = tasks \union {t}
  /\ "overlap" \in world \/ \A q \in tasks : q.round # t.round
  /\ UNCHANGED <<season, results, index, created, leases, pass>>
  /\ \/ /\ t.pc = "write" /\ "create" \in world /\ record[t.round] = 0 /\ t.version = 1
        /\ \A q \in tasks : q.round # t.round
        /\ UNCHANGED record
     \/ /\ t.pc = "publish" /\ t.version = record[t.round] + 1 /\ record[t.round] >= 1
        /\ record' = [record EXCEPT ![t.round] = t.version]
     \/ /\ t.pc = "publish" /\ t.version = record[t.round] /\ t.admin /\ record[t.round] >= 1
        /\ UNCHANGED record

(* The steps of a creation, before the round is published.                 *)
Creates(t) ==
  /\ t.pc \in {"write", "append", "leased", "fallback"}
  /\ \/ \E next \in Task :
          /\ tasks' = (tasks \ {t}) \union {next}
          /\ next.round = t.round /\ next.version = t.version
          /\ next.pc \in {"append", "leased", "fallback", "publish"}
     \/ tasks' = tasks \ {t} /\ UNCHANGED record
  /\ record' = IF t.pc = "write" THEN [record EXCEPT ![t.round] = 1] ELSE record
  /\ season' \in Seasons /\ writer' \in Rounds \union {None}
  /\ UNCHANGED <<results, index, created, lock, builder, pass>>

(* The end of a request.                                                   *)
Shown(t) ==
  /\ t.pc = "publish" /\ builder = None
  /\ index' = [index EXCEPT ![t.round] = t.version]
  /\ created' = created \union {t.round}
  /\ \/ /\ t.admin \/ Completed(t.version)
        /\ \E next \in Task :
             /\ tasks' = (tasks \ {t}) \union {next}
             /\ next.round = t.round /\ next.version = t.version /\ next.pc = "recompute"
     \/ /\ ~t.admin /\ ~Completed(t.version)
        /\ tasks' = tasks \ {t}
  /\ UNCHANGED <<record, season, results, leases, pass>>

Called(t) ==
  /\ t.pc = "recompute" /\ tasks' = tasks \ {t}
  /\ \E next \in Pass :
       /\ pass' = [pass EXCEPT ![t.host] = next]
       /\ \/ pass[t.host].pc = "idle" /\ next.pc = "lock"
          \/ /\ pass[t.host].pc # "idle" /\ next.dirty /\ next.pc = pass[t.host].pc
             /\ next.listed = pass[t.host].listed /\ next.table = pass[t.host].table
       /\ next.unread = pass[t.host].unread
  /\ UNCHANGED <<blobs, created, leases>>

(* Passes.                                                                 *)
Locks(h) ==
  /\ pass[h].pc = "lock" /\ lock = None /\ lock' = h
  /\ \E next \in Pass :
       /\ pass' = [pass EXCEPT ![h] = next]
       /\ next.pc = "rounds" /\ next.listed = season.listed /\ next.unread = season.listed
  /\ UNCHANGED <<blobs, created, tasks, writer, builder>>

Reads(h) ==
  /\ pass[h].pc = "rounds"
  /\ \E next \in Pass, r \in pass[h].unread :
       /\ pass' = [pass EXCEPT ![h] = next]
       /\ next.pc = "rounds" /\ next.listed = pass[h].listed /\ next.dirty = pass[h].dirty
       /\ next.unread = pass[h].unread \ {r}
       /\ \A q \in Rounds \ {r} : next.table[q] = pass[h].table[q]
       /\ next.table[r] = (IF Completed(record[r]) THEN record[r] ELSE 0) \/ "unread" \in world
  /\ UNCHANGED <<blobs, created, tasks, leases>>

Swaps(h, pc, to) ==
  /\ pass[h].pc = pc
  /\ \E next \in Pass :
       /\ pass' = [pass EXCEPT ![h] = next]
       /\ next.pc = to /\ next.listed = pass[h].listed /\ next.unread = pass[h].unread
       /\ next.table = pass[h].table /\ next.dirty = pass[h].dirty
  /\ UNCHANGED <<record, index, created, tasks, leases>>

SwapsSeason(h) ==
  /\ Swaps(h, "rounds", "results") /\ pass[h].unread = {}
  /\ season' = [listed |-> pass[h].listed, league |-> pass[h].table]
  /\ UNCHANGED results

SwapsResults(h) ==
  /\ Swaps(h, "results", "index") /\ results' = pass[h].table /\ UNCHANGED season

Rebuilds(h) ==
  /\ pass[h].pc = "index" /\ builder = None /\ builder' = h
  /\ \E next \in Pass :
       /\ pass' = [pass EXCEPT ![h] = next]
       /\ next.pc = "copy" /\ next.listed = pass[h].listed /\ next.unread = pass[h].unread
       /\ next.dirty = pass[h].dirty
       /\ next.table = [r \in Rounds |-> IF index[r] = 0 THEN 0 ELSE record[r]]
  /\ UNCHANGED <<blobs, created, tasks, writer, lock>>

(* A pass that ends, with the index written, or without.                   *)
Stops(h) ==
  /\ \E next \in Pass :
       /\ pass' = [pass EXCEPT ![h] = next]
       /\ \/ pass[h].dirty /\ next.pc = "lock"
          \/ ~pass[h].dirty /\ next = NoPass
       /\ next.unread = {}
  /\ lock' = (IF lock = h THEN None ELSE lock)
  /\ builder' = (IF builder = h THEN None ELSE builder)
  /\ \/ /\ pass[h].pc = "copy"
        /\ index' = IF builder = h THEN pass[h].table ELSE index
     \/ pass[h].pc = "lock" /\ "giveUp" \in world /\ UNCHANGED index
     \/ pass[h].pc = "rounds" /\ writer # None /\ UNCHANGED index
     \/ "fail" \in world /\ UNCHANGED index
  /\ UNCHANGED <<record, season, results, created, tasks, writer>>

(* Faults.                                                                 *)
Abandons(t) ==
  /\ "fail" \in world /\ tasks' = tasks \ {t}
  /\ UNCHANGED <<blobs, created, leases, pass>>

Crashes(h) ==
  /\ "crash" \in world /\ tasks' \subseteq tasks
  /\ pass' = [pass EXCEPT ![h] = NoPass]
  /\ UNCHANGED <<blobs, created, leases>>

Frees ==
  /\ writer' \in {writer, None}
  /\ builder' = builder \/ (builder' = None /\ builder # None /\ pass[builder].pc # "copy")
  /\ \/ lock' = lock
     \/ /\ lock' = None /\ lock # None
        /\ pass[lock].pc \in {"idle", "lock"} \/ "lapse" \in world
  /\ UNCHANGED <<blobs, created, tasks, pass>>

Outline ==
  \/ \E t \in Task : Begins(t)
  \/ \E t \in tasks : Creates(t) \/ Shown(t) \/ Called(t) \/ Abandons(t)
  \/ \E h \in Hosts :
       \/ Locks(h) \/ Reads(h) \/ SwapsSeason(h) \/ SwapsResults(h) \/ Rebuilds(h)
       \/ Stops(h) \/ Crashes(h)
  \/ Frees

-----------------------------------------------------------------------------
(* Every step is of one of these kinds.                                    *)

LEMMA RequestsBegin ==
  ASSUME Types, NEW r \in Rounds, NEW h \in Hosts,
         BeginCreate(r, h) \/ Commit(r, h) \/ RecomputeRound(r, h)
  PROVE  \E t \in Task : Begins(t)
<1>0. season \in Seasons /\ NoSeason \in Seasons /\ record[r] \in Versions /\ 1 \in Versions
  BY ConstantTypes DEF Types
<1>1. ASSUME BeginCreate(r, h) PROVE \E t \in Task : Begins(t)
  <2>. PICK q \in Task : q = Request(r, 1, h) /\ q.round = r /\ q.version = 1
    BY <1>0, RequestIs
  <2>. PICK t : t = [q EXCEPT !.pc = "write", !.season = season]
    OBVIOUS
  <2>1. t \in Task /\ t.pc = "write" /\ t.round = r /\ t.version = 1
    BY <1>0 DEF Task
  <2>2. /\ "create" \in world /\ record[r] = 0 /\ \A o \in tasks : o.round # r
        /\ tasks' = tasks \union {t}
        /\ UNCHANGED <<blobs, created, leases, pass, faults>>
    BY <1>1 DEF BeginCreate
  <2>. QED
    BY <2>1, <2>2 DEF Begins, blobs
<1>2. ASSUME Commit(r, h) PROVE \E t \in Task : Begins(t)
  <2>1. /\ record[r] \in 1 .. MaxVersion - 1 /\ MayAskFor(r)
        /\ record' = [record EXCEPT ![r] = @ + 1]
        /\ tasks' = tasks \union {Request(r, record'[r], h)}
        /\ UNCHANGED <<season, results, index, created, leases, pass, faults>>
    BY <1>2 DEF Commit
  <2>2. record[r] + 1 \in Versions /\ record'[r] = record[r] + 1 /\ record[r] >= 1
    BY <2>1, ConstantTypes DEF Versions, Types
  <2>. PICK t \in Task : /\ t = Request(r, record[r] + 1, h) /\ t.pc = "publish" /\ t.round = r
                         /\ t.version = record[r] + 1
    BY <2>2, RequestIs
  <2>. QED
    BY <2>1, <2>2 DEF Begins, MayAskFor
<1>3. ASSUME RecomputeRound(r, h) PROVE \E t \in Task : Begins(t)
  <2>. PICK q \in Task : /\ q = Request(r, record[r], h) /\ q.pc = "publish" /\ q.round = r
                         /\ q.version = record[r]
    BY <1>0, RequestIs
  <2>. PICK t : t = [q EXCEPT !.admin = TRUE]
    OBVIOUS
  <2>1. t \in Task /\ t.pc = "publish" /\ t.round = r /\ t.version = record[r] /\ t.admin
    BY DEF Task
  <2>2. /\ record[r] > 0 /\ MayAskFor(r)
        /\ tasks' = tasks \union {t}
        /\ UNCHANGED <<blobs, created, leases, pass>>
    BY <1>3 DEF RecomputeRound
  <2>3. record[r] >= 1
    BY <2>2, <1>0, ConstantTypes
  <2>. QED
    BY <2>1, <2>2, <2>3 DEF Begins, MayAskFor, blobs
<1>. QED
  BY <1>1, <1>2, <1>3

LEMMA CreationsGoOn ==
  ASSUME Types, NEW t \in tasks,
         WriteRound(t) \/ TakeLease(t) \/ Append(t) \/ AppendFails(t) \/ Fallback(t)
  PROVE  Creates(t)
<1>0. /\ t \in Task /\ t.round \in Rounds /\ t.season \in Seasons /\ season \in Seasons
      /\ writer \in Rounds \union {None}
  BY DEF Types, Task
<1>. DEFINE goesOn(pc) ==
       \E next \in Task :
          /\ tasks' = (tasks \ {t}) \union {next}
          /\ next.round = t.round /\ next.version = t.version /\ next.pc = pc
<1>1. ASSUME NEW pc \in {"append", "leased", "fallback", "publish"}, Becomes(t, pc)
      PROVE  goesOn(pc)
  BY <1>1, BecomesIs
<1>2. \A s \in Seasons : [s EXCEPT !.listed = @ \union {t.round}] \in Seasons
  BY <1>0 DEF Seasons
<1>3. CASE WriteRound(t)
  BY <1>3, <1>0, <1>1 DEF WriteRound, Creates, leases
<1>4. CASE TakeLease(t)
  BY <1>4, <1>0, <1>1 DEF TakeLease, Creates, blobs
<1>5. CASE Append(t)
  BY <1>5, <1>0, <1>1, <1>2 DEF Append, Creates
<1>6. CASE AppendFails(t)
  BY <1>6, <1>0, <1>1 DEF AppendFails, Creates, blobs
<1>7. CASE Fallback(t)
  BY <1>7, <1>0, <1>1, <1>2 DEF Fallback, Creates, Ends, leases
<1>. QED
  BY <1>3, <1>4, <1>5, <1>6, <1>7

LEMMA RequestsEnd ==
  ASSUME Types, Passes, NEW t \in tasks
  PROVE  /\ Publish(t) => Shown(t)
         /\ Recompute(t) => Called(t)
         /\ PublishFails(t) => Abandons(t)
<1>1. ASSUME Publish(t) PROVE Shown(t)
  <2>1. Becomes(t, "recompute") =>
          \E next \in Task :
             /\ tasks' = (tasks \ {t}) \union {next}
             /\ next.round = t.round /\ next.version = t.version /\ next.pc = "recompute"
    BY BecomesIs
  <2>2. CASE t.admin \/ Completed(t.version)
    BY <1>1, <2>1, <2>2 DEF Publish, Shows, Shown
  <2>3. CASE ~t.admin /\ ~Completed(t.version)
    BY <1>1, <2>3 DEF Publish, Shows, Shown, Ends
  <2>. QED
    BY <2>2, <2>3
<1>2. ASSUME Recompute(t) PROVE Called(t)
  <2>0. t.host \in Hosts /\ pass \in [Hosts -> Pass]
    BY DEF Types, Task
  <2>. PICK h \in Hosts : h = t.host
    BY <2>0
  <2>1. pass[h] \in Pass
    BY <2>0
  <2>2. CASE pass[h].pc # "idle"
    <3>. PICK next : next = [pass[h] EXCEPT !.dirty = TRUE]
      OBVIOUS
    <3>1. /\ next \in Pass /\ next.dirty /\ next.pc = pass[h].pc /\ next.listed = pass[h].listed
          /\ next.table = pass[h].table /\ next.unread = pass[h].unread
      BY <2>1 DEF Pass
    <3>2. pass' = [pass EXCEPT ![h] = next]
      BY <1>2, <2>2, <2>0 DEF Recompute, RecomputeSeason
    <3>. QED
      BY <1>2, <2>2, <3>1, <3>2 DEF Recompute, Called, Ends
  <2>3. CASE pass[h].pc = "idle"
    <3>. PICK next : next = [pass[h] EXCEPT !.pc = "lock"]
      OBVIOUS
    <3>1. next \in Pass /\ next.pc = "lock" /\ next.unread = pass[h].unread
      BY <2>1 DEF Pass
    <3>2. pass' = [pass EXCEPT ![h] = next]
      BY <1>2, <2>3, <2>0 DEF Recompute, RecomputeSeason
    <3>. QED
      BY <1>2, <2>3, <3>1, <3>2 DEF Recompute, Called, Ends
  <2>. QED
    BY <2>2, <2>3
<1>3. ASSUME PublishFails(t) PROVE Abandons(t)
  BY <1>3, FaultIs DEF PublishFails, Abandons, Ends
<1>. QED
  BY <1>1, <1>2, <1>3

LEMMA PassesGoOn ==
  ASSUME Types, NEW h \in Hosts
  PROVE  /\ TakeLock(h) => Locks(h)
         /\ ReadRound(h) \/ SkipRound(h) => Reads(h)
         /\ SwapResults(h) => SwapsResults(h)
         /\ RebuildIndex(h) => Rebuilds(h)
<1>0. pass \in [Hosts -> Pass] /\ pass[h] \in Pass /\ season.listed \in SUBSET Rounds
  BY DEF Types, Seasons
<1>1. ASSUME TakeLock(h) PROVE Locks(h)
  <2>. PICK next : next = [pass[h] EXCEPT !.pc = "rounds", !.listed = season.listed,
                                          !.unread = season.listed]
    OBVIOUS
  <2>1. /\ next \in Pass /\ next.pc = "rounds" /\ next.listed = season.listed
        /\ next.unread = season.listed
    BY <1>0 DEF Pass
  <2>2. pass' = [pass EXCEPT ![h] = next]
    BY <1>1, <1>0 DEF TakeLock
  <2>. QED
    BY <1>1, <2>1, <2>2 DEF TakeLock, Locks
<1>2. ASSUME ReadRound(h) \/ SkipRound(h) PROVE Reads(h)
  <2>1. CASE ReadRound(h)
    <3>1. PICK r \in pass[h].unread :
            pass' = [pass EXCEPT ![h].unread = @ \ {r},
                                 ![h].table[r] = IF Completed(record[r]) THEN record[r] ELSE 0]
      BY <2>1 DEF ReadRound
    <3>. PICK version : version = IF Completed(record[r]) THEN record[r] ELSE 0
      OBVIOUS
    <3>2. r \in Rounds /\ version \in Versions
      BY <1>0, ConstantTypes DEF Pass, Types
    <3>. PICK next : next = [pass[h] EXCEPT !.unread = @ \ {r}, !.table[r] = version]
      OBVIOUS
    <3>3. /\ next \in Pass /\ next.pc = pass[h].pc /\ next.listed = pass[h].listed
          /\ next.dirty = pass[h].dirty /\ next.unread = pass[h].unread \ {r}
          /\ next.table = [pass[h].table EXCEPT ![r] = version]
      BY <1>0, <3>2 DEF Pass
    <3>4. /\ \A o \in Rounds \ {r} : next.table[o] = pass[h].table[o]
          /\ next.table[r] = version
      BY <1>0, <3>2, <3>3 DEF Pass
    <3>5. pass' = [pass EXCEPT ![h] = next]
      BY <3>1, <1>0
    <3>6. next.table[r] = (IF Completed(record[r]) THEN record[r] ELSE 0) \/ "unread" \in world
      BY <3>4
    <3>7. /\ pass[h].pc = "rounds"
          /\ UNCHANGED <<blobs, created, tasks, leases>>
      BY <2>1 DEF ReadRound
    <3>8. pass' = [pass EXCEPT ![h] = next] /\ next.pc = "rounds"
      BY <3>3, <3>5, <3>7
    <3>. QED
      BY <3>1, <3>3, <3>4, <3>6, <3>7, <3>8 DEF Reads
  <2>2. CASE SkipRound(h)
    <3>1. PICK r \in pass[h].unread : pass' = [pass EXCEPT ![h].unread = @ \ {r}]
      BY <2>2 DEF SkipRound
    <3>. PICK next : next = [pass[h] EXCEPT !.unread = @ \ {r}]
      OBVIOUS
    <3>2. /\ next \in Pass /\ next.pc = pass[h].pc /\ next.listed = pass[h].listed
          /\ next.dirty = pass[h].dirty /\ next.unread = pass[h].unread \ {r}
          /\ next.table = pass[h].table
      BY <1>0 DEF Pass
    <3>3. pass' = [pass EXCEPT ![h] = next]
      BY <3>1, <1>0
    <3>4. "unread" \in world
      BY <2>2, FaultIs DEF SkipRound
    <3>. QED
      BY <2>2, <3>2, <3>3, <3>4 DEF SkipRound, Reads
  <2>. QED
    BY <1>2, <2>1, <2>2
<1>3. ASSUME SwapResults(h) PROVE SwapsResults(h)
  <2>. PICK next : next = [pass[h] EXCEPT !.pc = "index"]
    OBVIOUS
  <2>1. /\ next \in Pass /\ next.pc = "index" /\ next.listed = pass[h].listed
        /\ next.unread = pass[h].unread /\ next.table = pass[h].table
        /\ next.dirty = pass[h].dirty
    BY <1>0 DEF Pass
  <2>2. pass' = [pass EXCEPT ![h] = next]
    BY <1>3, <1>0 DEF SwapResults
  <2>. QED
    BY <1>3, <2>1, <2>2 DEF SwapResults, SwapsResults, Swaps
<1>4. ASSUME RebuildIndex(h) PROVE Rebuilds(h)
  <2>. PICK table : table = [r \in Rounds |-> IF index[r] = 0 THEN 0 ELSE record[r]]
    OBVIOUS
  <2>0. table \in [Rounds -> Versions]
    BY ConstantTypes DEF Types
  <2>. PICK next : next = [pass[h] EXCEPT !.pc = "copy", !.table = table]
    OBVIOUS
  <2>1. /\ next \in Pass /\ next.pc = "copy" /\ next.listed = pass[h].listed
        /\ next.unread = pass[h].unread /\ next.table = table
        /\ next.dirty = pass[h].dirty
    BY <1>0, <2>0 DEF Pass
  <2>2. pass' = [pass EXCEPT ![h] = next]
    BY <1>4, <1>0 DEF RebuildIndex
  <2>. QED
    BY <1>4, <2>1, <2>2 DEF RebuildIndex, Rebuilds
<1>. QED
  BY <1>1, <1>2, <1>3, <1>4

LEMMA PassesStop ==
  ASSUME Types, NEW h \in Hosts,
         SwapSeason(h) \/ SwapIndex(h) \/ GivesUp(h) \/ PassFails(h)
  PROVE  SwapsSeason(h) \/ Stops(h)
<1>0. pass \in [Hosts -> Pass] /\ pass[h] \in Pass
  BY DEF Types
<1>. DEFINE over ==
       /\ \E next \in Pass :
            /\ pass' = [pass EXCEPT ![h] = next]
            /\ \/ pass[h].dirty /\ next.pc = "lock"
               \/ ~pass[h].dirty /\ next = NoPass
            /\ next.unread = {}
       /\ lock' = (IF lock = h THEN None ELSE lock)
       /\ builder' = (IF builder = h THEN None ELSE builder)
<1>1. EndsPass(h) => over
  BY EndsPassIs
<1>2. CASE SwapSeason(h) /\ writer = None
  <2>. PICK next : next = [pass[h] EXCEPT !.pc = "results"]
    OBVIOUS
  <2>1. /\ next \in Pass /\ next.pc = "results" /\ next.listed = pass[h].listed
        /\ next.unread = pass[h].unread /\ next.table = pass[h].table
        /\ next.dirty = pass[h].dirty
    BY <1>0 DEF Pass
  <2>2. pass' = [pass EXCEPT ![h] = next]
    BY <1>2, <1>0 DEF SwapSeason
  <2>. QED
    BY <1>2, <2>1, <2>2 DEF SwapSeason, SwapsSeason, Swaps, leases
<1>3. CASE SwapSeason(h) /\ writer # None
  BY <1>3, <1>1 DEF SwapSeason, Stops
<1>4. CASE SwapIndex(h)
  BY <1>4, <1>1 DEF SwapIndex, Stops
<1>5. CASE GivesUp(h)
  BY <1>5, <1>1, FaultIs DEF GivesUp, Stops, blobs
<1>6. CASE PassFails(h)
  BY <1>6, <1>1, FaultIs DEF PassFails, Stops, blobs
<1>. QED
  BY <1>2, <1>3, <1>4, <1>5, <1>6

LEMMA StepIs ==
  ASSUME Types, Passes, [Next]_vars
  PROVE  /\ Outline \/ UNCHANGED vars
         /\ world' = world
         /\ faults' \in [kinds : Worlds, count : 0 .. MaxFaults]
<1>0. UNCHANGED faults =>
        /\ world' = world
        /\ faults' \in [kinds : Worlds, count : 0 .. MaxFaults]
  BY DEF Types, world
<1>1. CASE UNCHANGED vars
  BY <1>1, <1>0 DEF vars
<1>2. ASSUME NEW t \in tasks, Proceeds(t)
      PROVE  Outline /\ (UNCHANGED faults \/ Fault("append"))
  <2>1. CASE WriteRound(t) \/ TakeLease(t) \/ Append(t) \/ AppendFails(t) \/ Fallback(t)
    <3>1. Outline
      BY <2>1, CreationsGoOn DEF Outline
    <3>. QED
      BY <3>1, <2>1 DEF WriteRound, TakeLease, Append, AppendFails, Fallback
  <2>2. CASE Publish(t) \/ Recompute(t)
    BY <2>2, RequestsEnd DEF Outline, Publish, Recompute
  <2>. QED
    BY <1>2, <2>1, <2>2 DEF Proceeds
<1>3. ASSUME NEW t \in tasks, PublishFails(t) PROVE Outline /\ Fault("fail")
  BY <1>3, RequestsEnd DEF Outline, PublishFails
<1>4. ASSUME NEW h \in Hosts, NEW r \in Rounds,
             BeginCreate(r, h) \/ Commit(r, h) \/ RecomputeRound(r, h)
      PROVE  Outline /\ (UNCHANGED faults \/ Fault("admin"))
  BY <1>4, RequestsBegin DEF Outline, BeginCreate, Commit, RecomputeRound
<1>5. ASSUME NEW h \in Hosts, Computes(h) PROVE Outline /\ UNCHANGED faults
  BY <1>5, PassesGoOn, PassesStop
     DEF Outline, Computes, TakeLock, ReadRound, SwapSeason, SwapResults, RebuildIndex, SwapIndex
<1>6. ASSUME NEW h \in Hosts, GivesUp(h) \/ SkipRound(h) \/ PassFails(h)
      PROVE  Outline /\ (Fault("giveUp") \/ Fault("unread") \/ Fault("fail"))
  BY <1>6, PassesGoOn, PassesStop DEF Outline, GivesUp, SkipRound, PassFails
<1>7. ASSUME NEW h \in Hosts, Crash(h) PROVE Outline /\ Fault("crash")
  <2>1. Crashes(h)
    BY <1>7, FaultIs DEF Crash, Crashes
  <2>. QED
    BY <1>7, <2>1 DEF Outline, Crash
<1>8. ASSUME Lapse PROVE Outline /\ (UNCHANGED faults \/ Fault("lapse"))
  <2>1. Frees
    BY <1>8, FaultIs DEF Lapse, Frees
  <2>. QED
    BY <1>8, <2>1 DEF Outline, Lapse
<1>9. \A kind : Fault(kind) =>
        /\ world' = world
        /\ faults' \in [kinds : Worlds, count : 0 .. MaxFaults]
  BY FaultIs
<1>10. CASE Next
  BY <1>10, <1>0, <1>1, <1>2, <1>3, <1>4, <1>5, <1>6, <1>7, <1>8, <1>9 DEF Next, AtRest
<1>. QED
  BY <1>1, <1>10

-----------------------------------------------------------------------------
(* Types are kept.                                                         *)

LEMMA TypesKept ==
  ASSUME Types, Passes, Outline, faults' \in [kinds : Worlds, count : 0 .. MaxFaults]
  PROVE  Types' /\ Passes'
<1>. USE ConstantTypes
<1>1. CASE \E t \in Task : Begins(t)
  <2>1. PICK t \in Task : Begins(t)
    BY <1>1
  <2>2. t.round \in Rounds /\ t.version \in Versions
    BY DEF Task
  <2>3. record' \in [Rounds -> Versions]
    BY <2>1, <2>2 DEF Begins, Types
  <2>. QED
    BY <2>1, <2>3 DEF Begins, Types, Passes, leases
<1>2. ASSUME NEW t \in tasks, Creates(t) PROVE Types' /\ Passes'
  <2>1. t \in Task /\ t.round \in Rounds
    BY DEF Types, Task
  <2>2. record' \in [Rounds -> Versions] /\ tasks' \subseteq Task
    BY <1>2, <2>1 DEF Creates, Types
  <2>. QED
    BY <1>2, <2>2 DEF Creates, Types, Passes
<1>3. ASSUME NEW t \in tasks, Shown(t) PROVE Types' /\ Passes'
  <2>1. t \in Task /\ t.round \in Rounds /\ t.version \in Versions
    BY DEF Types, Task
  <2>2. index' \in [Rounds -> Versions] /\ created' \subseteq Rounds /\ tasks' \subseteq Task
    BY <1>3, <2>1 DEF Shown, Types
  <2>. QED
    BY <1>3, <2>2 DEF Shown, Types, Passes, leases
<1>4. ASSUME NEW t \in tasks, Called(t) PROVE Types' /\ Passes'
  <2>1. PICK h \in Hosts : h = t.host
    BY DEF Types, Task
  <2>2. PICK next \in Pass :
          /\ pass' = [pass EXCEPT ![h] = next]
          /\ \/ pass[h].pc = "idle" /\ next.pc = "lock"
             \/ /\ pass[h].pc # "idle" /\ next.pc = pass[h].pc
                /\ next.listed = pass[h].listed
          /\ next.unread = pass[h].unread
    BY <1>4, <2>1 DEF Called
  <2>3. pass' \in [Hosts -> Pass] /\ pass'[h] = next /\ \A o \in Hosts \ {h} : pass'[o] = pass[o]
    BY <2>2 DEF Types
  <2>4. Types'
    BY <1>4, <2>3 DEF Called, Types, blobs, leases
  <2>5. next.pc # "idle" /\ next.unread \subseteq next.listed
    BY <2>2 DEF Passes
  <2>. QED
    BY <2>3, <2>4, <2>5 DEF Passes
<1>5. ASSUME NEW t \in tasks, Abandons(t) PROVE Types' /\ Passes'
  BY <1>5 DEF Abandons, Types, Passes, blobs, leases
<1>6. ASSUME NEW h \in Hosts, NEW next \in Pass, pass' = [pass EXCEPT ![h] = next],
             next.unread \subseteq next.listed, next.pc = "idle" => next = NoPass
      PROVE  pass' \in [Hosts -> Pass] /\ Passes'
  <2>1. pass' \in [Hosts -> Pass] /\ pass'[h] = next /\ \A o \in Hosts \ {h} : pass'[o] = pass[o]
    BY <1>6 DEF Types
  <2>. QED
    BY <1>6, <2>1 DEF Passes
<1>7. ASSUME NEW h \in Hosts, Locks(h) PROVE Types' /\ Passes'
  <2>1. pass' \in [Hosts -> Pass] /\ Passes'
    BY <1>6, <1>7 DEF Locks
  <2>. QED
    BY <1>7, <2>1 DEF Locks, Types, blobs
<1>8. ASSUME NEW h \in Hosts, Reads(h) PROVE Types' /\ Passes'
  <2>1. pass' \in [Hosts -> Pass] /\ Passes'
    BY <1>6, <1>8 DEF Reads, Passes
  <2>. QED
    BY <1>8, <2>1 DEF Reads, Types, blobs, leases
<1>9. ASSUME NEW h \in Hosts, SwapsSeason(h) PROVE Types' /\ Passes'
  <2>1. pass' \in [Hosts -> Pass] /\ Passes'
    BY <1>6, <1>9 DEF SwapsSeason, Swaps, Passes
  <2>2. season' \in Seasons
    BY <1>9 DEF SwapsSeason, Types, Pass, Seasons
  <2>. QED
    BY <1>9, <2>1, <2>2 DEF SwapsSeason, Swaps, Types, leases
<1>10. ASSUME NEW h \in Hosts, SwapsResults(h) PROVE Types' /\ Passes'
  <2>1. pass' \in [Hosts -> Pass] /\ Passes'
    BY <1>6, <1>10 DEF SwapsResults, Swaps, Passes
  <2>2. results' \in [Rounds -> Versions]
    BY <1>10 DEF SwapsResults, Types, Pass
  <2>. QED
    BY <1>10, <2>1, <2>2 DEF SwapsResults, Swaps, Types, leases
<1>11. ASSUME NEW h \in Hosts, Rebuilds(h) PROVE Types' /\ Passes'
  <2>1. pass' \in [Hosts -> Pass] /\ Passes'
    BY <1>6, <1>11 DEF Rebuilds, Passes
  <2>. QED
    BY <1>11, <2>1 DEF Rebuilds, Types, blobs
<1>12. ASSUME NEW h \in Hosts, Stops(h) PROVE Types' /\ Passes'
  <2>1. pass' \in [Hosts -> Pass] /\ Passes'
    BY <1>6, <1>12 DEF Stops
  <2>2. index' \in [Rounds -> Versions]
    BY <1>12 DEF Stops, Types, Pass
  <2>. QED
    BY <1>12, <2>1, <2>2 DEF Stops, Types
<1>13. ASSUME NEW h \in Hosts, Crashes(h) PROVE Types' /\ Passes'
  <2>1. pass' \in [Hosts -> Pass] /\ Passes'
    BY <1>6, <1>13 DEF Crashes
  <2>. QED
    BY <1>13, <2>1 DEF Crashes, Types, blobs, leases
<1>14. ASSUME Frees PROVE Types' /\ Passes'
  BY <1>14 DEF Frees, Types, Passes, blobs
<1>. QED
  BY <1>1, <1>2, <1>3, <1>4, <1>5, <1>7, <1>8, <1>9, <1>10, <1>11, <1>12, <1>13, <1>14 DEF Outline

-----------------------------------------------------------------------------
(* Without a lapse only the holder of the season's lock is past its wait.  *)
Holding == {"rounds", "results", "index", "copy"}
Locked ==
  "lapse" \notin world => \A h \in Hosts : pass[h].pc \in Holding => lock = h

LEMMA LockedKept ==
  ASSUME Types, Passes, Locked, Outline, world' = world
  PROVE  Locked'
<1>. USE ConstantTypes DEF Holding
<1>. SUFFICES ASSUME "lapse" \notin world, NEW o \in Hosts, pass'[o].pc \in Holding
              PROVE  lock' = o
  BY DEF Locked
<1>0. pass \in [Hosts -> Pass]
  BY DEF Types
<1>1. CASE UNCHANGED <<pass, lock>>
  BY <1>1 DEF Locked
<1>2. ASSUME NEW t \in tasks, Called(t) PROVE lock' = o
  BY <1>2, <1>0 DEF Called, Locked, leases, Types, Task
<1>3. ASSUME NEW h \in Hosts, Locks(h) PROVE lock' = o
  BY <1>3, <1>0 DEF Locks, Locked
<1>4. ASSUME NEW h \in Hosts, Reads(h) \/ SwapsSeason(h) \/ SwapsResults(h) \/ Rebuilds(h)
      PROVE  lock' = o
  BY <1>4, <1>0 DEF Reads, SwapsSeason, SwapsResults, Swaps, Rebuilds, Locked, leases
<1>5. ASSUME NEW h \in Hosts, Stops(h) PROVE lock' = o
  BY <1>5, <1>0 DEF Stops, Locked
<1>6. ASSUME NEW h \in Hosts, Crashes(h) PROVE lock' = o
  BY <1>6, <1>0 DEF Crashes, Locked, leases
<1>7. CASE Frees
  BY <1>7 DEF Frees, Locked
<1>. QED
  BY <1>1, <1>2, <1>3, <1>4, <1>5, <1>6, <1>7
     DEF Outline, Begins, Creates, Shown, Abandons, leases

-----------------------------------------------------------------------------
(* Where no round is created, the season lists them all, and every pass    *)
(* reads them all.                                                         *)
Unmade ==
  "create" \notin world =>
    /\ writer = None /\ season.listed = Rounds
    /\ \A t \in tasks : t.pc \in {"publish", "recompute"}
    /\ \A h \in Hosts : pass[h].pc = "rounds" => pass[h].listed = Rounds

LEMMA UnmadeKept ==
  ASSUME Types, Passes, Unmade, Outline, world' = world
  PROVE  Unmade'
<1>. USE ConstantTypes
<1>. SUFFICES ASSUME "create" \notin world PROVE Unmade'
  BY DEF Unmade
<1>0. /\ pass \in [Hosts -> Pass] /\ tasks \subseteq Task
      /\ writer = None /\ season.listed = Rounds
      /\ \A t \in tasks : t.pc \in {"publish", "recompute"}
      /\ \A h \in Hosts : pass[h].pc = "rounds" => pass[h].listed = Rounds
  BY DEF Types, Unmade
<1>1. ASSUME NEW t \in Task, Begins(t) PROVE Unmade'
  BY <1>0, <1>1 DEF Begins, Unmade, leases
<1>2. ASSUME NEW t \in tasks, Creates(t) PROVE FALSE
  BY <1>0, <1>2 DEF Creates
<1>3. ASSUME NEW t \in tasks, Shown(t) PROVE Unmade'
  BY <1>0, <1>3 DEF Shown, Unmade, leases
<1>4. ASSUME NEW t \in tasks, Called(t) PROVE Unmade'
  BY <1>0, <1>4 DEF Called, Unmade, leases, blobs, Task
<1>5. ASSUME NEW t \in tasks, Abandons(t) PROVE Unmade'
  BY <1>0, <1>5 DEF Abandons, Unmade, leases, blobs
<1>6. ASSUME NEW h \in Hosts, Locks(h) PROVE Unmade'
  BY <1>0, <1>6 DEF Locks, Unmade, blobs
<1>7. ASSUME NEW h \in Hosts, Reads(h) PROVE Unmade'
  BY <1>0, <1>7 DEF Reads, Unmade, blobs, leases
<1>8. ASSUME NEW h \in Hosts, SwapsSeason(h) PROVE Unmade'
  BY <1>0, <1>8 DEF SwapsSeason, Swaps, Unmade, leases
<1>9. ASSUME NEW h \in Hosts, SwapsResults(h) PROVE Unmade'
  BY <1>0, <1>9 DEF SwapsResults, Swaps, Unmade, leases
<1>10. ASSUME NEW h \in Hosts, Rebuilds(h) PROVE Unmade'
  BY <1>0, <1>10 DEF Rebuilds, Unmade, blobs
<1>11. ASSUME NEW h \in Hosts, Stops(h) PROVE Unmade'
  BY <1>0, <1>11 DEF Stops, Unmade
<1>12. ASSUME NEW h \in Hosts, Crashes(h) PROVE Unmade'
  BY <1>0, <1>12 DEF Crashes, Unmade, blobs, leases
<1>13. CASE Frees
  BY <1>0, <1>13 DEF Frees, Unmade, blobs
<1>. QED
  BY <1>1, <1>2, <1>3, <1>4, <1>5, <1>6, <1>7, <1>8, <1>9, <1>10, <1>11, <1>12, <1>13 DEF Outline

-----------------------------------------------------------------------------
(* Between the two writes of a pass its table is the league; else the      *)
(* results are.                                                            *)
Unbroken == world \intersect {"create", "fail", "crash", "lapse"} = {}
Matching ==
  Unbroken =>
    /\ \A h \in Hosts : pass[h].pc = "results" => pass[h].table = season.league
    /\ (\A h \in Hosts : pass[h].pc # "results") => results = season.league

LEMMA MatchingKept ==
  ASSUME Types, Passes, Locked, Unmade, Matching, Outline, world' = world
  PROVE  Matching'
<1>. USE ConstantTypes
<1>. SUFFICES ASSUME Unbroken PROVE Matching'
  BY DEF Matching, Unbroken
<1>0. /\ pass \in [Hosts -> Pass] /\ tasks \subseteq Task
      /\ writer = None /\ \A t \in tasks : t.pc \in {"publish", "recompute"}
      /\ \A h \in Hosts : pass[h].pc \in Holding => lock = h
      /\ \A h \in Hosts : pass[h].pc = "results" => pass[h].table = season.league
      /\ (\A h \in Hosts : pass[h].pc # "results") => results = season.league
      /\ "fail" \notin world /\ "crash" \notin world
  BY DEF Types, Locked, Unmade, Matching, Unbroken
<1>1. CASE UNCHANGED <<pass, season, results>>
  BY <1>0, <1>1 DEF Matching
<1>2. ASSUME NEW h \in Hosts, NEW next \in Pass, pass' = [pass EXCEPT ![h] = next],
             pass[h].pc # "results", next.pc # "results", UNCHANGED <<season, results>>
      PROVE  Matching'
  <2>1. pass'[h] = next /\ \A o \in Hosts \ {h} : pass'[o] = pass[o]
    BY <1>0, <1>2
  <2>. QED
    BY <1>0, <1>2, <2>1 DEF Matching
<1>3. ASSUME NEW t \in tasks, Creates(t) PROVE FALSE
  BY <1>0, <1>3 DEF Creates
<1>4. ASSUME NEW t \in tasks, Called(t) PROVE Matching'
  <2>1. PICK h \in Hosts : h = t.host
    BY <1>0 DEF Task
  <2>2. PICK next \in Pass :
          /\ pass' = [pass EXCEPT ![h] = next]
          /\ \/ pass[h].pc = "idle" /\ next.pc = "lock"
             \/ next.pc = pass[h].pc /\ next.table = pass[h].table
    BY <1>4, <2>1 DEF Called
  <2>3. pass'[h] = next /\ \A o \in Hosts \ {h} : pass'[o] = pass[o]
    BY <1>0, <2>2
  <2>4. UNCHANGED <<season, results>>
    BY <1>4 DEF Called, blobs
  <2>. QED
    BY <1>0, <2>2, <2>3, <2>4 DEF Matching
<1>5. ASSUME NEW h \in Hosts, Locks(h) \/ Reads(h) \/ Rebuilds(h) PROVE Matching'
  BY <1>2, <1>5 DEF Locks, Reads, Rebuilds, blobs
<1>6. ASSUME NEW h \in Hosts, SwapsSeason(h) PROVE Matching'
  <2>1. PICK next \in Pass :
          /\ pass' = [pass EXCEPT ![h] = next]
          /\ next.pc = "results" /\ next.table = pass[h].table
    BY <1>6 DEF SwapsSeason, Swaps
  <2>2. pass'[h] = next /\ \A o \in Hosts \ {h} : pass'[o] = pass[o]
    BY <1>0, <2>1
  <2>3. season'.league = pass[h].table /\ pass[h].pc = "rounds"
    BY <1>6 DEF SwapsSeason, Swaps
  <2>4. \A o \in Hosts \ {h} : pass[o].pc # "results"
    BY <1>0, <2>3 DEF Holding
  <2>. QED
    BY <2>1, <2>2, <2>3, <2>4 DEF Matching
<1>7. ASSUME NEW h \in Hosts, SwapsResults(h) PROVE Matching'
  <2>1. PICK next \in Pass :
          /\ pass' = [pass EXCEPT ![h] = next]
          /\ next.pc = "index"
    BY <1>7 DEF SwapsResults, Swaps
  <2>2. pass'[h] = next /\ \A o \in Hosts \ {h} : pass'[o] = pass[o]
    BY <1>0, <2>1
  <2>3. results' = season.league /\ season' = season
    BY <1>0, <1>7 DEF SwapsResults, Swaps
  <2>. QED
    BY <1>0, <2>1, <2>2, <2>3 DEF Matching
<1>8. ASSUME NEW h \in Hosts, Stops(h) PROVE Matching'
  <2>1. pass[h].pc # "results"
    BY <1>0, <1>8 DEF Stops
  <2>. QED
    BY <1>2, <1>8, <2>1, <1>0 DEF Stops
<1>9. ASSUME NEW h \in Hosts, Crashes(h) PROVE FALSE
  BY <1>0, <1>9 DEF Crashes
<1>. QED
  BY <1>1, <1>3, <1>4, <1>5, <1>6, <1>7, <1>8, <1>9
     DEF Outline, Begins, Shown, Abandons, Frees, blobs

-----------------------------------------------------------------------------
(* A completed round has its recomputation to come, or a host has a pass   *)
(* before it that will read the round, or the round is on its way through  *)
(* the pass that runs.                                                     *)
Pending(r) ==
  \E t \in tasks :
    /\ t.round = r
    /\ t.pc = "recompute" \/ (t.pc = "publish" /\ (t.admin \/ Completed(t.version)))

WillRun == \E h \in Hosts : pass[h].pc = "lock" \/ pass[h].dirty

Served(r) ==
  /\ \A h \in Hosts :
       /\ pass[h].pc = "rounds" => r \in pass[h].unread \/ pass[h].table[r] = record[r]
       /\ pass[h].pc = "results" => pass[h].table[r] = record[r]
  /\ (\A h \in Hosts : pass[h].pc # "rounds") => season.league[r] = record[r]
  /\ (\A h \in Hosts : pass[h].pc \notin {"rounds", "results"}) => results[r] = record[r]

Serving ==
  Undisturbed =>
    \A r \in Rounds : Completed(record[r]) => Pending(r) \/ WillRun \/ Served(r)

LEMMA ServingKept ==
  ASSUME Types, Passes, Locked, Unmade, Serving, Outline, world' = world
  PROVE  Serving'
<1>. USE ConstantTypes
<1>. SUFFICES ASSUME Undisturbed, NEW r \in Rounds, Completed(record'[r])
              PROVE  Pending(r)' \/ WillRun' \/ Served(r)'
  BY DEF Serving, Undisturbed
<1>0. /\ pass \in [Hosts -> Pass] /\ tasks \subseteq Task /\ record \in [Rounds -> Versions]
      /\ writer = None /\ season.listed = Rounds
      /\ \A t \in tasks : t.pc \in {"publish", "recompute"}
      /\ \A h \in Hosts : pass[h].pc \in Holding => lock = h
      /\ Completed(record[r]) => Pending(r) \/ WillRun \/ Served(r)
      /\ "fail" \notin world /\ "crash" \notin world /\ "unread" \notin world
      /\ "giveUp" \notin world
  BY DEF Types, Locked, Unmade, Serving, Undisturbed
<1>1. UNCHANGED record => Completed(record[r])
  OBVIOUS
<1>2. UNCHANGED <<record, season, results, pass>> =>
        (WillRun => WillRun') /\ (Served(r) => Served(r)')
  BY DEF WillRun, Served
<1>3. (tasks \subseteq tasks') /\ Pending(r) => Pending(r)'
  BY DEF Pending
<1>4. ASSUME NEW t \in Task, Begins(t) PROVE Pending(r)' \/ WillRun' \/ Served(r)'
  <2>1. CASE record'[r] # record[r]
    <3>1. t \in tasks' /\ t.pc = "publish" /\ t.round = r /\ t.version = record'[r]
      BY <1>0, <1>4, <2>1 DEF Begins, Task
    <3>. QED
      BY <3>1 DEF Pending
  <2>2. CASE record'[r] = record[r]
    <3>1. Pending(r) => Pending(r)'
      BY <1>3, <1>4 DEF Begins
    <3>2. (WillRun => WillRun') /\ (Served(r) => Served(r)')
      BY <1>4, <2>2 DEF Begins, WillRun, Served
    <3>. QED
      BY <1>0, <2>2, <3>1, <3>2
  <2>. QED
    BY <2>1, <2>2
<1>5. ASSUME NEW t \in tasks, Creates(t) PROVE FALSE
  BY <1>0, <1>5 DEF Creates
<1>6. ASSUME NEW t \in tasks, Shown(t) PROVE Pending(r)' \/ WillRun' \/ Served(r)'
  <2>1. Pending(r) => Pending(r)'
    BY <1>6 DEF Shown, Pending
  <2>2. UNCHANGED <<record, season, results, pass>>
    BY <1>6 DEF Shown
  <2>. QED
    BY <1>0, <1>1, <1>2, <2>1, <2>2
<1>7. ASSUME NEW t \in tasks, Called(t) PROVE WillRun'
  <2>1. PICK h \in Hosts : h = t.host
    BY <1>0 DEF Task
  <2>2. PICK next \in Pass : pass' = [pass EXCEPT ![h] = next] /\ (next.pc = "lock" \/ next.dirty)
    BY <1>7, <2>1 DEF Called
  <2>3. pass'[h] = next
    BY <1>0, <2>2
  <2>. QED
    BY <2>2, <2>3 DEF WillRun
<1>8. ASSUME NEW h \in Hosts, Locks(h) PROVE Served(r)'
  <2>1. PICK next \in Pass :
          pass' = [pass EXCEPT ![h] = next] /\ next.pc = "rounds" /\ next.unread = Rounds
    BY <1>0, <1>8 DEF Locks
  <2>2. pass'[h] = next /\ \A o \in Hosts \ {h} : pass'[o] = pass[o]
    BY <1>0, <2>1
  <2>3. \A o \in Hosts : pass[o].pc \notin Holding
    BY <1>0, <1>8 DEF Locks
  <2>. QED
    BY <2>1, <2>2, <2>3 DEF Served, Holding
<1>9. ASSUME NEW h \in Hosts, NEW next \in Pass, pass' = [pass EXCEPT ![h] = next],
             next.dirty = pass[h].dirty \/ next.pc = "lock",
             pass[h].pc = "lock" => next.pc = "lock"
      PROVE  WillRun => WillRun'
  <2>1. pass'[h] = next /\ \A o \in Hosts \ {h} : pass'[o] = pass[o]
    BY <1>0, <1>9
  <2>. QED
    BY <1>9, <2>1 DEF WillRun
<1>10. ASSUME NEW h \in Hosts, Reads(h) PROVE Pending(r)' \/ WillRun' \/ Served(r)'
  <2>1. PICK next \in Pass, o \in pass[h].unread :
          /\ pass' = [pass EXCEPT ![h] = next]
          /\ next.pc = "rounds" /\ next.dirty = pass[h].dirty
          /\ next.unread = pass[h].unread \ {o}
          /\ \A q \in Rounds \ {o} : next.table[q] = pass[h].table[q]
          /\ next.table[o] = (IF Completed(record[o]) THEN record[o] ELSE 0)
    BY <1>0, <1>10 DEF Reads
  <2>2. /\ pass'[h] = next /\ \A i \in Hosts \ {h} : pass'[i] = pass[i]
        /\ pass[h].pc = "rounds" /\ UNCHANGED <<record, season, results, tasks>>
    BY <1>0, <1>10, <2>1 DEF Reads, blobs
  <2>3. Completed(record[r])
    BY <2>2
  <2>4. r \in pass[h].unread \/ pass[h].table[r] = record[r]
          => r \in next.unread \/ next.table[r] = record[r]
    BY <2>1, <2>3
  <2>5. Served(r) => Served(r)'
    BY <2>1, <2>2, <2>4 DEF Served
  <2>6. WillRun => WillRun'
    BY <1>9, <2>1, <2>2
  <2>. QED
    BY <1>0, <1>3, <2>2, <2>3, <2>5, <2>6
<1>11. ASSUME NEW h \in Hosts, SwapsSeason(h) PROVE Pending(r)' \/ WillRun' \/ Served(r)'
  <2>1. PICK next \in Pass :
          /\ pass' = [pass EXCEPT ![h] = next]
          /\ next.pc = "results" /\ next.table = pass[h].table /\ next.dirty = pass[h].dirty
    BY <1>11 DEF SwapsSeason, Swaps
  <2>2. /\ pass'[h] = next /\ \A i \in Hosts \ {h} : pass'[i] = pass[i]
        /\ pass[h].pc = "rounds" /\ pass[h].unread = {} /\ season'.league = pass[h].table
        /\ UNCHANGED <<record, results, tasks>>
    BY <1>0, <1>11, <2>1 DEF SwapsSeason, Swaps
  <2>3. Served(r) => Served(r)'
    BY <2>1, <2>2 DEF Served
  <2>4. WillRun => WillRun'
    BY <1>9, <2>1, <2>2
  <2>. QED
    BY <1>0, <1>1, <1>3, <2>2, <2>3, <2>4
<1>12. ASSUME NEW h \in Hosts, SwapsResults(h) PROVE Pending(r)' \/ WillRun' \/ Served(r)'
  <2>1. PICK next \in Pass :
          /\ pass' = [pass EXCEPT ![h] = next]
          /\ next.pc = "index" /\ next.dirty = pass[h].dirty
    BY <1>12 DEF SwapsResults, Swaps
  <2>2. /\ pass'[h] = next /\ \A i \in Hosts \ {h} : pass'[i] = pass[i]
        /\ pass[h].pc = "results" /\ results' = pass[h].table
        /\ UNCHANGED <<record, season, tasks>>
    BY <1>0, <1>12, <2>1 DEF SwapsResults, Swaps
  <2>3. \A i \in Hosts \ {h} : pass[i].pc \notin Holding
    BY <1>0, <2>2 DEF Holding
  <2>4. Served(r) => Served(r)'
    <3>. SUFFICES ASSUME Served(r) PROVE Served(r)'
      OBVIOUS
    <3>1. pass[h].table[r] = record[r]
      BY <2>2 DEF Served
    <3>2. (\A i \in Hosts : pass'[i].pc # "rounds") => season'.league[r] = record'[r]
      <4>1. \A i \in Hosts : pass[i].pc # "rounds"
        BY <2>2, <2>3 DEF Holding
      <4>. QED
        BY <2>2, <4>1 DEF Served
    <3>. QED
      BY <2>1, <2>2, <2>3, <3>1, <3>2 DEF Served, Holding
  <2>5. WillRun => WillRun'
    BY <1>9, <2>1, <2>2
  <2>. QED
    BY <1>0, <1>1, <1>3, <2>2, <2>4, <2>5
<1>13. ASSUME NEW h \in Hosts, Rebuilds(h) \/ Stops(h)
       PROVE  Pending(r)' \/ WillRun' \/ Served(r)'
  <2>1. pass[h].pc \in {"index", "copy"}
    BY <1>0, <1>13 DEF Rebuilds, Stops
  <2>2. PICK next \in Pass :
          /\ pass' = [pass EXCEPT ![h] = next]
          /\ \/ next.pc \in {"copy", "idle"} /\ next.dirty = pass[h].dirty
             \/ next.pc = "lock"
    <3>1. CASE Rebuilds(h)
      BY <3>1 DEF Rebuilds
    <3>2. CASE Stops(h)
      <4>1. NoPass.dirty = FALSE /\ NoPass.pc = "idle" /\ pass[h].dirty \in BOOLEAN
        BY <1>0 DEF Pass
      <4>. QED
        BY <3>2, <4>1 DEF Stops
    <3>. QED
      BY <1>13, <3>1, <3>2
  <2>3. /\ pass'[h] = next /\ \A i \in Hosts \ {h} : pass'[i] = pass[i]
        /\ UNCHANGED <<record, season, results, tasks>>
    BY <1>0, <1>13, <2>2 DEF Rebuilds, Stops, blobs
  <2>4. Served(r) => Served(r)'
    BY <2>1, <2>2, <2>3 DEF Served
  <2>5. WillRun => WillRun'
    BY <1>9, <2>1, <2>2
  <2>. QED
    BY <1>0, <1>1, <1>3, <2>3, <2>4, <2>5
<1>14. ASSUME NEW t \in tasks, Abandons(t) PROVE FALSE
  BY <1>0, <1>14 DEF Abandons
<1>15. ASSUME NEW h \in Hosts, Crashes(h) PROVE FALSE
  BY <1>0, <1>15 DEF Crashes
<1>16. CASE Frees
  <2>1. UNCHANGED <<record, season, results, pass, tasks>>
    BY <1>16 DEF Frees, blobs
  <2>. QED
    BY <1>0, <1>1, <1>2, <1>3, <2>1
<1>. QED
  BY <1>4, <1>5, <1>6, <1>7, <1>8, <1>10, <1>11, <1>12, <1>13, <1>14, <1>15, <1>16 DEF Outline

-----------------------------------------------------------------------------
(* One request at a time for each round, with the round as it stands; the  *)
(* index is rebuilt by the host that holds its lease, and an entry or a    *)
(* copy of it that is not current has its request still to come.           *)
Orderly == world \intersect {"overlap", "fail", "crash"} = {}
Publishing(r) == \E t \in tasks : t.round = r /\ t.pc = "publish"

OneRequest == \A t \in tasks, q \in tasks : t.round = q.round => t = q
RequestsCurrent ==
  \A t \in tasks :
    IF t.pc = "write" THEN record[t.round] = 0 /\ t.version = 1
    ELSE record[t.round] >= 1 /\ t.version = record[t.round]
OneBuilder == \A h \in Hosts : pass[h].pc = "copy" <=> builder = h
EntriesKept ==
  \A r \in created :
    record[r] >= 1 /\ index[r] >= 1 /\ (index[r] = record[r] \/ Publishing(r))
CopiesKept ==
  \A h \in Hosts, r \in created :
    pass[h].pc = "copy" =>
      pass[h].table[r] >= 1 /\ (pass[h].table[r] = record[r] \/ Publishing(r))

Indexed ==
  Orderly => OneRequest /\ RequestsCurrent /\ OneBuilder /\ EntriesKept /\ CopiesKept

LEMMA IndexedKept ==
  ASSUME Types, Passes, Indexed, Outline, world' = world
  PROVE  Indexed'
<1>. USE ConstantTypes
<1>. DEFINE all == OneRequest /\ RequestsCurrent /\ OneBuilder /\ EntriesKept /\ CopiesKept
<1>. SUFFICES ASSUME Orderly PROVE all'
  BY DEF Indexed, Orderly
<1>0. /\ pass \in [Hosts -> Pass] /\ tasks \subseteq Task /\ record \in [Rounds -> Versions]
      /\ index \in [Rounds -> Versions] /\ created \subseteq Rounds
      /\ OneRequest /\ RequestsCurrent /\ OneBuilder /\ EntriesKept /\ CopiesKept
      /\ "fail" \notin world /\ "crash" \notin world /\ "overlap" \notin world
  BY DEF Types, Indexed, Orderly
<1>1. ASSUME NEW t \in Task, Begins(t) PROVE all'
  <2>0. t.round \in Rounds
    BY DEF Task
  <2>1. /\ tasks' = tasks \union {t} /\ \A q \in tasks : q.round # t.round
        /\ UNCHANGED <<index, created, builder, pass>>
    BY <1>0, <1>1 DEF Begins, leases
  <2>2. \A r \in Rounds \ {t.round} : record'[r] = record[r]
    BY <1>0, <1>1, <2>0 DEF Begins
  <2>3. \/ /\ t.pc = "write" /\ record'[t.round] = 0
           /\ record[t.round] = 0 /\ t.version = 1
        \/ t.pc = "publish" /\ record'[t.round] >= 1 /\ t.version = record'[t.round]
    <3>1. record[t.round] \in Nat
      BY <1>0, <2>0
    <3>. QED
      BY <1>0, <1>1, <2>0, <3>1 DEF Begins
  <2>4. OneRequest'
    BY <1>0, <2>1 DEF OneRequest
  <2>5. RequestsCurrent'
    <3>. SUFFICES ASSUME NEW q \in tasks'
                  PROVE  IF q.pc = "write" THEN record'[q.round] = 0 /\ q.version = 1
                         ELSE record'[q.round] >= 1 /\ q.version = record'[q.round]
      BY DEF RequestsCurrent
    <3>1. CASE q = t
      BY <2>3, <3>1
    <3>2. CASE q \in tasks
      <4>1. q.round \in Rounds \ {t.round}
        BY <1>0, <2>1, <3>2 DEF Task
      <4>. QED
        BY <1>0, <2>2, <3>2, <4>1 DEF RequestsCurrent
    <3>. QED
      BY <2>1, <3>1, <3>2
  <2>6. OneBuilder'
    BY <1>0, <2>1 DEF OneBuilder
  <2>7. \A r \in created : Publishing(r) => Publishing(r)'
    BY <2>1 DEF Publishing
  <2>8. t.round \in created => Publishing(t.round)' /\ record'[t.round] >= 1
    BY <1>0, <2>1, <2>3 DEF Publishing, EntriesKept
  <2>9. EntriesKept' /\ CopiesKept'
    BY <1>0, <2>1, <2>2, <2>7, <2>8 DEF EntriesKept, CopiesKept
  <2>. QED
    BY <2>4, <2>5, <2>6, <2>9
<1>2. ASSUME NEW t \in tasks, Creates(t) PROVE all'
  <2>0. t \in Task /\ t.round \in Rounds /\ t.pc # "publish"
    BY <1>0, <1>2 DEF Task, Creates
  <2>1. /\ UNCHANGED <<index, created, builder, pass>>
        /\ record' = IF t.pc = "write" THEN [record EXCEPT ![t.round] = 1] ELSE record
    BY <1>2 DEF Creates
  <2>2. \A r \in Rounds \ {t.round} : record'[r] = record[r]
    BY <1>0, <2>1
  <2>3. (record'[t.round] >= 1 /\ t.version = record'[t.round]) \/ tasks' = tasks \ {t}
    BY <1>0, <1>2, <2>0, <2>1 DEF Creates, RequestsCurrent
  <2>4. t.round \in created => record'[t.round] = record[t.round]
    BY <1>0, <2>0, <2>1 DEF EntriesKept, RequestsCurrent
  <2>5. /\ tasks \ {t} \subseteq tasks'
        /\ \A q \in tasks' \ (tasks \ {t}) :
             /\ tasks' = (tasks \ {t}) \union {q}
             /\ q.round = t.round /\ q.version = t.version /\ q.pc # "write"
    BY <1>2 DEF Creates
  <2>6. OneRequest'
    BY <1>0, <2>5 DEF OneRequest
  <2>7. RequestsCurrent'
    <3>. SUFFICES ASSUME NEW q \in tasks'
                  PROVE  IF q.pc = "write" THEN record'[q.round] = 0 /\ q.version = 1
                         ELSE record'[q.round] >= 1 /\ q.version = record'[q.round]
      BY DEF RequestsCurrent
    <3>1. CASE q \in tasks \ {t}
      <4>1. q.round \in Rounds \ {t.round}
        BY <1>0, <3>1 DEF Task, OneRequest
      <4>. QED
        BY <1>0, <2>2, <3>1, <4>1 DEF RequestsCurrent
    <3>2. CASE q \notin tasks \ {t}
      BY <2>3, <2>5, <3>2
    <3>. QED
      BY <3>1, <3>2
  <2>8. OneBuilder'
    BY <1>0, <2>1 DEF OneBuilder
  <2>9. \A r \in created : record'[r] = record[r] /\ (Publishing(r) => Publishing(r)')
    <3>1. \A r \in created : record'[r] = record[r]
      BY <1>0, <2>2, <2>4
    <3>2. \A q \in tasks : q.pc = "publish" => q \in tasks'
      BY <2>0, <2>5
    <3>. QED
      BY <3>1, <3>2 DEF Publishing
  <2>10. EntriesKept' /\ CopiesKept'
    BY <1>0, <2>1, <2>9 DEF EntriesKept, CopiesKept
  <2>. QED
    BY <2>6, <2>7, <2>8, <2>10
<1>3. ASSUME NEW t \in tasks, Shown(t) PROVE all'
  <2>0. t \in Task /\ t.round \in Rounds /\ t.version = record[t.round] /\ record[t.round] >= 1
    BY <1>0, <1>3 DEF Task, Shown, RequestsCurrent
  <2>1. /\ index' = [index EXCEPT ![t.round] = t.version] /\ created' = created \union {t.round}
        /\ UNCHANGED <<record, builder, pass>> /\ builder = None
    BY <1>3 DEF Shown, leases
  <2>2. /\ tasks \ {t} \subseteq tasks'
        /\ \A q \in tasks' \ (tasks \ {t}) :
             /\ tasks' = (tasks \ {t}) \union {q}
             /\ q.round = t.round /\ q.version = t.version /\ q.pc # "write"
    BY <1>3 DEF Shown
  <2>3. OneRequest' /\ RequestsCurrent'
    BY <1>0, <2>0, <2>1, <2>2 DEF OneRequest, RequestsCurrent
  <2>4. OneBuilder' /\ CopiesKept'
    BY <1>0, <2>1 DEF OneBuilder, CopiesKept
  <2>5. \A r \in created \ {t.round} : index'[r] = index[r] /\ (Publishing(r) => Publishing(r)')
    BY <1>0, <2>1, <2>2 DEF Publishing
  <2>6. EntriesKept'
    BY <1>0, <2>0, <2>1, <2>5 DEF EntriesKept
  <2>. QED
    BY <2>3, <2>4, <2>6
<1>4. ASSUME NEW t \in tasks, Called(t) PROVE all'
  <2>1. PICK h \in Hosts : h = t.host
    BY <1>0 DEF Task
  <2>2. PICK next \in Pass :
          /\ pass' = [pass EXCEPT ![h] = next]
          /\ \/ pass[h].pc = "idle" /\ next.pc = "lock"
             \/ next.pc = pass[h].pc /\ next.table = pass[h].table
    BY <1>4, <2>1 DEF Called
  <2>3. /\ pass'[h] = next /\ \A o \in Hosts \ {h} : pass'[o] = pass[o]
        /\ tasks' = tasks \ {t} /\ t.pc # "publish"
        /\ UNCHANGED <<record, index, created, builder>>
    BY <1>0, <1>4, <2>2 DEF Called, blobs, leases
  <2>4. OneRequest' /\ RequestsCurrent'
    BY <1>0, <2>3 DEF OneRequest, RequestsCurrent
  <2>5. OneBuilder'
    BY <1>0, <2>2, <2>3 DEF OneBuilder
  <2>6. \A r \in created : Publishing(r) => Publishing(r)'
    BY <2>3 DEF Publishing
  <2>7. EntriesKept' /\ CopiesKept'
    BY <1>0, <2>2, <2>3, <2>6 DEF EntriesKept, CopiesKept
  <2>. QED
    BY <2>4, <2>5, <2>7
<1>5. ASSUME UNCHANGED <<record, index, created, tasks>>, OneBuilder', CopiesKept' PROVE all'
  BY <1>0, <1>5 DEF OneRequest, RequestsCurrent, EntriesKept, Publishing
<1>6. ASSUME NEW h \in Hosts, NEW next \in Pass, pass' = [pass EXCEPT ![h] = next],
             pass[h].pc # "copy", next.pc # "copy",
             UNCHANGED <<record, created, tasks, builder>>
      PROVE  OneBuilder' /\ CopiesKept'
  <2>1. pass'[h] = next /\ \A o \in Hosts \ {h} : pass'[o] = pass[o]
    BY <1>0, <1>6
  <2>. QED
    BY <1>0, <1>6, <2>1 DEF OneBuilder, CopiesKept, Publishing
<1>7. ASSUME NEW h \in Hosts, Locks(h) \/ Reads(h) \/ SwapsSeason(h) \/ SwapsResults(h) PROVE all'
  <2>1. UNCHANGED <<record, index, created, tasks, builder>>
    BY <1>7 DEF Locks, Reads, SwapsSeason, SwapsResults, Swaps, blobs, leases
  <2>2. OneBuilder' /\ CopiesKept'
    BY <1>6, <1>7, <2>1 DEF Locks, Reads, SwapsSeason, SwapsResults, Swaps
  <2>. QED
    BY <1>5, <2>1, <2>2
<1>8. ASSUME NEW h \in Hosts, Rebuilds(h) PROVE all'
  <2>1. PICK next \in Pass :
          /\ pass' = [pass EXCEPT ![h] = next] /\ next.pc = "copy"
          /\ next.table = [r \in Rounds |-> IF index[r] = 0 THEN 0 ELSE record[r]]
    BY <1>8 DEF Rebuilds
  <2>2. /\ pass'[h] = next /\ \A o \in Hosts \ {h} : pass'[o] = pass[o]
        /\ builder = None /\ builder' = h
        /\ UNCHANGED <<record, index, created, tasks>>
    BY <1>0, <1>8, <2>1 DEF Rebuilds, blobs
  <2>3. \A o \in Hosts : pass[o].pc # "copy"
    BY <1>0, <2>2 DEF OneBuilder
  <2>4. OneBuilder'
    BY <2>1, <2>2, <2>3 DEF OneBuilder
  <2>5. \A r \in created : next.table[r] = record[r] /\ record[r] >= 1
    BY <1>0, <2>1 DEF EntriesKept
  <2>6. CopiesKept'
    BY <2>2, <2>3, <2>5 DEF CopiesKept
  <2>. QED
    BY <1>5, <2>2, <2>4, <2>6
<1>9. ASSUME NEW h \in Hosts, Stops(h) PROVE all'
  <2>1. PICK next \in Pass : pass' = [pass EXCEPT ![h] = next] /\ next.pc # "copy"
    BY <1>9 DEF Stops
  <2>2. /\ pass'[h] = next /\ \A o \in Hosts \ {h} : pass'[o] = pass[o]
        /\ builder' = (IF builder = h THEN None ELSE builder)
        /\ UNCHANGED <<record, created, tasks>>
    BY <1>0, <1>9, <2>1 DEF Stops
  <2>3. OneBuilder'
    BY <1>0, <2>1, <2>2 DEF OneBuilder
  <2>4. CopiesKept'
    BY <1>0, <2>1, <2>2 DEF CopiesKept, Publishing
  <2>5. CASE UNCHANGED index
    BY <1>5, <2>2, <2>3, <2>4, <2>5
  <2>6. CASE pass[h].pc = "copy" /\ index' = pass[h].table
    <3>1. OneRequest' /\ RequestsCurrent'
      BY <1>0, <2>2 DEF OneRequest, RequestsCurrent
    <3>2. EntriesKept'
      BY <1>0, <2>2, <2>6 DEF EntriesKept, CopiesKept, Publishing
    <3>. QED
      BY <2>3, <2>4, <3>1, <3>2
  <2>. QED
    BY <1>0, <1>9, <2>5, <2>6 DEF Stops, OneBuilder
<1>10. CASE Frees
  <2>1. /\ builder' = builder \/ (builder' = None /\ builder # None /\ pass[builder].pc # "copy")
        /\ UNCHANGED <<record, index, created, tasks, pass>>
    BY <1>10 DEF Frees, blobs
  <2>2. builder' = builder
    BY <1>0, <2>1 DEF OneBuilder, Types
  <2>3. OneBuilder' /\ CopiesKept'
    BY <1>0, <2>1, <2>2 DEF OneBuilder, CopiesKept, Publishing
  <2>. QED
    BY <1>5, <2>1, <2>3
<1>11. ASSUME NEW t \in tasks, Abandons(t) PROVE FALSE
  BY <1>0, <1>11 DEF Abandons
<1>12. ASSUME NEW h \in Hosts, Crashes(h) PROVE FALSE
  BY <1>0, <1>12 DEF Crashes
<1>. QED
  BY <1>1, <1>2, <1>3, <1>4, <1>7, <1>8, <1>9, <1>10, <1>11, <1>12 DEF Outline

-----------------------------------------------------------------------------
(* The inductive invariant, and the theorems.                              *)
Inv == Types /\ Passes /\ Locked /\ Unmade /\ Matching /\ Serving /\ Indexed

LEMMA Begin ==
  Init => Inv
<1>. SUFFICES ASSUME Init PROVE Inv
  OBVIOUS
<1>. USE ConstantTypes
<1>. PICK made : made = IF "create" \in world THEN {} ELSE Rounds
  OBVIOUS
<1>. PICK start : start = [r \in Rounds |-> IF r \in made THEN 1 ELSE 0]
  OBVIOUS
<1>1. /\ made \subseteq Rounds /\ start \in [Rounds -> Versions]
      /\ \A r \in Rounds : ~Completed(start[r])
      /\ \A r \in made : start[r] = 1
  BY DEF Completed
<1>2. /\ faults \in [kinds : Worlds, count : {0}]
      /\ record = start /\ index = start /\ created = made
      /\ season = [NoSeason EXCEPT !.listed = made] /\ results = Nothing
      /\ tasks = {} /\ writer = None /\ lock = None /\ builder = None
      /\ pass = [h \in Hosts |-> NoPass]
  BY DEF Init
<1>3. season \in Seasons /\ season.listed = made /\ season.league = Nothing
  BY <1>1, <1>2 DEF Seasons, NoSeason
<1>4. \A h \in Hosts : pass[h] = NoPass
  BY <1>2
<1>5. Types /\ Passes
  BY <1>1, <1>2, <1>3, <1>4 DEF Types, Passes
<1>6. Locked /\ Unmade /\ Matching
  BY <1>2, <1>3, <1>4 DEF Locked, Unmade, Matching, Holding
<1>7. Serving
  BY <1>1, <1>2 DEF Serving
<1>8. Indexed
  BY <1>1, <1>2, <1>4
     DEF Indexed, OneRequest, RequestsCurrent, OneBuilder, EntriesKept, CopiesKept
<1>. QED
  BY <1>5, <1>6, <1>7, <1>8 DEF Inv

LEMMA Step ==
  Inv /\ [Next]_vars => Inv'
<1>. SUFFICES ASSUME Inv, [Next]_vars PROVE Inv'
  OBVIOUS
<1>1. CASE UNCHANGED vars
  BY <1>1 DEF vars, blobs, leases, Inv, Types, Passes, Locked, Unmade, Matching, Unbroken,
              Serving, Undisturbed, Pending, WillRun, Served, Indexed, Orderly, OneRequest,
              RequestsCurrent, OneBuilder, EntriesKept, CopiesKept, Publishing, world
<1>2. CASE Outline
  <2>1. world' = world /\ faults' \in [kinds : Worlds, count : 0 .. MaxFaults]
    BY StepIs DEF Inv
  <2>. QED
    BY <1>2, <2>1, TypesKept, LockedKept, UnmadeKept, MatchingKept, ServingKept, IndexedKept
       DEF Inv
<1>. QED
  BY <1>1, <1>2, StepIs DEF Inv

(* What the inductive invariant says of the season's tables.               *)
LEMMA SeasonFollows ==
  Inv => SeasonIsCurrent
<1>. SUFFICES ASSUME Inv, Quiet PROVE SeasonIsCurrent
  BY DEF SeasonIsCurrent, LeagueIsCurrent, ResultsMatchLeague
<1>0. \A h \in Hosts : pass[h].pc = "idle" /\ ~pass[h].dirty
  BY ConstantTypes DEF Inv, Passes, Quiet
<1>1. LeagueIsCurrent
  <2>. SUFFICES ASSUME Undisturbed, NEW r \in season.listed, Completed(record[r])
                PROVE  season.league[r] = record[r] /\ results[r] = record[r]
    BY DEF LeagueIsCurrent
  <2>1. r \in Rounds
    BY DEF Inv, Types, Seasons
  <2>2. ~Pending(r) /\ ~WillRun
    BY <1>0 DEF Pending, WillRun, Quiet
  <2>3. Served(r)
    BY <2>1, <2>2 DEF Inv, Serving
  <2>. QED
    BY <1>0, <2>3 DEF Served
<1>2. ResultsMatchLeague
  BY <1>0 DEF ResultsMatchLeague, Inv, Matching, Unbroken
<1>. QED
  BY <1>1, <1>2 DEF SeasonIsCurrent

LEMMA IndexFollows ==
  Inv => IndexIsCurrent
BY DEF Inv, Indexed, Orderly, EntriesKept, Publishing, IndexIsCurrent, Quiet

LEMMA TypeFollows ==
  Inv => TypeOK
<1>. SUFFICES ASSUME Inv PROVE TypeOK
  OBVIOUS
<1>1. \A h \in Hosts : pass[h] \in Pass
  BY DEF Inv, Types
<1>. QED
  BY <1>1 DEF Inv, Types, Passes, TypeOK, Task, Pass

LEMMA Invariance ==
  Spec => []Inv
BY Begin, Step, PTL DEF Spec

(* The blobs, the requests, the leases and the passes stay of their types, *)
(* and a host that runs no pass keeps nothing of the one before.           *)
THEOREM TypeCorrect ==
  Spec => []TypeOK
BY Invariance, TypeFollows, PTL

(* However requests and the hosts' passes overlap, once all is quiet the   *)
(* league and the results count every completed round as it stands, and    *)
(* league and results are of one pass (recomputeSeason and the lock of     *)
(* the season), under the conditions the properties name.                  *)
THEOREM SeasonStaysCurrent ==
  Spec => []SeasonIsCurrent
BY Invariance, SeasonFollows, PTL

(* However entries and rebuilds of rounds.json alternate, once all is      *)
(* quiet each entry shows its round as it stands (updateRoundsIndex and    *)
(* the rebuild under the lease of the index).                              *)
THEOREM IndexStaysCurrent ==
  Spec => []IndexIsCurrent
BY Invariance, IndexFollows, PTL

===============================================================================
