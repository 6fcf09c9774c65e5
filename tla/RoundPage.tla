------------------------------ MODULE RoundPage ------------------------------
(***************************************************************************)
(* The page of one round.  While the groups of the round are being made    *)
(* it asks for the round again and again, each time after a longer delay,  *)
(* and gives up with a notice; what the user does loads the round as well, *)
(* and the answers arrive in any order.  An administrator rescores the     *)
(* round in a dialog that has no button until the job is over.             *)
(***************************************************************************)
EXTENDS Naturals

CONSTANTS
  Polls,     \* BOUND: requests of the dialog in flight
  MaxPolls,  \* RoundDetail.tsx: 15 polls; RescoreRoundButton.tsx: MAX_POLLS
  MaxMoves,  \* BOUND: changes at the server
  MaxLoads   \* BOUND: what the user does

VARIABLES
  status,    \* pureTrack.status of the round at the server
  moves,
  round,     \* the status the page shows; "none" before the round is there
  count, notice,  \* ptPollCount, ptPollTimeout
  watch,     \* the timer of the effect, or the poll it became
  load,      \* other requests for the round, with the status they read
  loads,
  phase,     \* RescoreRoundButton: phase
  interval,  \* intervalRef
  polls,     \* polls of the dialog in flight
  tries,     \* pollCountRef
  posts      \* jobs asked for and not answered

server == <<status, moves>>
detail == <<round, count, notice, watch, load, loads>>
dialog == <<phase, interval, polls, tries, posts>>
vars == <<server, detail, dialog>>

-----------------------------------------------------------------------------
Statuses == {"none", "pending", "processing", "ready", "failed"}
Loads == {"first", "reload", "refresh"}
Off == [at |-> "off", saw |-> "none"]
Timer == [at |-> "timer", saw |-> "none"]

TypeOK ==
  /\ status \in Statuses /\ round \in Statuses
  /\ count \in 0 .. MaxPolls /\ notice \in BOOLEAN
  /\ watch \in [at : {"off", "timer", "asked"}, saw : Statuses]
  /\ load \in [Loads -> {"off"} \union Statuses]
  /\ phase \in {"idle", "confirming", "enqueuing", "polling", "success", "error", "timeout"}
  /\ interval \in BOOLEAN /\ polls \in 0 .. Polls /\ tries \in 0 .. MaxPolls /\ posts \in 0 .. 2

Making(s) == s \in {"pending", "processing"}

(* The effect of the page on what it depends on: it counts no further than *)
(* MaxPolls, then shows the notice; when the groups are made, or failed,   *)
(* it counts from nothing again.                                           *)
Settled(s, c, n) ==
  IF Making(s) THEN [count |-> c, notice |-> n \/ c >= MaxPolls]
  ELSE [count |-> 0, notice |-> IF c > 0 THEN FALSE ELSE n]

(* The page with status s, count c and notice n.  If one of them is new    *)
(* the effect runs again: the timer or poll it had is cancelled.           *)
Renders(s, c, n, was) ==
  LET t == Settled(s, c, n)
  IN /\ round' = s /\ count' = t.count /\ notice' = t.notice
     /\ watch' = IF <<s, t.count, t.notice>> = <<round, count, notice>> THEN was
                 ELSE IF Making(s) /\ t.count < MaxPolls THEN Timer ELSE Off

-----------------------------------------------------------------------------
(* The worker, or an administrator who locks or unlocks the round.         *)
ServerMoves ==
  /\ moves < MaxMoves /\ moves' = moves + 1
  /\ \/ status # "pending" /\ status' = "pending"
     \/ status = "pending" /\ status' \in {"processing", "none"}
     \/ status = "processing" /\ status' \in {"ready", "failed"}
  /\ UNCHANGED <<detail, dialog>>

(* loadRound: what the user does reads the round once more, and nobody     *)
(* cancels it; Refresh is there with the notice only.                      *)
Load(k) ==
  /\ load[k] = "off" /\ loads < MaxLoads
  /\ k = "refresh" => notice /\ Making(round)
  /\ k # "first"
  /\ load' = [load EXCEPT ![k] = status] /\ loads' = loads + 1
  /\ UNCHANGED <<server, round, count, notice, watch, dialog>>

Loaded(k) ==
  /\ load[k] # "off"
  /\ load' = [load EXCEPT ![k] = "off"]
  /\ \E s \in {load[k], round} :  \* the round that was read, or none if that failed
       IF k = "refresh" THEN Renders(s, 0, FALSE, watch) ELSE Renders(s, count, notice, watch)
  /\ UNCHANGED <<server, loads, dialog>>

(* The timer goes off.                                                     *)
Poll ==
  /\ watch.at = "timer"
  /\ watch' = [at |-> "asked", saw |-> status]
  /\ UNCHANGED <<server, round, count, notice, load, loads, dialog>>

(* Mutant: only an answer counts, and a poll that failed is the last.      *)
PolledIfAnswered ==
  /\ watch.at = "asked"
  /\ Renders(watch.saw, count + 1, notice, Off) \/ Renders(round, count, notice, Off)
  /\ UNCHANGED <<server, load, loads, dialog>>

(* The poll counts whether it failed or not.  The round and the count may  *)
(* be rendered one after the other, and then the count is not raised.      *)
Polled ==
  /\ watch.at = "asked"
  /\ \/ \E s \in {watch.saw, round} : Renders(s, count + 1, notice, Off)
     \/ watch.saw # round /\ Renders(watch.saw, count, notice, Off)
  /\ UNCHANGED <<server, load, loads, dialog>>

-----------------------------------------------------------------------------
(* RescoreRoundButton.  The button is disabled while a job is on its way.  *)
Busy == phase \in {"enqueuing", "polling"}

Confirming ==
  /\ ~Busy /\ phase' = "confirming"
  /\ UNCHANGED <<server, detail, interval, polls, tries, posts>>

Close ==
  /\ phase \in {"confirming", "success", "error", "timeout"}
  /\ phase' = "idle" /\ interval' = FALSE
  /\ UNCHANGED <<server, detail, polls, tries, posts>>

Confirm ==
  /\ phase = "confirming" /\ posts < 2 /\ loads < MaxLoads
  /\ phase' = "enqueuing" /\ posts' = posts + 1 /\ loads' = loads + 1
  /\ UNCHANGED <<server, round, count, notice, watch, load, interval, polls, tries>>

Enqueued ==
  /\ posts > 0 /\ posts' = posts - 1
  /\ \/ phase' = "polling" /\ interval' = TRUE /\ tries' = 0
     \/ phase' = "error" /\ UNCHANGED <<interval, tries>>
  /\ UNCHANGED <<server, detail, polls>>

(* The interval does not wait for the poll before.                         *)
Tick ==
  /\ interval /\ polls < Polls
  /\ polls' = polls + 1 /\ tries' = IF tries < MaxPolls THEN tries + 1 ELSE tries
  /\ UNCHANGED <<server, detail, phase, interval, posts>>

Stops(next) == interval' = FALSE /\ phase' = next

(* A late answer may be about the job before.                              *)
Answered ==
  /\ polls > 0 /\ polls' = polls - 1
  /\ \/ Stops("success") /\ load' = [load EXCEPT !["reload"] = IF @ = "off" THEN status ELSE @]
     \/ Stops("error") /\ UNCHANGED load
     \/ /\ IF tries = MaxPolls THEN Stops("timeout") ELSE UNCHANGED <<phase, interval>>
        /\ UNCHANGED load
  /\ UNCHANGED <<server, round, count, notice, watch, loads, tries, posts>>

AtRest ==
  /\ watch = Off /\ \A k \in Loads : load[k] = "off"
  /\ ~Busy /\ polls = 0 /\ posts = 0

Init ==
  /\ status \in Statuses /\ moves = 0
  /\ round = "none" /\ count = 0 /\ notice = FALSE /\ watch = Off
  /\ load = [k \in Loads |-> IF k = "first" THEN status ELSE "off"] /\ loads = 0
  /\ phase = "idle" /\ interval = FALSE /\ polls = 0 /\ tries = 0 /\ posts = 0

Next ==
  \/ ServerMoves \/ Poll \/ Polled
  \/ \E k \in Loads : Load(k) \/ Loaded(k)
  \/ Confirming \/ Close \/ Confirm \/ Enqueued \/ Tick \/ Answered
  \/ AtRest /\ UNCHANGED vars

Spec == Init /\ [][Next]_vars

-----------------------------------------------------------------------------
(* A page that shows groups being made asks again, or says that it has     *)
(* given up, in whatever order rounds, polls and their failures arrive     *)
(* (RoundDetail, the effect on pureTrack.status).                          *)
MakingIsWatched == Making(round) => watch.at # "off" \/ notice

(* The overlay without a button has a request or an interval behind it     *)
(* that will take it away (RescoreRoundButton: onConfirm, pollOnce).       *)
OverlayEnds ==
  /\ phase = "enqueuing" => posts > 0
  /\ phase = "polling" => interval

PageKeepsWatch == MakingIsWatched /\ OverlayEnds
=============================================================================
