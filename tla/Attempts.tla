------------------------------ MODULE Attempts ------------------------------
(***************************************************************************)
(* What a round promises of work that a queue does for it in attempts, as  *)
(* the PDF of its brief and its PureTrack groups: at most one attempt is   *)
(* current, one that is ready stays so until it is cancelled or replaced,  *)
(* one that is over never comes back, and what follows from success, as    *)
(* the mail with the PDF, happens at most once for each attempt.           *)
(***************************************************************************)
EXTENDS Naturals

CONSTANT MaxAttempts

VARIABLES
  started,   \* attempts so far
  current,   \* the current attempt; 0 when there is none
  status,    \* its status
  due,       \* attempts that succeeded and are not announced yet
  announced  \* how often each was

vars == <<started, current, status, due, announced>>

AttemptIds == 1 .. MaxAttempts

Init ==
  /\ started = 0 /\ current = 0 /\ status = "none"
  /\ due = {} /\ announced = [a \in AttemptIds |-> 0]

Start ==
  /\ started < MaxAttempts
  /\ started' = started + 1 /\ current' = started' /\ status' = "pending"
  /\ UNCHANGED <<due, announced>>

Cancel ==
  /\ current' = 0 /\ status' = "none"
  /\ UNCHANGED <<started, due, announced>>

Becomes(from, to) ==
  /\ current # 0 /\ status \in from
  /\ status' = to
  /\ UNCHANGED <<started, current, announced>>

(* A failed attempt may be claimed, and succeed, on a later delivery; one  *)
(* that is to be tried again may be shown as pending meanwhile.            *)
Claim == Becomes({"pending", "failed"}, "processing") /\ UNCHANGED due
GiveBack == Becomes({"processing"}, "pending") /\ UNCHANGED due
Fail == Becomes({"pending", "processing"}, "failed") /\ UNCHANGED due

Succeed ==
  /\ Becomes({"pending", "processing", "failed"}, "ready")
  /\ due' \in {due, due \union {current}}

Announce(a) ==
  /\ a \in due /\ announced[a] = 0
  /\ due' = due \ {a}
  /\ announced' = [announced EXCEPT ![a] = 1]
  /\ UNCHANGED <<started, current, status>>

Forget(a) ==
  /\ a \in due
  /\ due' = due \ {a}
  /\ UNCHANGED <<started, current, status, announced>>

Next ==
  \/ Start \/ Cancel \/ Claim \/ GiveBack \/ Fail \/ Succeed
  \/ \E a \in AttemptIds : Announce(a) \/ Forget(a)

Spec == Init /\ [][Next]_vars
=============================================================================
