-------------------------- MODULE MCRoundLifecycle --------------------------
(* Small instances of RoundLifecycle for TLC.                              *)
EXTENDS RoundLifecycle, TLC

CONSTANTS r1, r2, p1, p2, t1, t2, Calm, Windy, CalmHash, WindyHash

MCMaterials == {Calm, Windy}
MCHashes == {CalmHash, WindyHash}
MCHashOf == Calm :> CalmHash @@ Windy :> WindyHash
CalmHashOf == Calm :> CalmHash

(* A lock against brief edits, brief-completes and unlocks. *)
LockRaces == r1 :> {"lock"} @@ r2 :> {"briefComplete", "editBrief", "unlock"}

(* Two locks, edits apart: what a lock reads before its leases. *)
RosterRaces == r1 :> {"lock"} @@ r2 :> {"briefComplete"}

(* One request at a time. *)
OneAtATime == r1 :> {"briefComplete", "lock", "unlock", "editBrief"}

AnyKind == [p \in Requests |-> {"briefComplete", "lock", "unlock", "editBrief"}]
=============================================================================
