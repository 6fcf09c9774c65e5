---------------------------- MODULE MCMigration ----------------------------
(***************************************************************************)
(* Two Complete rounds of one season, flown from one club's site, with a   *)
(* team and its pilot each.  An edit corrects the scores of both and adds  *)
(* a team to the first, or deletes the second and the club's entry and     *)
(* finds that the first is not Complete after all.                         *)
(***************************************************************************)
EXTENDS Migration, TLC

CONSTANTS c1, e1, s1, y1, p1, r1, r2, t1, t2, t3, q1, q2

LOCAL Row(links, data) == [links |-> links, data |-> data]

LOCAL Scored(points) ==
  c1 :> Row({}, "club") @@ e1 :> Row({c1, y1}, "entry") @@ s1 :> Row({c1}, "site") @@ y1 :> Row({}, "season")
    @@ p1 :> Row({c1}, "pilot")
    @@ r1 :> Row({c1, s1, y1}, "Complete") @@ r2 :> Row({c1, s1, y1}, "Complete")
    @@ t1 :> Row({r1, c1}, points) @@ q1 :> Row({t1, p1}, points)
    @@ t2 :> Row({r2, c1}, points) @@ q2 :> Row({t2, p1}, points)

MCSources ==
  { Scored(1),
    Scored(2) @@ t3 :> Row({r1, c1}, 0),
    [Restrict(Scored(1), {c1, s1, y1, p1, r1, t1, q1}) EXCEPT ![r1].data = "Locked"] }
=============================================================================
