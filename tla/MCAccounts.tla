------------------------------ MODULE MCAccounts ------------------------------
(***************************************************************************)
(* Three accounts, of which the first or the first two exist at first, the *)
(* addresses they have or will have, a pilot id for each that an           *)
(* administrator would derive from its id, and two drawn at random.        *)
(***************************************************************************)
EXTENDS Accounts, TLC

CONSTANTS u1, u2, u3, e1, e2, e3, o1, o2, o3

MCAddressOf == u1 :> e1 @@ u2 :> e2 @@ u3 :> e3
MCOwnPilot == u1 :> o1 @@ u2 :> o2 @@ u3 :> o3
=============================================================================
