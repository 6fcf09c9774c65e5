----------------------------- MODULE MCRescoring -----------------------------
(***************************************************************************)
(* The rescoring of a round (Rescoring) with names of its own, so that it  *)
(* can stand beside the validation of its flights (Flights), another       *)
(* worker with another guard and another queue.                            *)
(***************************************************************************)
EXTENDS Naturals

CONSTANTS
  Slots, Rescores, Rescorers,
  RescoreWorlds, RescoreDequeue, MaxFlights, MaxRescoreFaults

VARIABLES flown, activeGuard, progress, asking, rescoreQueue, rescorer, drawn, rescoreFaults

R == INSTANCE Rescoring
  WITH Jobs <- Rescores, Workers <- Rescorers, Worlds <- RescoreWorlds,
       MaxDequeue <- RescoreDequeue, MaxFaults <- MaxRescoreFaults,
       flight <- flown, guard <- activeGuard, job <- progress, queue <- rescoreQueue,
       run <- rescorer, ids <- drawn, faults <- rescoreFaults

ASSUME RescoringAssumption ==
  /\ UNION RescoreWorlds \subseteq
       {"manual", "delete", "status", "send", "lostSend", "lostRequest", "storage",
        "crash", "stall", "stale"}
  /\ RescoreDequeue \in Nat \ {0} /\ {MaxFlights, MaxRescoreFaults} \subseteq Nat

RescoreSpec == R!FairSpec

-----------------------------------------------------------------------------
(* A job neither touches the score of a flight that is not its own nor     *)
(* stays in the way of the next (applyUpdates, rescoreRound's catch,       *)
(* rescoreWorker's finally).                                               *)
JobsAreSafe == R!JobsAreSafe

(* A job whose message was queued comes to an end: completed, partial or   *)
(* failed (rescoreWorker, markFailed).                                     *)
JobsEnd == R!JobsEnd
=============================================================================
