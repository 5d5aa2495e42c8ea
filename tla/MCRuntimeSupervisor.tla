-------------------------- MODULE MCRuntimeSupervisor --------------------------
(***************************************************************************)
(* What a worker prints: once it is ready, a table entered and a hand      *)
(* started there, which goes on; or the pool joined and left again, and a  *)
(* warning that pushes the leave out of the journal.  Left out are the     *)
(* snapshots and the progress in between, each of which replaces the one   *)
(* before it in its slot, and the second worker's ready, which has none.   *)
(***************************************************************************)
EXTENDS RuntimeSupervisor

Sessions ==
  {<<Body("ready"), Body("room_entered"), OfHand("hand_protocol_started", 1, 1)>>,
   <<Body("pool_joined"), Body("pool_cancelled"), Body("warning")>>}

================================================================================
