SPECIFICATION Spec
CONSTANTS
  Players = {1, 2}
  TableCapacity = 2
  WaitingCapacity = 1
  Setups <- LeaveRace
  Nil = Nil
INVARIANT LeaverPlaysOn
