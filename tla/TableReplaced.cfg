SPECIFICATION Spec
CONSTANTS
  Players = {1, 2, 3}
  TableCapacity = 3
  WaitingCapacity = 1
  Setups <- JoinRace
  Nil = Nil
PROPERTY UnfinishedHandIsKept
