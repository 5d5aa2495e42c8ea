SPECIFICATION FairSpec
CONSTANTS
  Players = {1, 2, 3}
  Tables = {1, 2, 3}
  TableCapacity = 3
  WaitingCapacity = 1
  LastVersion = 4
  Setups <- MCSetups
  Nil = Nil
INVARIANTS TypeOK RoomMatchesPhase 
PROPERTIES NobodyIsLeftBehind PlayersMeet
CHECK_DEADLOCK FALSE
