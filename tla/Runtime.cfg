SPECIFICATION FairSpec
CONSTANTS
  Nil = Nil
  Clients = {c1}
  Scripts <- Sessions
  EventLimit = 1
  BroadcastCapacity = 1
  OutputCapacity = 1
  PipeCapacity = 1
  MaxFaults = 2
INVARIANTS
  TypeOK
  JournalOfOneWorker
  EveryEventArrives
  ShowsTheSession
PROPERTY
  EndsUpCurrent
CHECK_DEADLOCK FALSE
