SPECIFICATION FairSpec
CONSTANTS
  n1 = n1
  n2 = n2
  alice = alice
  bob = bob
  r1 = r1
  Nodes = {n1, n2}
  Accounts = {alice, bob}
  Receipts = {r1}
  MaxRoots = 2
  ArchiveCapacity = 1
  Scenarios <- AllScenarios
  Nil = Nil
INVARIANTS
  TypeOK
  ConfirmedIsHeld
  ShownIsHeld
  IdentityMatchesAccount
CHECK_DEADLOCK FALSE
PROPERTIES
  IdentityIsStable
  DownloadsEnd
  RestoreTriesAllNodes
