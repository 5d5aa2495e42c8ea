SPECIFICATION Spec
CONSTANTS
  Players = {1, 2, 3}
  TableCapacity = 3
  WaitingCapacity = 1
  Setups <- LateJoin
  Nil = Nil
INVARIANT MembershipAgreement
