\* The table is empty once everybody has left, so the system may stop.
CHECK_DEADLOCK FALSE
SPECIFICATION FairSpec
CONSTANTS
  Players = {1, 2, 3}
  TableCapacity = 3
  WaitingCapacity = 1
  Setups <- Tables
  Nil = Nil
INVARIANTS
  TypeOK LayoutIsSound EverythingIsSigned
  HandsStayInStep
PROPERTIES LeaveIsCertified SeatsSurvive JoinersGetToPlay
