\* Three seats after the deal.  Seat 1, who covers the others, may sign two actions for
\* one turn; seat 2 may drop the hand.
CONSTANTS
  NumSeats = 3
  SmallBlind = 1
  BigBlind = 2
  MinimumBuyIn = 2
  MaximumBuyIn = 3
  HoleSize = 1
  FlopSize = 1
  HandRanks = {1}
  Dealers = {0}
  Profiles <- SeatOneCovers
  Moves = {"Fold","Call","RaiseTo"}
  Twins = {1}
  Leavers = {}
  Quitters = {2}
  MaxDrops = 0
  MaxEarly = 0
  FromDealt = TRUE
  Batched = TRUE
  Nil = Nil
  Gone = Gone
SPECIFICATION Spec
INVARIANTS HoleCardsStayPrivate ReceiptsAgree
PROPERTIES ConflictFreezes
