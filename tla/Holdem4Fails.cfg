\* Four seats, to see settle_showdown give up.
CONSTANTS
  NumSeats = 4
  SmallBlind = 1
  BigBlind = 2
  MinimumBuyIn = 2
  MaximumBuyIn = 5
  HandRanks = {1}
SPECIFICATION Spec
INVARIANT SettlementSucceeds
