\* Three seats, every dealer, starting stacks of two to five small blinds.
CONSTANTS
  NumSeats = 3
  SmallBlind = 1
  BigBlind = 2
  MinimumBuyIn = 2
  MaximumBuyIn = 5
  HandRanks <- MCHandRanks
  Deals <- MCDeals
SPECIFICATION CardsSpec
INVARIANTS
  TypeOK
  BettingIsSound
  FullRaiseReopens
  PotsAreFair
  BestHandWins
PROPERTY HandEnds
