\* Three seats after the deal, each with one big blind and a half.
CONSTANTS
  NumSeats = 3
  SmallBlind = 1
  BigBlind = 2
  MinimumBuyIn = 3
  MaximumBuyIn = 3
  HoleSize = 1
  FlopSize = 1
  HandRanks = {1}
  Dealers = {0}
  Profiles <- FullStacks
  Moves = {"Fold","Check","Call"}
  Twins = {}
  Leavers = {}
  Quitters = {}
  MaxDrops = 0
  MaxEarly = 0
  FromDealt = TRUE
  Batched = TRUE
  Nil = Nil
  Gone = Gone
SPECIFICATION Spec
INVARIANTS ActionsAgree  NobodySeesAhead
PROPERTIES PlaysHoldem
