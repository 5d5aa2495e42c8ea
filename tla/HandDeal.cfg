\* Two seats, from the key exchange to the receipt.  Seat 0 may ask to leave and one
\* connection may break.
CONSTANTS
  NumSeats = 2
  SmallBlind = 1
  BigBlind = 2
  MinimumBuyIn = 3
  MaximumBuyIn = 3
  HoleSize = 1
  FlopSize = 2
  HandRanks = {1}
  Dealers = {0}
  Profiles <- FullStacks
  Moves = {"Fold","Check","Call","RaiseTo"}
  Twins = {}
  Leavers = {0}
  Quitters = {}
  MaxDrops = 1
  MaxEarly = 2
  FromDealt = FALSE
  Batched = FALSE
  Nil = Nil
  Gone = Gone
SPECIFICATION FairSpec
INVARIANTS TypeOK DealtBeforeBetting StatesAgree
PROPERTIES HandCompletes
