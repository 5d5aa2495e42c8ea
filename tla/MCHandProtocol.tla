---------------------------- MODULE MCHandProtocol ----------------------------
(***************************************************************************)
(* Starting stacks for model checking HandProtocol.                        *)
(***************************************************************************)
EXTENDS HandProtocol

\* Everybody has the maximum buy-in.
FullStacks == {[s \in Seats |-> MaximumBuyIn]}

\* Seat 1 covers the others: once they are all in, its call and its raise both
\* end the betting, and the hand can be settled after either.
SeatOneCovers ==
  {[s \in Seats |-> IF s = 1 THEN MaximumBuyIn ELSE MinimumBuyIn]}

=============================================================================
