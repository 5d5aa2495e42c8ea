---------------------------- MODULE MCHoldemCards ----------------------------
(***************************************************************************)
(* Ten boards, each with three pairs of hole cards that the three seats    *)
(* hold in turn: every category, and the cases in which choosing           *)
(* five of seven cards is easy to get wrong.                               *)
(***************************************************************************)
EXTENDS HoldemCards

\* The deck index of the card of rank r (14 is the ace) and suit s.
Card(r, s) == 13 * s + r - 2

Cards(S) == {Card(c[1], c[2]) : c \in S}

\* A board and the hole cards of three players.
Boards == {
  \* the wheel, a six-high straight and a pair of aces
  <<{<<14, 0>>, <<2, 1>>, <<3, 2>>, <<4, 3>>, <<9, 0>>},
    {<<5, 1>>, <<13, 2>>}, {<<5, 2>>, <<6, 3>>}, {<<14, 1>>, <<13, 3>>}>>,
  \* the wheel of one suit, a higher flush and quads
  <<{<<14, 0>>, <<2, 0>>, <<3, 0>>, <<4, 0>>, <<4, 1>>},
    {<<5, 0>>, <<7, 1>>}, {<<13, 0>>, <<12, 1>>}, {<<4, 2>>, <<4, 3>>}>>,
  \* the board plays: a straight to the ace that nobody improves
  <<{<<10, 0>>, <<11, 1>>, <<12, 2>>, <<13, 3>>, <<14, 0>>},
    {<<2, 1>>, <<3, 2>>}, {<<14, 1>>, <<14, 2>>}, {<<9, 3>>, <<8, 0>>}>>,
  \* three pairs: the third pair, or a single card above it, is the kicker
  <<{<<13, 0>>, <<13, 1>>, <<9, 0>>, <<9, 1>>, <<4, 2>>},
    {<<4, 3>>, <<5, 0>>}, {<<10, 3>>, <<10, 2>>}, {<<6, 0>>, <<5, 1>>}>>,
  \* two sets of three, a set and a pair, and two pairs
  <<{<<8, 0>>, <<8, 1>>, <<6, 0>>, <<6, 1>>, <<12, 2>>},
    {<<8, 2>>, <<6, 2>>}, {<<6, 3>>, <<12, 3>>}, {<<2, 0>>, <<3, 1>>}>>,
  \* quads on the board: the kicker decides, or is shared
  <<{<<7, 0>>, <<7, 1>>, <<7, 2>>, <<7, 3>>, <<10, 0>>},
    {<<14, 1>>, <<2, 2>>}, {<<9, 1>>, <<9, 2>>}, {<<5, 0>>, <<3, 3>>}>>,
  \* a flush of six cards against one of five and a straight
  <<{<<3, 2>>, <<6, 2>>, <<9, 2>>, <<7, 0>>, <<8, 1>>},
    {<<2, 2>>, <<14, 2>>}, {<<13, 2>>, <<12, 2>>}, {<<10, 0>>, <<5, 3>>}>>,
  \* one pair and its three kickers
  <<{<<11, 0>>, <<11, 1>>, <<2, 2>>, <<4, 3>>, <<6, 0>>},
    {<<14, 2>>, <<9, 3>>}, {<<14, 3>>, <<9, 0>>}, {<<14, 0>>, <<8, 1>>}>>,
  \* five high cards, the lowest of which decides; an ace and a king make
  \* no straight around the corner
  <<{<<14, 0>>, <<13, 1>>, <<2, 2>>, <<3, 3>>, <<9, 0>>},
    {<<12, 1>>, <<7, 2>>}, {<<12, 2>>, <<8, 3>>}, {<<12, 0>>, <<4, 2>>}>>,
  \* three of a kind with two kickers, and a straight of seven cards
  <<{<<5, 0>>, <<6, 1>>, <<7, 2>>, <<8, 3>>, <<14, 0>>},
    {<<14, 1>>, <<14, 2>>}, {<<9, 0>>, <<10, 1>>}, {<<4, 1>>, <<3, 2>>}>>}

MCDeals ==
  {[board |-> Cards(b[1]), hole |-> [s \in Seats |-> Cards(b[2 + ((s + turn) % 3)])]] :
     b \in Boards, turn \in 0 .. 2}

MCHandRanks == UNION {{DealRanks[d][s] : s \in Seats} : d \in Deals}

=============================================================================
