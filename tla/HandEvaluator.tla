---------------------------- MODULE HandEvaluator ----------------------------
(***************************************************************************)
(* The strength of seven cards (evaluate_seven): the best of the 21 ways   *)
(* to choose five of them.  A card is its index in the deck, a HandRank is *)
(* the number its category and kickers spell in base 15, which orders hand *)
(* ranks as the derived Ord of the struct does.  Pure operators; the       *)
(* evaluator does not depend on the order of the cards, so cards are sets. *)
(***************************************************************************)
EXTENDS Integers, FiniteSets, FiniteSetsExt, SequencesExt

Deck == 0 .. 51

\* Card::from_deck_index: thirteen ranks (2 .. 14, the ace is 14) per suit.
RankOf(card) == (card % 13) + 2

SuitOf(card) == card \div 13

RanksOf(cards) == {RankOf(c) : c \in cards}

CountOf(cards, r) == Cardinality({c \in cards : RankOf(c) = r})

\* HandCategory, weakest first.
HighCard      == 0
OnePair       == 1
TwoPair       == 2
ThreeOfAKind  == 3
Straight      == 4
Flush         == 5
FullHouse     == 6
FourOfAKind   == 7
StraightFlush == 8

\* rank(): at most five kickers, padded with zeros.
HandRank(category, kickers) ==
  FoldLeft(LAMBDA n, i : 15 * n + (IF i <= Len(kickers) THEN kickers[i] ELSE 0),
           category, <<1, 2, 3, 4, 5>>)

\* Bug variant: the ace is never the low end of a straight.
StraightHigh_NoWheel(unique) ==
  IF Cardinality(unique) = 5 /\ Max(unique) - Min(unique) = 4 THEN Max(unique) ELSE 0

\* The rank a straight of five different ranks ends at; 0 is None.
StraightHigh(unique) ==
  IF Cardinality(unique) # 5 THEN 0
  ELSE IF unique = {2, 3, 4, 5, 14} THEN 5
  ELSE IF Max(unique) - Min(unique) = 4 THEN Max(unique) ELSE 0

\* The elements of S by their keys, which differ, the highest first.
InOrder(S, key) ==
  [i \in 1 .. Cardinality(S) |->
     CHOOSE x \in S : Cardinality({y \in S : key[y] > key[x]}) = i - 1]

\* The ranks of the cards, the most frequent first, then the highest.
Groups(cards) ==
  InOrder(RanksOf(cards), [r \in RanksOf(cards) |-> 15 * CountOf(cards, r) + r])

\* evaluate_five.  Each branch of the code takes its kickers from the groups,
\* except that a straight counts by its high card alone; five cards of one
\* suit have five ranks, so their descending ranks are the groups too.
EvaluateFive(five) ==
  LET groups  == Groups(five)
      count   == [i \in 1 .. Len(groups) |-> CountOf(five, groups[i])]
      flush   == Cardinality({SuitOf(c) : c \in five}) = 1
      high    == StraightHigh(RanksOf(five))
  IN  IF flush /\ high # 0 THEN HandRank(StraightFlush, <<high>>)
      ELSE IF count[1] = 4 THEN HandRank(FourOfAKind, groups)
      ELSE IF count[1] = 3 /\ count[2] = 2 THEN HandRank(FullHouse, groups)
      ELSE IF flush THEN HandRank(Flush, groups)
      ELSE IF high # 0 THEN HandRank(Straight, <<high>>)
      ELSE IF count[1] = 3 THEN HandRank(ThreeOfAKind, groups)
      ELSE IF count[1] = 2 /\ count[2] = 2 THEN HandRank(TwoPair, groups)
      ELSE IF count[1] = 2 THEN HandRank(OnePair, groups)
      ELSE HandRank(HighCard, groups)

EvaluateSeven(cards) == Max({EvaluateFive(five) : five \in kSubset(5, cards)})

-----------------------------------------------------------------------------
(* The rules of poker read off all seven cards at once, without trying the *)
(* choices of five: the reference the evaluator is compared with.          *)

Best(S) == IF S = {} THEN 0 ELSE Max(S)

\* The n highest members of S, highest first.
Top(n, S) == SubSeq(InOrder(S, [x \in S |-> x]), 1, Min({n, Cardinality(S)}))

\* The highest straight among these ranks, the ace being both 1 and 14.
StraightIn(unique) ==
  LET both == unique \cup (IF 14 \in unique THEN {1} ELSE {})
  IN  Best({h \in 5 .. 14 : (h - 4) .. h \subseteq both})

OfSuit(cards, suit) == RanksOf({c \in cards : SuitOf(c) = suit})

Reading(cards) ==
  LET unique     == RanksOf(cards)
      atLeast(n) == {r \in unique : CountOf(cards, r) >= n}
      rest(used) == unique \ used
      suited     == Best({StraightIn(OfSuit(cards, s)) : s \in 0 .. 3})
      four       == Best(atLeast(4))
      three      == Best(atLeast(3))
      full       == Best(atLeast(2) \ {three})
      flushes    == {s \in 0 .. 3 : Cardinality(OfSuit(cards, s)) >= 5}
      pairs      == Top(2, atLeast(2))
      straight   == StraightIn(unique)
  IN  IF suited # 0 THEN HandRank(StraightFlush, <<suited>>)
      ELSE IF four # 0 THEN HandRank(FourOfAKind, <<four>> \o Top(1, rest({four})))
      ELSE IF three # 0 /\ full # 0 THEN HandRank(FullHouse, <<three, full>>)
      ELSE IF flushes # {}
      THEN HandRank(Flush, Top(5, OfSuit(cards, CHOOSE s \in flushes : TRUE)))
      ELSE IF straight # 0 THEN HandRank(Straight, <<straight>>)
      ELSE IF three # 0 THEN HandRank(ThreeOfAKind, <<three>> \o Top(2, rest({three})))
      ELSE IF Len(pairs) = 2
      THEN HandRank(TwoPair, pairs \o Top(1, rest({pairs[1], pairs[2]})))
      ELSE IF Len(pairs) = 1
      THEN HandRank(OnePair, pairs \o Top(3, rest({pairs[1]})))
      ELSE HandRank(HighCard, Top(5, unique))

=============================================================================
