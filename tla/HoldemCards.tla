----------------------------- MODULE HoldemCards -----------------------------
(***************************************************************************)
(* A hand of Holdem that is decided by cards: at the showdown a board and  *)
(* the seats' hole cards are revealed and settle_showdown evaluates them.  *)
(* Holdem leaves the strengths open; here they come from HandEvaluator.    *)
(***************************************************************************)
EXTENDS Holdem, HandEvaluator

CONSTANT Deals   \* the boards and hole cards a shuffled deck may reveal

\* The cards come from one deck, so settle_showdown's DuplicateCard and
\* MissingHoleCards do not arise.
ASSUME DealsAssumption ==
  \A d \in Deals :
    /\ d.board \subseteq Deck /\ Cardinality(d.board) = 5
    /\ DOMAIN d.hole = Seats
    /\ \A s \in Seats : /\ d.hole[s] \subseteq Deck \ d.board
                        /\ Cardinality(d.hole[s]) = 2
    /\ \A s, r \in Seats : s # r => d.hole[s] \cap d.hole[r] = {}

VARIABLE deal   \* the revealed cards (NoDeal until the showdown)

cardVars == <<vars, deal>>

NoDeal == [board |-> {}, hole |-> [s \in Seats |-> {}]]

SevenOf(d, s) == d.hole[s] \cup d.board

\* What evaluate_seven makes of the seats' cards in each deal.
DealRanks == [d \in Deals |-> [s \in Seats |-> EvaluateSeven(SevenOf(d, s))]]

CardsInit == Init /\ deal = NoDeal

Bet == (Fold \/ Check \/ Call \/ \E t \in 1 .. MaximumBuyIn : RaiseTo(t)) /\ UNCHANGED deal

Reveal == \E d \in Deals : SettleWith(DealRanks[d]) /\ deal' = d

CardsRest == Rest /\ UNCHANGED deal

CardsNext == Bet \/ Reveal \/ CardsRest

CardsSpec == CardsInit /\ [][CardsNext]_cardVars /\ WF_cardVars(Bet \/ Reveal)

-----------------------------------------------------------------------------
DealReading == [d \in Deals |-> [s \in Seats |-> Reading(SevenOf(d, s))]]

\* The rules of poker decide the money: a contender whose seven cards are
\* beaten by those of a contender who put in as much wins nothing, and equal
\* cards and commitments win the same up to one odd chip per pot
\* (evaluate_seven, settle_showdown and award_split together).
BestHandWins ==
  ShownDown =>
    \A s, r \in RemainingContenders(hand) :
      LET paid  == hand.total_committed
          reads == DealReading[deal]
      IN  /\ reads[s] < reads[r] /\ paid[s] <= paid[r] => Won(s) = 0
          /\ reads[s] = reads[r] /\ paid[s] = paid[r]
               => Won(s) - Won(r) <= Cardinality(Thresholds(paid))

=============================================================================
