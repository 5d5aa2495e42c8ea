------------------------------- MODULE Holdem -------------------------------
(***************************************************************************)
(* One hand of no-limit hold'em from the posting of the blinds to the      *)
(* settlement: every choice a seat can make when it is its turn, for every *)
(* dealer, every starting stack within the buy-in range and every outcome  *)
(* of the showdown.                                                        *)
(***************************************************************************)
EXTENDS HoldemHand

CONSTANT HandRanks   \* the strengths seven cards can have, as numbers

ASSUME HandRanksAssumption == HandRanks # {} /\ HandRanks \subseteq Nat

VARIABLES
  hand,      \* the HoldemHand
  outcome,   \* what the last method returned: an ActionOutcome or an error
  ranks      \* the strengths the cards gave at the showdown (for the properties)

vars == <<hand, outcome, ranks>>

Outcomes == {"WaitingFor", "StreetAdvanced", "ShowdownReady", "HandComplete", "StateInvariant"}

Init ==
  /\ \E dealer \in Seats, stacks \in [Seats -> MinimumBuyIn .. MaximumBuyIn] :
       hand = Start(dealer, stacks)
  /\ outcome = "WaitingFor"
  /\ ranks = [s \in Seats |-> 0]

-----------------------------------------------------------------------------
\* commit_action refuses actions once the hand is settled or waits for the
\* showdown cards; act itself refuses when no seat is to act.
CanAct == hand.street \in BettingStreets /\ hand.next_to_act # None

Acts(after) ==
  /\ CanAct
  /\ hand' = after
  /\ outcome' = OutcomeOf(hand, after)
  /\ UNCHANGED ranks

Fold == CanAct /\ Acts(ActFold(hand))

Check == CanAct /\ CanCheck(hand) /\ Acts(ActCheck(hand))

Call == CanAct /\ CanCall(hand) /\ Acts(ActCall(hand))

RaiseTo(target) ==
  /\ CanAct
  /\ CanRaiseTo(hand, hand.next_to_act, target)
  /\ Acts(ActRaiseTo(hand, target))

\* The showdown cards are revealed once; the runtime clears pending_reveal
\* before it settles, so a failed settlement is not tried again.
SettleWith(rank) ==
  /\ hand.street = "Showdown"
  /\ outcome = "ShowdownReady"
  /\ ranks' = rank
  /\ hand' = SettleShowdown(hand, rank)
  /\ outcome' = IF hand'.street = "Complete" THEN "HandComplete" ELSE "StateInvariant"

Settle == \E rank \in [Seats -> HandRanks] : SettleWith(rank)

Finished == outcome \in {"HandComplete", "StateInvariant"}

\* Nothing more happens to this hand.
Rest == Finished /\ UNCHANGED vars

Next ==
  \/ Fold
  \/ Check
  \/ Call
  \/ \E target \in 1 .. MaximumBuyIn : RaiseTo(target)
  \/ Settle
  \/ Rest

\* Every turn is answered: a seat that lets its time run out checks or folds
\* (automatic_local_action), and the cards are shown when betting ends.
Fairness == WF_vars(Fold \/ Check \/ Call \/ (\E t \in 1 .. MaximumBuyIn : RaiseTo(t)) \/ Settle)

Spec == Init /\ [][Next]_vars

FairSpec == Spec /\ Fairness

-----------------------------------------------------------------------------
Hands ==
  [dealer_index : Seats, street : Streets,
   starting_stack : [Seats -> Nat], stack : [Seats -> Nat],
   total_committed : [Seats -> Nat], street_committed : [Seats -> Nat],
   status : [Seats -> SeatStatuses],
   pending : SUBSET Seats, raise_rights : SUBSET Seats,
   current_bet : Nat, last_full_raise : Nat, next_to_act : Seats \cup {None}]

\* Until a pot is paid out the hand has the shape of the code's struct; in
\* particular no seat pays more than it has (Chips is unsigned).
TypeOK ==
  /\ outcome \in Outcomes
  /\ ~Finished => hand \in Hands

Betting == hand.street \in BettingStreets

\* Until a pot is paid out, what a seat has left and what it has put in is
\* what it sat down with: commit moves chips and never makes or loses any.
StacksAccounted ==
  ~Finished => \A s \in Seats :
                 hand.stack[s] + hand.total_committed[s] = hand.starting_stack[s]

\* While betting is open the turn belongs to a seat that owes an answer, a
\* seat owing an answer has chips behind, and nobody may raise out of turn
\* (next_pending_from, consume_action, reset_pending_for_street).
TurnOwed ==
  Betting =>
    /\ hand.next_to_act \in hand.pending
    /\ hand.pending \subseteq ActionablePlayers(hand)
    /\ hand.raise_rights \subseteq hand.pending
    /\ \A s \in ActionablePlayers(hand) : hand.stack[s] > 0

\* A seat that owes no answer and has chips behind has matched the bet of this
\* street, whatever raises and short all-ins came in between (raise_to).
BetsMatched ==
  Betting => \A s \in ActionablePlayers(hand) \ hand.pending :
               hand.street_committed[s] = hand.current_bet

\* A seat that faces at least a full raise since it last paid may raise again,
\* also when several short all-ins add up to it (raise_to).
FullRaiseReopens ==
  Betting => \A s \in hand.pending :
    hand.current_bet - hand.street_committed[s] >= hand.last_full_raise
      => s \in hand.raise_rights

\* Whoever reaches the showdown with chips behind has put in as much as any
\* other seat, folded ones included: no street can close on an unmatched bet.
ShowdownCovered ==
  hand.street = "Showdown" =>
    \A s \in ActionablePlayers(hand), r \in Seats :
      hand.total_committed[r] <= hand.total_committed[s]

\* Betting is sound from the blinds to the showdown: chips are accounted for, the
\* turn is owed, and neither a seat nor a street is done with an unmatched bet.
BettingIsSound == StacksAccounted /\ TurnOwed /\ BetsMatched /\ ShowdownCovered

\* settle_showdown can fail only when every contender is all-in: a contender
\* with chips behind is eligible for every pot.
FailureNeedsAllIn ==
  outcome = "StateInvariant" => ActionablePlayers(hand) = {}

\* The settlement neither creates nor destroys chips and leaves no stack
\* negative (build_settlement's own check never fails).
ZeroSum ==
  outcome = "HandComplete" =>
    /\ hand.stack \in [Seats -> Nat]
    /\ MapThenSumSet(LAMBDA s : hand.stack[s], Seats) =
         MapThenSumSet(LAMBDA s : hand.starting_stack[s], Seats)

Won(s) == hand.stack[s] - (hand.starting_stack[s] - hand.total_committed[s])

\* All that seat s could win: from every seat at most what s itself put in.
Covered(s) ==
  MapThenSumSet(LAMBDA r : Lesser(hand.total_committed[r], hand.total_committed[s]), Seats)

ShownDown == outcome = "HandComplete" /\ ~FewerThanTwo(RemainingContenders(hand))

\* At a showdown nobody wins more from another seat than they put in
\* themselves, and the strictly strongest hand wins all of that
\* (settle_showdown's thresholds).
PotsFollowCoverage ==
  ShownDown =>
    \A s \in Seats :
      /\ Won(s) <= Covered(s)
      /\ s \in RemainingContenders(hand)
           /\ (\A r \in RemainingContenders(hand) \ {s} : ranks[r] < ranks[s])
           => Won(s) = Covered(s)

\* Two contenders with equal hands and equal commitments win the same up to
\* one odd chip per pot they share (award_split).
EqualHandsEqualShares ==
  ShownDown =>
    \A s, r \in RemainingContenders(hand) :
      ranks[s] = ranks[r] /\ hand.total_committed[s] = hand.total_committed[r]
        => Won(s) - Won(r) <= Cardinality(Thresholds(hand.total_committed))

\* The pots are fair: no chip is lost, each seat wins from what it covers, and
\* equal hands share (settle_showdown, award_split).
PotsAreFair == ZeroSum /\ PotsFollowCoverage /\ EqualHandsEqualShares

\* Every hand ends: betting cannot go round for ever (act, advance_street).
HandEnds == <>Finished

-----------------------------------------------------------------------------
\* The strengthening the proofs need.  While betting is open, a seat with
\* chips behind has paid at least as much on the earlier streets as any other,
\* so matching the bet of this street is matching it over the whole hand.
HandCore(h) ==
  /\ h \in Hands
  /\ h.street \in BettingStreets
  /\ h.pending \subseteq ActionablePlayers(h)
  /\ h.raise_rights \subseteq h.pending
  /\ \A s \in Seats :
       /\ h.stack[s] + h.total_committed[s] = h.starting_stack[s]
       /\ h.street_committed[s] <= h.current_bet
       /\ h.status[s] = "Active" => h.stack[s] > 0
  /\ \A s \in ActionablePlayers(h) \ h.pending : h.street_committed[s] = h.current_bet
  /\ \A s \in h.pending :
       h.current_bet - h.street_committed[s] >= h.last_full_raise => s \in h.raise_rights
  /\ \A s \in ActionablePlayers(h), r \in Seats :
       h.total_committed[r] - h.street_committed[r] <= h.total_committed[s] - h.street_committed[s]

HandOpen(h) ==
  HandCore(h) /\ h.next_to_act \in h.pending /\ ~FewerThanTwo(RemainingContenders(h))

HandClosed(h) ==
  /\ h \in Hands
  /\ h.street = "Showdown"
  /\ \A s \in Seats : h.stack[s] + h.total_committed[s] = h.starting_stack[s]
  /\ \A s \in ActionablePlayers(h), r \in Seats : h.total_committed[r] <= h.total_committed[s]

\* The inductive invariant behind the theorems of HoldemProofs.
IInv ==
  /\ outcome \in Outcomes
  /\ ~Finished => HandOpen(hand) \/ HandClosed(hand)
  /\ Finished => hand.street \in {"Showdown", "Complete"}
  /\ ShowdownCovered
  /\ FailureNeedsAllIn

\* What the error "牌局状态不变量被破坏" (the hand's state invariant is broken)
\* claims never happens: settle_showdown finds an owner for every pot.
SettlementSucceeds == outcome # "StateInvariant"

=============================================================================
