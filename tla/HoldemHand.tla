----------------------------- MODULE HoldemHand -----------------------------
(***************************************************************************)
(* The betting state of one hand (struct HoldemHand) and its methods, as   *)
(* operators from a hand to the hand the method leaves behind.  Every peer *)
(* of a table replays the same signed actions on such a value, so these    *)
(* operators are the deterministic state machine the protocol replicates.  *)
(***************************************************************************)
EXTENDS SidePots

CONSTANTS SmallBlind, BigBlind, MinimumBuyIn, MaximumBuyIn

\* What StakeLevel::new and HoldemHand::start accept.
ASSUME StakeLevelAssumption ==
  /\ NumSeats \in 2 .. 9
  /\ SmallBlind \in Nat \ {0}
  /\ BigBlind \in Nat /\ SmallBlind < BigBlind
  /\ MinimumBuyIn \in Nat /\ BigBlind <= MinimumBuyIn
  /\ MaximumBuyIn \in Nat /\ MinimumBuyIn <= MaximumBuyIn

None == -1

BettingStreets == {"Preflop", "Flop", "Turn", "River"}
Streets == BettingStreets \cup {"Showdown", "Complete"}
SeatStatuses == {"Active", "Folded", "AllIn"}

ActionablePlayers(h) == {s \in Seats : h.status[s] = "Active"}

RemainingContenders(h) == {s \in Seats : h.status[s] # "Folded"}

\* players.len() < 2
FewerThanTwo(players) == \A i, j \in players : i = j

\* The first pending seat at or clockwise of start.
NextPendingFrom(h, start) ==
  IF h.pending = {} THEN None
  ELSE CHOOSE s \in h.pending :
         \A r \in h.pending : Distance(start, s) <= Distance(start, r)

-----------------------------------------------------------------------------
\* Bug variant: the seat pays what was asked for but only its stack is charged.
Commit_Unclamped(h, i, requested) ==
  [h EXCEPT !.stack[i] = @ - Lesser(requested, @),
            !.total_committed[i] = @ + requested,
            !.street_committed[i] = @ + requested,
            !.status[i] = IF h.stack[i] <= requested THEN "AllIn" ELSE @]

\* Bug variant: the seat is charged what was asked for, chips or no chips.
Commit_Overdraws(h, i, requested) ==
  [h EXCEPT !.stack[i] = @ - requested,
            !.total_committed[i] = @ + requested,
            !.street_committed[i] = @ + requested,
            !.status[i] = IF h.stack[i] = requested THEN "AllIn" ELSE @]

\* Move up to requested chips of seat i into the pot.
Commit(h, i, requested) ==
  LET amount == Lesser(requested, h.stack[i])
  IN  [h EXCEPT !.stack[i] = @ - amount,
                !.total_committed[i] = @ + amount,
                !.street_committed[i] = @ + amount,
                !.status[i] = IF h.stack[i] = amount THEN "AllIn" ELSE @]

ConsumeAction(h, i) == [h EXCEPT !.pending = @ \ {i}, !.raise_rights = @ \ {i}]

ResetPendingForStreet(h) ==
  [h EXCEPT !.pending = ActionablePlayers(h), !.raise_rights = ActionablePlayers(h)]

SmallBlindIndex(dealer) == IF NumSeats = 2 THEN dealer ELSE Clockwise(dealer, 1)
BigBlindIndex(dealer) == Clockwise(dealer, IF NumSeats = 2 THEN 1 ELSE 2)
FirstToAct(dealer) == IF NumSeats = 2 THEN dealer ELSE Clockwise(dealer, 3)

\* HoldemHand::start: the blinds are posted and everybody may act and raise.
Start(dealer, stacks) ==
  LET zero   == [s \in Seats |-> 0]
      seated == [dealer_index |-> dealer, street |-> "Preflop",
                 starting_stack |-> stacks, stack |-> stacks,
                 total_committed |-> zero, street_committed |-> zero,
                 status |-> [s \in Seats |-> "Active"],
                 pending |-> {}, raise_rights |-> {},
                 current_bet |-> BigBlind, last_full_raise |-> BigBlind,
                 next_to_act |-> None]
      blinds == Commit(Commit(seated, SmallBlindIndex(dealer), SmallBlind),
                       BigBlindIndex(dealer), BigBlind)
      ready  == ResetPendingForStreet(blinds)
  IN  [ready EXCEPT !.next_to_act = NextPendingFrom(ready, FirstToAct(dealer))]

-----------------------------------------------------------------------------
\* advance_street.  Once fewer than two seats can still act, the remaining
\* streets are run out without betting, straight to the showdown.
AdvanceStreet(h) ==
  IF h.street = "River"
  THEN [h EXCEPT !.street = "Showdown", !.next_to_act = None]
  ELSE LET next == CASE h.street = "Preflop" -> "Flop"
                     [] h.street = "Flop"    -> "Turn"
                     [] OTHER                -> "River"
           opened == ResetPendingForStreet(
                       [h EXCEPT !.street = next,
                                 !.street_committed = [s \in Seats |-> 0],
                                 !.current_bet = 0,
                                 !.last_full_raise = BigBlind])
       IN  IF FewerThanTwo(opened.pending)
           THEN [opened EXCEPT !.street = "Showdown", !.pending = {}, !.next_to_act = None]
           ELSE [opened EXCEPT !.next_to_act =
                   NextPendingFrom(opened, Clockwise(h.dealer_index, 1))]

Pot(h) == MapThenSumSet(LAMBDA s : h.total_committed[s], Seats)

FinishUncontested(h, winner) ==
  [h EXCEPT !.stack[winner] = @ + Pot(h), !.street = "Complete"]

\* Bug variant: the last seat owing an answer is not asked.
BettingClosed_SkipsLast(h) == FewerThanTwo(h.pending)

BettingClosed(h) == h.pending = {}

\* Bug variant: the turn passes to the next seat whether it owes an answer or not.
PassTurn_NextSeat(h, actor) == [h EXCEPT !.next_to_act = Clockwise(actor, 1)]

PassTurn(h, actor) == [h EXCEPT !.next_to_act = NextPendingFrom(h, Clockwise(actor, 1))]

\* The tail of act, common to all actions.
AfterAction(h, actor) ==
  IF \E w \in Seats : RemainingContenders(h) = {w}
  THEN FinishUncontested(h, CHOOSE w \in Seats : RemainingContenders(h) = {w})
  ELSE IF BettingClosed(h) THEN AdvanceStreet(h) ELSE PassTurn(h, actor)

-----------------------------------------------------------------------------
\* Bug variant: a call may stay one chip below the bet.
AmountToCall_OneShort(h, i) ==
  IF h.current_bet > h.street_committed[i] + 1
  THEN h.current_bet - h.street_committed[i] - 1 ELSE 0

AmountToCall(h, i) ==
  IF h.current_bet > h.street_committed[i] THEN h.current_bet - h.street_committed[i] ELSE 0

MinimumRaiseTo(h) ==
  IF h.current_bet = 0 THEN BigBlind ELSE h.current_bet + h.last_full_raise

\* The checks of raise_to: a seat that has answered may raise again only when
\* it was re-opened, and only an all-in may stay below the minimum.
CanRaiseTo(h, i, target) ==
  /\ i \in h.raise_rights
  /\ target > h.current_bet
  /\ target > h.street_committed[i]
  /\ target - h.street_committed[i] <= h.stack[i]
  /\ target < MinimumRaiseTo(h) => target - h.street_committed[i] = h.stack[i]

\* A full raise re-opens the betting for everybody else.
FullRaise(paid, i, raise) ==
  LET others == ActionablePlayers(paid) \ {i}
  IN  [paid EXCEPT !.last_full_raise = raise, !.pending = others, !.raise_rights = others]

\* Bug variant: a short all-in never re-opens raising, however far it goes.
ShortAllIn_NeverReopens(paid) ==
  [paid EXCEPT !.pending = @ \cup {s \in ActionablePlayers(paid) :
                                     paid.street_committed[s] < paid.current_bet}]

\* A short all-in asks everybody below it for an answer, but lets only those
\* raise who face at least a full raise since they last paid.
ShortAllIn(paid) ==
  LET facing == {s \in ActionablePlayers(paid) : paid.street_committed[s] < paid.current_bet}
  IN  [paid EXCEPT !.pending = @ \cup facing,
                   !.raise_rights = @ \cup {s \in facing :
                      paid.current_bet - paid.street_committed[s] >= paid.last_full_raise}]

RaisedTo(h, i, target) ==
  LET paid == ConsumeAction([Commit(h, i, target - h.street_committed[i])
                               EXCEPT !.current_bet = target], i)
  IN  IF target >= MinimumRaiseTo(h)
      THEN FullRaise(paid, i, target - h.current_bet)
      ELSE ShortAllIn(paid)

ActFold(h) ==
  LET i == h.next_to_act
  IN  AfterAction(ConsumeAction([h EXCEPT !.status[i] = "Folded"], i), i)

CanCheck(h) == h.street_committed[h.next_to_act] = h.current_bet

\* Bug variant: checking does not use up the turn.
ActCheck_KeepsTurn(h) == AfterAction(h, h.next_to_act)

ActCheck(h) == AfterAction(ConsumeAction(h, h.next_to_act), h.next_to_act)

CanCall(h) == AmountToCall(h, h.next_to_act) # 0

ActCall(h) ==
  LET i == h.next_to_act
  IN  AfterAction(ConsumeAction(Commit(h, i, AmountToCall(h, i)), i), i)

ActRaiseTo(h, target) == AfterAction(RaisedTo(h, h.next_to_act, target), h.next_to_act)

\* The ActionOutcome act returns with the hand it leaves.
OutcomeOf(before, after) ==
  CASE after.street = "Complete"    -> "HandComplete"
    [] after.street = "Showdown"    -> "ShowdownReady"
    [] after.street = before.street -> "WaitingFor"
    [] OTHER                        -> "StreetAdvanced"

-----------------------------------------------------------------------------
\* settle_showdown.  When a pot cannot be assigned the pots before it have
\* already been paid and the street stays Showdown.
SettleShowdown(h, rank) ==
  LET contenders == RemainingContenders(h)
  IN  [h EXCEPT !.stack = [s \in Seats |-> @[s] +
                             Payout(contenders, h.total_committed, rank, h.dealer_index, s)],
                !.street = IF SettlementFails(contenders, h.total_committed)
                           THEN "Showdown" ELSE "Complete"]

=============================================================================
