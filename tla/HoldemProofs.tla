---------------------------- MODULE HoldemProofs ----------------------------
(***************************************************************************)
(* Proofs about the betting state machine, for any number of seats, any    *)
(* blinds, any buy-in range and any starting stacks.                       *)
(***************************************************************************)
EXTENDS Holdem, NaturalsInduction, WellFoundedInduction, TLAPS

\* A non-empty set of natural numbers has a least element.
LEMMA LeastNatural ==
  ASSUME NEW T \in SUBSET Nat, T # {}
  PROVE  \E m \in T : \A n \in T : m <= n
<1>1. PICK m \in T : \A n \in T : ~(<<n, m>> \in OpToRel(<, Nat))
  BY NatLessThanWellFounded, WFMin, Zenon
<1>2. \A n \in Nat : n < m => <<n, m>> \in OpToRel(<, Nat)
  BY Zenon DEF OpToRel
<1>3. \A n \in T : ~(n < m)
  BY <1>1, <1>2, Zenon
<1> QED
  BY <1>3

\* next_pending_from finds a pending seat whenever there is one.
LEMMA NextPendingIsPending ==
  ASSUME NEW h, h.pending \in SUBSET Seats, h.pending # {}, NEW start \in Seats
  PROVE  NextPendingFrom(h, start) \in h.pending
<1> DEFINE D == {Distance(start, s) : s \in h.pending}
<1>1. D \in SUBSET Nat /\ D # {}
  BY StakeLevelAssumption DEF Distance, Seats
<1>2. PICK m \in D : \A n \in D : m <= n
  BY <1>1, LeastNatural
<1>3. PICK s \in h.pending : Distance(start, s) = m
  BY <1>2
<1>4. \A r \in h.pending : Distance(start, s) <= Distance(start, r)
  BY <1>2, <1>3
<1> QED
  BY <1>4 DEF NextPendingFrom

-----------------------------------------------------------------------------
\* clockwise_index wraps around the table: it always names a seat.
LEMMA ClockwiseSeat ==
  ASSUME NEW s \in Seats, NEW o \in 0 .. NumSeats
  PROVE  Clockwise(s, o) \in Seats
  BY StakeLevelAssumption DEF Clockwise, Seats

\* A hand and a later version of it that differ in the chips of their seats
\* only: what commit may change.
SameTable(h, c) ==
  /\ c.dealer_index = h.dealer_index
  /\ c.street = h.street
  /\ c.starting_stack = h.starting_stack
  /\ c.current_bet = h.current_bet
  /\ c.last_full_raise = h.last_full_raise

\* Moving chips of a seat into the pot keeps every seat accounted for.
LEMMA CommitMoves ==
  ASSUME NEW h \in Hands, NEW i \in Seats, NEW requested \in Nat,
         NEW c, c = Commit(h, i, requested),
         NEW a, a = Lesser(requested, h.stack[i])
  PROVE  /\ a \in 0 .. h.stack[i]
         /\ c \in Hands
         /\ SameTable(h, c)
         /\ c.pending = h.pending
         /\ c.raise_rights = h.raise_rights
         /\ c.next_to_act = h.next_to_act
         /\ c.stack = [h.stack EXCEPT ![i] = @ - a]
         /\ c.total_committed = [h.total_committed EXCEPT ![i] = @ + a]
         /\ c.street_committed = [h.street_committed EXCEPT ![i] = @ + a]
         /\ c.status = [h.status EXCEPT ![i] = IF h.stack[i] = a THEN "AllIn" ELSE @]
<1>1. h.stack[i] \in Nat
  BY DEF Hands
<1>2. a \in 0 .. h.stack[i]
  BY <1>1 DEF Lesser
<1>3. c = [h EXCEPT !.stack[i] = @ - a, !.total_committed[i] = @ + a,
                    !.street_committed[i] = @ + a,
                    !.status[i] = IF h.stack[i] = a THEN "AllIn" ELSE @]
  BY DEF Commit
<1>4. /\ SameTable(h, c)
      /\ c.pending = h.pending
      /\ c.raise_rights = h.raise_rights
      /\ c.next_to_act = h.next_to_act
  BY <1>3 DEF Hands, SameTable
<1>5. /\ c.stack = [h.stack EXCEPT ![i] = @ - a]
      /\ c.total_committed = [h.total_committed EXCEPT ![i] = @ + a]
      /\ c.street_committed = [h.street_committed EXCEPT ![i] = @ + a]
      /\ c.status = [h.status EXCEPT ![i] = IF h.stack[i] = a THEN "AllIn" ELSE @]
  BY <1>3 DEF Hands
<1>6. /\ [h.stack EXCEPT ![i] = @ - a] \in [Seats -> Nat]
      /\ [h.total_committed EXCEPT ![i] = @ + a] \in [Seats -> Nat]
      /\ [h.street_committed EXCEPT ![i] = @ + a] \in [Seats -> Nat]
  BY <1>2 DEF Hands
<1>7. [h.status EXCEPT ![i] = IF h.stack[i] = a THEN "AllIn" ELSE @] \in [Seats -> SeatStatuses]
  BY DEF Hands, SeatStatuses
<1>8. c \in Hands
  BY ZenonT(120), <1>3, <1>6, <1>7 DEF Hands
<1> QED
  BY <1>2, <1>4, <1>5, <1>8

-----------------------------------------------------------------------------
\* Using up the turn changes only who owes an answer and who may raise.
LEMMA ConsumeMoves ==
  ASSUME NEW h \in Hands, NEW i \in Seats, NEW c, c = ConsumeAction(h, i)
  PROVE  /\ c \in Hands
         /\ SameTable(h, c)
         /\ c.pending = h.pending \ {i}
         /\ c.raise_rights = h.raise_rights \ {i}
         /\ c.stack = h.stack
         /\ c.total_committed = h.total_committed
         /\ c.street_committed = h.street_committed
         /\ c.status = h.status
  BY DEF ConsumeAction, Hands, SameTable

\* Whose turn it is, in an open hand.
LEMMA OpenActor ==
  ASSUME NEW h, HandOpen(h), NEW i, i = h.next_to_act
  PROVE  i \in Seats /\ i \in h.pending /\ h.status[i] = "Active" /\ h.stack[i] \in Nat \ {0}
         /\ h.street_committed[i] \in Nat /\ h.current_bet \in Nat
  BY DEF HandOpen, HandCore, ActionablePlayers, Hands

\* Folding keeps the hand well formed for the seats that stay.
LEMMA FoldCore ==
  ASSUME NEW h, HandOpen(h), NEW i, i = h.next_to_act,
         NEW m, m = ConsumeAction([h EXCEPT !.status[i] = "Folded"], i)
  PROVE  HandCore(m) /\ RemainingContenders(m) # {}
<1> DEFINE f == [h EXCEPT !.status[i] = "Folded"]
<1>1. HandCore(h) /\ h \in Hands /\ i \in Seats /\ i \in h.pending
  BY OpenActor DEF HandOpen, HandCore
<1>2. f \in Hands
  BY <1>1 DEF Hands, SeatStatuses
<1>3. SameTable(h, m) /\ m \in Hands
  <2>1. SameTable(h, f)
    BY <1>1 DEF Hands, SameTable
  <2>2. SameTable(f, m) /\ m \in Hands
    BY <1>1, <1>2, ConsumeMoves
  <2> QED
    BY <2>1, <2>2 DEF SameTable
<1>4. /\ m.pending = h.pending \ {i}
      /\ m.raise_rights = h.raise_rights \ {i}
      /\ m.stack = h.stack
      /\ m.total_committed = h.total_committed
      /\ m.street_committed = h.street_committed
  BY SMTT(60), <1>1, <1>2, ConsumeMoves DEF Hands
<1>5. m.status = [h.status EXCEPT ![i] = "Folded"] /\ h.status \in [Seats -> SeatStatuses]
  BY SMTT(60), <1>1, <1>2, ConsumeMoves DEF Hands
<1>6. ActionablePlayers(m) = ActionablePlayers(h) \ {i}
  BY <1>5 DEF ActionablePlayers
<1>7. RemainingContenders(m) = RemainingContenders(h) \ {i}
  BY <1>5 DEF RemainingContenders
<1>8. HandCore(m)
  BY SMTT(60), <1>1, <1>3, <1>4, <1>5, <1>6 DEF HandCore, SameTable
<1>9. RemainingContenders(m) # {}
  BY <1>7 DEF HandOpen, FewerThanTwo
<1> QED
  BY <1>8, <1>9

\* Checking.
LEMMA CheckCore ==
  ASSUME NEW h, HandOpen(h), CanCheck(h), NEW i, i = h.next_to_act,
         NEW m, m = ConsumeAction(h, i)
  PROVE  HandCore(m) /\ RemainingContenders(m) # {}
<1>1. HandCore(h) /\ h \in Hands /\ i \in Seats /\ i \in h.pending
  BY OpenActor DEF HandOpen, HandCore
<1>2. ActionablePlayers(m) = ActionablePlayers(h) /\ RemainingContenders(m) = RemainingContenders(h)
  BY <1>1, ConsumeMoves DEF ActionablePlayers, RemainingContenders
<1>3. HandCore(m)
  BY SMTT(60), <1>1, <1>2, ConsumeMoves DEF HandCore, SameTable, CanCheck
<1> QED
  BY <1>2, <1>3 DEF HandOpen, FewerThanTwo

\* Calling leaves everybody but the seats still pending with a matched bet.
LEMMA CallCore ==
  ASSUME NEW h, HandOpen(h), NEW i, i = h.next_to_act,
         NEW m, m = ConsumeAction(Commit(h, i, AmountToCall(h, i)), i)
  PROVE  HandCore(m) /\ RemainingContenders(m) # {}
<1> DEFINE c == Commit(h, i, AmountToCall(h, i))
           a == Lesser(AmountToCall(h, i), h.stack[i])
<1>1. HandCore(h) /\ h \in Hands /\ i \in Seats /\ i \in h.pending
  BY OpenActor DEF HandOpen, HandCore
<1>2. AmountToCall(h, i) \in Nat /\ h.street_committed[i] + AmountToCall(h, i) = h.current_bet
  BY <1>1, OpenActor DEF AmountToCall, HandCore
<1>3. a \in Nat /\ h.street_committed[i] + a <= h.current_bet
      /\ (a # h.stack[i] => h.street_committed[i] + a = h.current_bet)
  BY <1>1, <1>2, OpenActor DEF Lesser
<1> HIDE DEF c, a
<1>4. /\ m \in Hands
      /\ SameTable(h, m)
      /\ m.pending = h.pending \ {i}
      /\ m.raise_rights = h.raise_rights \ {i}
      /\ m.stack = [h.stack EXCEPT ![i] = @ - a]
      /\ m.total_committed = [h.total_committed EXCEPT ![i] = @ + a]
      /\ m.street_committed = [h.street_committed EXCEPT ![i] = @ + a]
      /\ m.status = [h.status EXCEPT ![i] = IF h.stack[i] = a THEN "AllIn" ELSE @]
      /\ a \in 0 .. h.stack[i]
  <2>1. /\ c \in Hands
        /\ SameTable(h, c)
        /\ c.pending = h.pending
        /\ c.raise_rights = h.raise_rights
        /\ c.stack = [h.stack EXCEPT ![i] = @ - a]
        /\ c.total_committed = [h.total_committed EXCEPT ![i] = @ + a]
        /\ c.street_committed = [h.street_committed EXCEPT ![i] = @ + a]
        /\ c.status = [h.status EXCEPT ![i] = IF h.stack[i] = a THEN "AllIn" ELSE @]
        /\ a \in 0 .. h.stack[i]
    BY <1>1, <1>2, CommitMoves DEF c, a
  <2>2. m = ConsumeAction(c, i)
    BY DEF c
  <2> QED
    BY <1>1, <2>1, <2>2, ConsumeMoves DEF SameTable
<1>5. /\ h.status \in [Seats -> SeatStatuses]
      /\ h.stack \in [Seats -> Nat]
      /\ h.total_committed \in [Seats -> Nat]
      /\ h.street_committed \in [Seats -> Nat]
      /\ h.starting_stack \in [Seats -> Nat]
      /\ h.current_bet \in Nat /\ h.last_full_raise \in Nat
  BY <1>1 DEF Hands
<1>6. ActionablePlayers(m) = IF h.stack[i] = a THEN ActionablePlayers(h) \ {i} ELSE ActionablePlayers(h)
  BY <1>1, <1>4, <1>5 DEF ActionablePlayers
<1>7. RemainingContenders(m) = RemainingContenders(h)
  BY <1>1, <1>4, <1>5, OpenActor DEF RemainingContenders
<1>8. HandCore(m)
  <2>1. /\ m.current_bet = h.current_bet /\ m.last_full_raise = h.last_full_raise
        /\ m.starting_stack = h.starting_stack
    BY <1>4 DEF SameTable
  <2>2. \A s \in Seats :
          /\ m.stack[s] + m.total_committed[s] = m.starting_stack[s]
          /\ m.street_committed[s] <= m.current_bet
          /\ m.status[s] = "Active" => m.stack[s] > 0
    BY <1>1, <1>3, <1>4, <1>5, <2>1 DEF HandCore
  <2>3. \A s \in ActionablePlayers(m) \ m.pending : m.street_committed[s] = m.current_bet
    BY <1>1, <1>3, <1>4, <1>5, <1>6, <2>1 DEF HandCore, ActionablePlayers
  <2>4. \A s \in m.pending : m.current_bet - m.street_committed[s] >= m.last_full_raise
                               => s \in m.raise_rights
    BY <1>1, <1>4, <1>5, <2>1 DEF HandCore, ActionablePlayers
  <2>5. \A s \in ActionablePlayers(m), r \in Seats :
          m.total_committed[r] - m.street_committed[r] <= m.total_committed[s] - m.street_committed[s]
    BY <1>1, <1>3, <1>4, <1>5, <1>6 DEF HandCore, ActionablePlayers
  <2>6. /\ m \in Hands /\ m.street \in BettingStreets
        /\ m.pending \subseteq ActionablePlayers(m) /\ m.raise_rights \subseteq m.pending
    BY <1>1, <1>4, <1>6 DEF HandCore, SameTable
  <2> QED
    BY <2>2, <2>3, <2>4, <2>5, <2>6 DEF HandCore
<1> QED
  BY <1>7, <1>8 DEF HandOpen, FewerThanTwo

\* Once everybody has matched the bet of a street, whoever has chips behind
\* has put in the most over the whole hand.
LEMMA MatchedCovers ==
  ASSUME NEW h, HandCore(h), h.pending = {}
  PROVE  \A s \in ActionablePlayers(h), r \in Seats : h.total_committed[r] <= h.total_committed[s]
<1> TAKE s \in ActionablePlayers(h), r \in Seats
<1>1. s \in Seats /\ h.total_committed \in [Seats -> Nat] /\ h.street_committed \in [Seats -> Nat]
      /\ h.current_bet \in Nat
  BY DEF ActionablePlayers, HandCore, Hands
<1>2. h.street_committed[s] = h.current_bet /\ h.street_committed[r] <= h.current_bet
      /\ h.total_committed[r] - h.street_committed[r] <= h.total_committed[s] - h.street_committed[s]
  BY DEF HandCore
<1> QED
  BY <1>1, <1>2

\* A new street opens with everybody who has chips behind to act, or runs out
\* to the showdown.
LEMMA AdvanceKeeps ==
  ASSUME NEW h, HandCore(h), h.pending = {}, ~FewerThanTwo(RemainingContenders(h)),
         NEW n, n = AdvanceStreet(h)
  PROVE  HandOpen(n) \/ HandClosed(n)
<1>1. h \in Hands /\ h.street \in BettingStreets
  BY DEF HandCore
<1>2. \A s \in ActionablePlayers(h), r \in Seats : h.total_committed[r] <= h.total_committed[s]
  BY MatchedCovers
<1>3. CASE h.street = "River"
  <2>1. n = [h EXCEPT !.street = "Showdown", !.next_to_act = None]
    BY <1>3 DEF AdvanceStreet
  <2>2. n \in Hands /\ n.street = "Showdown" /\ n.stack = h.stack /\ n.status = h.status
        /\ n.total_committed = h.total_committed /\ n.starting_stack = h.starting_stack
    BY <1>1, <2>1 DEF Hands, Streets
  <2>3. ActionablePlayers(n) = ActionablePlayers(h)
    BY <2>2 DEF ActionablePlayers
  <2> QED
    BY <1>2, <2>2, <2>3 DEF HandClosed, HandCore
<1>4. CASE h.street # "River"
  <2> DEFINE next == CASE h.street = "Preflop" -> "Flop"
                       [] h.street = "Flop"    -> "Turn"
                       [] OTHER                -> "River"
             fresh == [h EXCEPT !.street = next,
                                !.street_committed = [s \in Seats |-> 0],
                                !.current_bet = 0,
                                !.last_full_raise = BigBlind]
             opened == ResetPendingForStreet(fresh)
  <2>1. next \in BettingStreets /\ next \in Streets
    BY <1>1, <1>4 DEF BettingStreets, Streets
  <2> HIDE DEF next
  <2>2. /\ fresh \in Hands /\ fresh.street = next
        /\ fresh.stack = h.stack /\ fresh.status = h.status
        /\ fresh.total_committed = h.total_committed /\ fresh.starting_stack = h.starting_stack
        /\ fresh.street_committed = [s \in Seats |-> 0]
        /\ fresh.current_bet = 0 /\ fresh.last_full_raise = BigBlind
        /\ fresh.dealer_index = h.dealer_index
    BY ZenonT(60), <1>1, <2>1, StakeLevelAssumption DEF Hands
  <2> HIDE DEF fresh
  <2>3. /\ opened \in Hands /\ opened.street = next
        /\ opened.stack = h.stack /\ opened.status = h.status
        /\ opened.total_committed = h.total_committed /\ opened.starting_stack = h.starting_stack
        /\ opened.street_committed = [s \in Seats |-> 0]
        /\ opened.current_bet = 0 /\ opened.last_full_raise = BigBlind
        /\ opened.pending = ActionablePlayers(h) /\ opened.raise_rights = ActionablePlayers(h)
    BY <2>2 DEF Hands, ResetPendingForStreet, ActionablePlayers
  <2>4. ActionablePlayers(opened) = ActionablePlayers(h)
        /\ RemainingContenders(opened) = RemainingContenders(h)
    BY <2>3 DEF ActionablePlayers, RemainingContenders
  <2>5. n = IF FewerThanTwo(opened.pending)
            THEN [opened EXCEPT !.street = "Showdown", !.pending = {}, !.next_to_act = None]
            ELSE [opened EXCEPT !.next_to_act =
                    NextPendingFrom(opened, Clockwise(h.dealer_index, 1))]
    BY <1>4 DEF AdvanceStreet, opened, fresh, next
  <2> HIDE DEF opened
  <2>6. CASE FewerThanTwo(opened.pending)
    <3>1. n \in Hands /\ n.street = "Showdown" /\ n.stack = h.stack /\ n.status = h.status
          /\ n.total_committed = h.total_committed /\ n.starting_stack = h.starting_stack
      <4>1. n = [opened EXCEPT !.street = "Showdown", !.pending = {}, !.next_to_act = None]
        BY <2>5, <2>6
      <4>2. "Showdown" \in Streets /\ {} \in SUBSET Seats
        BY DEF Streets
      <4> QED
        BY <2>3, <4>1, <4>2 DEF Hands
    <3>2. ActionablePlayers(n) = ActionablePlayers(h)
      BY <3>1 DEF ActionablePlayers
    <3> QED
      BY <1>2, <3>1, <3>2 DEF HandClosed, HandCore
  <2>7. CASE ~FewerThanTwo(opened.pending)
    <3>1. opened.pending # {}
      BY <2>7 DEF FewerThanTwo
    <3>2. Clockwise(h.dealer_index, 1) \in Seats
      <4>1. h.dealer_index \in Seats
        BY <1>1 DEF Hands
      <4> QED
        BY <4>1, ClockwiseSeat, StakeLevelAssumption
    <3>3. NextPendingFrom(opened, Clockwise(h.dealer_index, 1)) \in opened.pending
      <4>1. opened.pending \in SUBSET Seats
        BY <2>3 DEF ActionablePlayers
      <4> QED
        BY <3>1, <3>2, <4>1, NextPendingIsPending
    <3>4. n \in Hands /\ n.next_to_act \in n.pending
          /\ n.street = next
          /\ n.stack = h.stack /\ n.status = h.status
          /\ n.total_committed = h.total_committed /\ n.starting_stack = h.starting_stack
          /\ n.street_committed = [s \in Seats |-> 0]
          /\ n.current_bet = 0 /\ n.last_full_raise = BigBlind
          /\ n.pending = ActionablePlayers(h) /\ n.raise_rights = ActionablePlayers(h)
      BY <2>3, <2>5, <2>7, <3>3 DEF Hands
    <3>5. ActionablePlayers(n) = ActionablePlayers(h)
          /\ RemainingContenders(n) = RemainingContenders(h)
      BY <3>4 DEF ActionablePlayers, RemainingContenders
    <3>6. h.total_committed \in [Seats -> Nat] /\ ActionablePlayers(h) \subseteq Seats
      BY <1>1 DEF Hands, ActionablePlayers
    <3>7. HandCore(n)
      <4>1. \A s \in Seats : n.street_committed[s] = 0
        BY <3>4
      <4>2. \A s \in Seats : h.total_committed[s] - n.street_committed[s] = h.total_committed[s]
        BY <3>6, <4>1
      <4>3. \A s \in n.pending :
              ~(n.current_bet - n.street_committed[s] >= n.last_full_raise)
        BY <3>4, <3>6, <4>1, StakeLevelAssumption
      <4>4. \A s \in Seats :
              /\ n.stack[s] + n.total_committed[s] = n.starting_stack[s]
              /\ n.street_committed[s] <= n.current_bet
              /\ n.status[s] = "Active" => n.stack[s] > 0
        BY <3>4, <4>1 DEF HandCore
      <4>5. \A s \in ActionablePlayers(n), r \in Seats :
              n.total_committed[r] - n.street_committed[r]
                <= n.total_committed[s] - n.street_committed[s]
        BY <1>2, <3>4, <3>5, <3>6, <4>2
      <4> QED
        BY <2>1, <3>4, <3>5, <4>3, <4>4, <4>5 DEF HandCore
    <3> QED
      BY <3>4, <3>5, <3>7 DEF HandOpen
  <2> QED
    BY <2>6, <2>7
<1> QED
  BY <1>3, <1>4

\* The tail of act: the hand ends, goes on with an answer owed, or reaches the
\* showdown fully matched.
LEMMA AfterActionKeeps ==
  ASSUME NEW h, HandCore(h), RemainingContenders(h) # {}, NEW i \in Seats,
         NEW n, n = AfterAction(h, i)
  PROVE  n.street = "Complete" \/ HandOpen(n) \/ HandClosed(n)
<1>1. h \in Hands
  BY DEF HandCore
<1>2. CASE \E w \in Seats : RemainingContenders(h) = {w}
  <2>1. PICK w : n = FinishUncontested(h, w)
    BY <1>2 DEF AfterAction
  <2> QED
    BY <1>1, <2>1 DEF FinishUncontested, Hands
<1>3. CASE ~\E w \in Seats : RemainingContenders(h) = {w}
  <2>1. RemainingContenders(h) \subseteq Seats
    BY DEF RemainingContenders
  <2>2. ~FewerThanTwo(RemainingContenders(h))
    BY <1>3, <2>1 DEF FewerThanTwo
  <2>3. CASE h.pending = {}
    <3>1. n = AdvanceStreet(h)
      BY <1>3, <2>3 DEF AfterAction, BettingClosed
    <3> QED
      BY <2>2, <2>3, <3>1, AdvanceKeeps
  <2>4. CASE h.pending # {}
    <3>1. n = [h EXCEPT !.next_to_act = NextPendingFrom(h, Clockwise(i, 1))]
      BY <1>3, <2>4 DEF AfterAction, BettingClosed, PassTurn
    <3>2. Clockwise(i, 1) \in Seats
      BY ClockwiseSeat, StakeLevelAssumption
    <3>3. h.pending \in SUBSET Seats
      BY <1>1 DEF Hands
    <3>4. NextPendingFrom(h, Clockwise(i, 1)) \in h.pending
      BY <2>4, <3>2, <3>3, NextPendingIsPending
    <3>5. n \in Hands /\ n.next_to_act \in h.pending
      BY <1>1, <3>1, <3>3, <3>4 DEF Hands
    <3>6. /\ SameTable(h, n)
          /\ n.pending = h.pending /\ n.raise_rights = h.raise_rights
          /\ n.stack = h.stack /\ n.total_committed = h.total_committed
          /\ n.street_committed = h.street_committed /\ n.status = h.status
      BY <1>1, <3>1 DEF Hands, SameTable
    <3>7. ActionablePlayers(n) = ActionablePlayers(h)
          /\ RemainingContenders(n) = RemainingContenders(h)
      BY <3>6 DEF ActionablePlayers, RemainingContenders
    <3>8. HandCore(n)
      BY <3>5, <3>6, <3>7 DEF HandCore, SameTable
    <3> QED
      BY <2>2, <3>5, <3>6, <3>7, <3>8 DEF HandOpen
  <2> QED
    BY <2>3, <2>4
<1> QED
  BY <1>2, <1>3

\* A raise, full or short, leaves everybody below the new bet with an answer
\* to give, and with the right to raise whenever the bet grew by a full raise.
LEMMA RaiseCore ==
  ASSUME NEW h, HandOpen(h), NEW i, i = h.next_to_act,
         NEW target \in Nat, CanRaiseTo(h, i, target),
         NEW m, m = RaisedTo(h, i, target)
  PROVE  HandCore(m) /\ RemainingContenders(m) # {}
<1> DEFINE a == target - h.street_committed[i]
           c == Commit(h, i, a)
           b == [c EXCEPT !.current_bet = target]
           p == ConsumeAction(b, i)
<1>1. HandCore(h) /\ h \in Hands /\ i \in Seats /\ i \in h.pending
  BY OpenActor DEF HandOpen, HandCore
<1>2. /\ h.status \in [Seats -> SeatStatuses]
      /\ h.stack \in [Seats -> Nat]
      /\ h.total_committed \in [Seats -> Nat]
      /\ h.street_committed \in [Seats -> Nat]
      /\ h.starting_stack \in [Seats -> Nat]
      /\ h.current_bet \in Nat /\ h.last_full_raise \in Nat
      /\ h.pending \in SUBSET Seats /\ h.raise_rights \in SUBSET Seats
  BY <1>1 DEF Hands
<1>3. a \in Nat /\ a <= h.stack[i] /\ h.street_committed[i] + a = target /\ target > h.current_bet
  BY <1>1, <1>2 DEF CanRaiseTo
<1> HIDE DEF a
<1>4. a = Lesser(a, h.stack[i])
  BY <1>3 DEF Lesser
<1>5. /\ c \in Hands
      /\ SameTable(h, c)
      /\ c.pending = h.pending
      /\ c.raise_rights = h.raise_rights
      /\ c.stack = [h.stack EXCEPT ![i] = @ - a]
      /\ c.total_committed = [h.total_committed EXCEPT ![i] = @ + a]
      /\ c.street_committed = [h.street_committed EXCEPT ![i] = @ + a]
      /\ c.status = [h.status EXCEPT ![i] = IF h.stack[i] = a THEN "AllIn" ELSE @]
  BY SMTT(60), <1>1, <1>3, <1>4, CommitMoves
<1> HIDE DEF c
<1>6. /\ b \in Hands
      /\ b.street = c.street /\ b.starting_stack = c.starting_stack
      /\ b.current_bet = target /\ b.last_full_raise = c.last_full_raise
      /\ b.pending = c.pending /\ b.raise_rights = c.raise_rights
      /\ b.stack = c.stack /\ b.total_committed = c.total_committed
      /\ b.street_committed = c.street_committed /\ b.status = c.status
  BY <1>5 DEF Hands
<1> HIDE DEF b
<1>7. /\ p \in Hands
      /\ p.street = h.street /\ p.starting_stack = h.starting_stack
      /\ p.current_bet = target /\ p.last_full_raise = h.last_full_raise
      /\ p.pending = h.pending \ {i} /\ p.raise_rights = h.raise_rights \ {i}
      /\ p.stack = [h.stack EXCEPT ![i] = @ - a]
      /\ p.total_committed = [h.total_committed EXCEPT ![i] = @ + a]
      /\ p.street_committed = [h.street_committed EXCEPT ![i] = @ + a]
      /\ p.status = [h.status EXCEPT ![i] = IF h.stack[i] = a THEN "AllIn" ELSE @]
  BY <1>1, <1>5, <1>6, ConsumeMoves DEF SameTable
<1>8. m = IF target >= MinimumRaiseTo(h)
          THEN FullRaise(p, i, target - h.current_bet) ELSE ShortAllIn(p)
  BY DEF RaisedTo, a, b, c
<1> HIDE DEF p
<1>9. ActionablePlayers(p) \subseteq ActionablePlayers(h) /\ h.pending \ {i} \subseteq ActionablePlayers(p)
      /\ ActionablePlayers(p) \subseteq Seats /\ ActionablePlayers(h) \ {i} \subseteq ActionablePlayers(p)
  <2>1. h.status \in [Seats -> SeatStatuses] /\ h.pending \subseteq ActionablePlayers(h)
    BY <1>1 DEF Hands, HandCore
  <2>2. \A s \in Seats \ {i} : p.status[s] = h.status[s]
    BY <1>7, <2>1
  <2>3. p.status[i] \in {"AllIn", h.status[i]}
    BY <1>1, <1>7, <2>1
  <2> QED
    BY <2>1, <2>2, <2>3 DEF ActionablePlayers
<1>10. RemainingContenders(p) = RemainingContenders(h)
  BY <1>1, <1>2, <1>7, OpenActor DEF RemainingContenders
<1>11. \A s \in Seats :
         /\ p.stack[s] + p.total_committed[s] = p.starting_stack[s]
         /\ p.street_committed[s] <= p.current_bet
         /\ p.status[s] = "Active" => p.stack[s] > 0
  BY <1>1, <1>2, <1>3, <1>7 DEF HandCore
<1>12. \A s \in ActionablePlayers(p), r \in Seats :
         p.total_committed[r] - p.street_committed[r] <= p.total_committed[s] - p.street_committed[s]
  BY <1>1, <1>2, <1>3, <1>7, <1>9 DEF HandCore
<1>13. p.street_committed[i] = target /\ p.street_committed \in [Seats -> Nat]
  BY <1>1, <1>2, <1>3, <1>7
<1>14. CASE target >= MinimumRaiseTo(h)
  <2> DEFINE others == ActionablePlayers(p) \ {i}
  <2>1. m = [p EXCEPT !.last_full_raise = target - h.current_bet,
                      !.pending = others, !.raise_rights = others]
    BY <1>8, <1>14 DEF FullRaise
  <2>2. others \in SUBSET Seats /\ target - h.current_bet \in Nat
    BY <1>2, <1>3, <1>9
  <2> HIDE DEF others
  <2>3. /\ m \in Hands
        /\ m.street = p.street /\ m.starting_stack = p.starting_stack
        /\ m.current_bet = p.current_bet /\ m.pending = others /\ m.raise_rights = others
        /\ m.stack = p.stack /\ m.total_committed = p.total_committed
        /\ m.street_committed = p.street_committed /\ m.status = p.status
    BY ZenonT(120), <1>7, <2>1, <2>2 DEF Hands
  <2>4. ActionablePlayers(m) = ActionablePlayers(p)
        /\ RemainingContenders(m) = RemainingContenders(p)
    BY <2>3 DEF ActionablePlayers, RemainingContenders
  <2>5. \A s \in ActionablePlayers(m) \ m.pending : m.street_committed[s] = m.current_bet
    BY <1>7, <1>13, <2>3, <2>4 DEF others
  <2>6. HandCore(m)
    <3>1. m.street \in BettingStreets /\ m.pending \subseteq ActionablePlayers(m)
      BY <1>1, <1>7, <2>3, <2>4 DEF HandCore, others
    <3>2. \A s \in m.pending : s \in m.raise_rights
      BY <2>3
    <3> QED
      BY <1>11, <1>12, <2>3, <2>4, <2>5, <3>1, <3>2 DEF HandCore
  <2> QED
    BY <1>10, <2>4, <2>6 DEF HandOpen, FewerThanTwo
<1>15. CASE ~(target >= MinimumRaiseTo(h))
  <2> DEFINE facing == {s \in ActionablePlayers(p) : p.street_committed[s] < p.current_bet}
             reopened == {s \in facing : p.current_bet - p.street_committed[s] >= p.last_full_raise}
  <2>1. m = [p EXCEPT !.pending = @ \cup facing, !.raise_rights = @ \cup reopened]
    BY <1>8, <1>15 DEF ShortAllIn
  <2>2. facing \in SUBSET Seats /\ reopened \in SUBSET facing /\ facing \subseteq ActionablePlayers(p)
    BY <1>9
  <2>3. \A s \in ActionablePlayers(p) : s \notin facing => p.street_committed[s] = p.current_bet
    BY <1>3, <1>7, <1>9, <1>11, <1>13
  <2>4. h.pending \ {i} \subseteq facing
    BY <1>1, <1>2, <1>3, <1>7, <1>9 DEF HandCore
  <2>5. \A s \in facing : p.current_bet - p.street_committed[s] >= p.last_full_raise => s \in reopened
    OBVIOUS
  <2> HIDE DEF facing, reopened
  <2>6. /\ m \in Hands
        /\ m.street = p.street /\ m.starting_stack = p.starting_stack
        /\ m.current_bet = p.current_bet /\ m.last_full_raise = p.last_full_raise
        /\ m.pending = p.pending \cup facing /\ m.raise_rights = p.raise_rights \cup reopened
        /\ m.stack = p.stack /\ m.total_committed = p.total_committed
        /\ m.street_committed = p.street_committed /\ m.status = p.status
    <3>1. p.pending \cup facing \in SUBSET Seats /\ p.raise_rights \cup reopened \in SUBSET Seats
      BY <1>2, <1>7, <2>2
    <3>2. m = [p EXCEPT !.pending = p.pending \cup facing,
                        !.raise_rights = p.raise_rights \cup reopened]
      BY <1>7, <2>1
    <3> QED
      BY ZenonT(120), <1>7, <3>1, <3>2 DEF Hands
  <2>7. ActionablePlayers(m) = ActionablePlayers(p)
        /\ RemainingContenders(m) = RemainingContenders(p)
    BY <2>6 DEF ActionablePlayers, RemainingContenders
  <2>8. m.pending = facing /\ m.raise_rights \subseteq facing
    BY <1>1, <1>7, <2>2, <2>4, <2>6 DEF HandCore
  <2>9. HandCore(m)
    <3>1. m.street \in BettingStreets
      BY <1>1, <1>7, <2>6 DEF HandCore
    <3>2. \A s \in ActionablePlayers(m) \ m.pending : m.street_committed[s] = m.current_bet
      BY <2>3, <2>6, <2>7, <2>8
    <3>3. \A s \in m.pending :
            m.current_bet - m.street_committed[s] >= m.last_full_raise => s \in m.raise_rights
      BY <2>5, <2>6, <2>8
    <3>4. m.pending \subseteq ActionablePlayers(m) /\ m.raise_rights \subseteq m.pending
      BY <2>2, <2>7, <2>8
    <3>5. \A s \in Seats :
            /\ m.stack[s] + m.total_committed[s] = m.starting_stack[s]
            /\ m.street_committed[s] <= m.current_bet
            /\ m.status[s] = "Active" => m.stack[s] > 0
      BY <1>11, <2>6
    <3>6. \A s \in ActionablePlayers(m), r \in Seats :
            m.total_committed[r] - m.street_committed[r]
              <= m.total_committed[s] - m.street_committed[s]
      BY <1>12, <2>6, <2>7
    <3> QED
      BY <2>6, <3>1, <3>2, <3>3, <3>4, <3>5, <3>6 DEF HandCore
  <2> QED
    BY <1>10, <2>7, <2>9 DEF HandOpen, FewerThanTwo
<1> QED
  BY <1>14, <1>15

\* What Commit leaves behind when seat i pays a chips, by name.
Moved(h, c, i, a) ==
  /\ c \in Hands
  /\ SameTable(h, c)
  /\ c.stack = [h.stack EXCEPT ![i] = @ - a]
  /\ c.total_committed = [h.total_committed EXCEPT ![i] = @ + a]
  /\ c.street_committed = [h.street_committed EXCEPT ![i] = @ + a]
  /\ c.status = [h.status EXCEPT ![i] = IF h.stack[i] = a THEN "AllIn" ELSE @]

\* CommitMoves for a seat that can pay all that is asked.
LEMMA CommitMoved ==
  ASSUME NEW h \in Hands, NEW i \in Seats, NEW requested \in Nat, requested <= h.stack[i]
  PROVE  Moved(h, Commit(h, i, requested), i, requested)
<1>1. requested = Lesser(requested, h.stack[i])
  BY DEF Lesser, Hands
<1> QED
  BY <1>1, CommitMoves DEF Moved

-----------------------------------------------------------------------------
\* The blinds are posted by two different seats, so nobody has paid more than
\* the big blind.
LEMMA StartOpen ==
  ASSUME NEW dealer \in Seats, NEW stacks \in [Seats -> MinimumBuyIn .. MaximumBuyIn],
         NEW h, h = Start(dealer, stacks)
  PROVE  HandOpen(h)
<1> DEFINE zero   == [s \in Seats |-> 0]
           seated == [dealer_index |-> dealer, street |-> "Preflop",
                      starting_stack |-> stacks, stack |-> stacks,
                      total_committed |-> zero, street_committed |-> zero,
                      status |-> [s \in Seats |-> "Active"],
                      pending |-> {}, raise_rights |-> {},
                      current_bet |-> BigBlind, last_full_raise |-> BigBlind,
                      next_to_act |-> None]
           sb     == SmallBlindIndex(dealer)
           bb     == BigBlindIndex(dealer)
           small  == Commit(seated, sb, SmallBlind)
           blinds == Commit(small, bb, BigBlind)
           ready  == ResetPendingForStreet(blinds)
           first  == FirstToAct(dealer)
<1>1. sb \in Seats /\ bb \in Seats /\ first \in Seats /\ sb # bb
  BY StakeLevelAssumption DEF SmallBlindIndex, BigBlindIndex, FirstToAct, Clockwise, Seats
<1>2. stacks \in [Seats -> Nat] /\ \A s \in Seats : stacks[s] >= BigBlind
  BY StakeLevelAssumption
<1>3. SmallBlind \in Nat /\ BigBlind \in Nat /\ 0 < SmallBlind /\ SmallBlind < BigBlind
  BY StakeLevelAssumption
<1>4. /\ seated \in Hands
      /\ seated.street = "Preflop" /\ seated.starting_stack = stacks /\ seated.stack = stacks
      /\ seated.total_committed = zero /\ seated.street_committed = zero
      /\ seated.status = [s \in Seats |-> "Active"]
      /\ seated.current_bet = BigBlind /\ seated.last_full_raise = BigBlind
  BY <1>2, <1>3 DEF Hands, Streets, BettingStreets, SeatStatuses
<1>5. h = [ready EXCEPT !.next_to_act = NextPendingFrom(ready, first)]
  BY DEF Start
<1>a. small = Commit(seated, sb, SmallBlind)
  OBVIOUS
<1>b. blinds = Commit(small, bb, BigBlind)
  OBVIOUS
<1> HIDE DEF sb, bb, first, seated, zero, small, blinds
<1>6. /\ small \in Hands /\ SameTable(seated, small)
      /\ small.stack = [stacks EXCEPT ![sb] = @ - SmallBlind]
      /\ small.total_committed = [zero EXCEPT ![sb] = @ + SmallBlind]
      /\ small.street_committed = [zero EXCEPT ![sb] = @ + SmallBlind]
      /\ small.status = [seated.status EXCEPT ![sb] = @]
  <2>1. SmallBlind <= seated.stack[sb] /\ seated.stack[sb] # SmallBlind
    BY <1>1, <1>2, <1>3, <1>4
  <2>2. Moved(seated, small, sb, SmallBlind)
    BY <1>1, <1>3, <1>4, <1>a, <2>1, CommitMoved
  <2> QED
    BY <1>4, <2>1, <2>2 DEF Moved
<1>7. /\ small.street = "Preflop" /\ small.starting_stack = stacks
      /\ small.current_bet = BigBlind /\ small.last_full_raise = BigBlind
  BY <1>4, <1>6 DEF SameTable
<1>8. /\ blinds \in Hands /\ SameTable(small, blinds)
      /\ blinds.stack = [small.stack EXCEPT ![bb] = @ - BigBlind]
      /\ blinds.total_committed = [small.total_committed EXCEPT ![bb] = @ + BigBlind]
      /\ blinds.street_committed = [small.street_committed EXCEPT ![bb] = @ + BigBlind]
      /\ blinds.status = [small.status EXCEPT ![bb] = IF stacks[bb] = BigBlind THEN "AllIn" ELSE @]
  <2>1. small.stack[bb] = stacks[bb] /\ BigBlind <= small.stack[bb]
    BY <1>1, <1>2, <1>3, <1>6
  <2>2. Moved(small, blinds, bb, BigBlind)
    BY <1>1, <1>3, <1>6, <1>b, <2>1, CommitMoved
  <2> QED
    BY <2>1, <2>2 DEF Moved
<1>9. \A s \in Seats :
        /\ blinds.stack[s] = stacks[s] - (IF s = sb THEN SmallBlind ELSE IF s = bb THEN BigBlind ELSE 0)
        /\ blinds.total_committed[s] = IF s = sb THEN SmallBlind ELSE IF s = bb THEN BigBlind ELSE 0
        /\ blinds.street_committed[s] = blinds.total_committed[s]
        /\ blinds.status[s] = IF s = bb /\ stacks[bb] = BigBlind THEN "AllIn" ELSE "Active"
  BY <1>1, <1>2, <1>3, <1>4, <1>6, <1>8 DEF zero
<1> DEFINE able == ActionablePlayers(blinds)
<1>10. able \in SUBSET Seats /\ sb \in able
  BY <1>1, <1>9 DEF ActionablePlayers
<1>11. ready = [blinds EXCEPT !.pending = able, !.raise_rights = able]
  BY DEF ResetPendingForStreet
<1> HIDE DEF able
<1>12. ready.pending = able
  BY <1>8, <1>11 DEF Hands
<1> HIDE DEF ready
<1>13. NextPendingFrom(ready, first) \in able
  BY <1>1, <1>10, <1>12, NextPendingIsPending
<1>14. /\ h \in Hands /\ h.next_to_act \in able /\ h.pending = able /\ h.raise_rights = able
       /\ h.street = blinds.street /\ h.starting_stack = blinds.starting_stack
       /\ h.stack = blinds.stack /\ h.status = blinds.status
       /\ h.total_committed = blinds.total_committed
       /\ h.street_committed = blinds.street_committed
       /\ h.current_bet = blinds.current_bet
  BY ZenonT(120), <1>5, <1>8, <1>10, <1>11, <1>13 DEF Hands
<1>15. ActionablePlayers(h) = able
  BY <1>14 DEF ActionablePlayers, able
<1>16. ~FewerThanTwo(RemainingContenders(h))
  BY <1>1, <1>9, <1>14 DEF FewerThanTwo, RemainingContenders
<1>17. h.street = "Preflop" /\ h.starting_stack = stacks /\ h.current_bet = BigBlind
  BY <1>7, <1>8, <1>14 DEF SameTable
<1>18. \A s \in Seats :
         /\ h.stack[s] + h.total_committed[s] = h.starting_stack[s]
         /\ h.street_committed[s] <= h.current_bet
         /\ h.status[s] = "Active" => h.stack[s] > 0
         /\ h.total_committed[s] - h.street_committed[s] = 0
  BY <1>1, <1>2, <1>3, <1>9, <1>14, <1>17
<1>19. HandCore(h)
  BY <1>10, <1>14, <1>15, <1>17, <1>18 DEF HandCore, BettingStreets
<1> QED
  BY <1>14, <1>16, <1>19 DEF HandOpen

\* A contender with chips behind has paid into every pot, so the walk of
\* settle_showdown always finds somebody to pay.
LEMMA CoveredSettles ==
  ASSUME NEW h, HandClosed(h), ActionablePlayers(h) # {}
  PROVE  ~SettlementFails(RemainingContenders(h), h.total_committed)
<1>1. PICK s \in ActionablePlayers(h) : TRUE
  OBVIOUS
<1>2. s \in RemainingContenders(h) /\ s \in Seats
  BY <1>1 DEF RemainingContenders, ActionablePlayers
<1>3. ASSUME NEW t \in Thresholds(h.total_committed)
      PROVE  s \in Eligible(RemainingContenders(h), h.total_committed, t)
  <2>1. PICK r \in Seats : t = h.total_committed[r]
    BY DEF Thresholds
  <2>2. h.total_committed[r] <= h.total_committed[s] /\ h.total_committed \in [Seats -> Nat]
    BY <1>1 DEF HandClosed, Hands
  <2> QED
    BY <1>2, <2>1, <2>2 DEF Eligible, Contributors
<1> QED
  BY <1>3 DEF SettlementFails, Unsettleable

-----------------------------------------------------------------------------
\* Every answer of the seat to act leads from an open hand to an open one, to
\* a matched showdown or to the end of the hand.
LEMMA ActsKeep ==
  ASSUME IInv, Betting, NEW m, HandCore(m), RemainingContenders(m) # {},
         Acts(AfterAction(m, hand.next_to_act)), HandOpen(hand)
  PROVE  IInv'
<1> DEFINE n == AfterAction(m, hand.next_to_act)
<1>1. hand.next_to_act \in Seats
  BY OpenActor
<1>2. n.street = "Complete" \/ HandOpen(n) \/ HandClosed(n)
  BY <1>1, AfterActionKeeps
<1>3. hand' = n /\ outcome' = OutcomeOf(hand, n)
  BY DEF Acts
<1> HIDE DEF n
<1>a. hand.street # "Complete" /\ hand.street # "Showdown"
  BY DEF Betting, BettingStreets
<1>4. CASE n.street = "Complete"
  <2>1. outcome' = "HandComplete"
    BY <1>3, <1>4, <1>a DEF OutcomeOf
  <2> QED
    BY <1>3, <1>4, <2>1 DEF IInv, Finished, Outcomes, ShowdownCovered, FailureNeedsAllIn
<1>5. CASE HandOpen(n)
  <2>1. n.street \in BettingStreets
    BY <1>5 DEF HandOpen, HandCore
  <2>2. n.street # "Complete" /\ n.street # "Showdown"
    BY <2>1 DEF BettingStreets
  <2>3. outcome' \in {"WaitingFor", "StreetAdvanced"}
    BY <1>3, <2>2 DEF OutcomeOf
  <2> QED
    BY <1>3, <1>5, <2>2, <2>3 DEF IInv, Finished, Outcomes, ShowdownCovered, FailureNeedsAllIn
<1>6. CASE HandClosed(n)
  <2>1. n.street = "Showdown"
    BY <1>6 DEF HandClosed
  <2>2. outcome' = "ShowdownReady"
    BY <1>3, <1>a, <2>1 DEF OutcomeOf
  <2>3. ShowdownCovered'
    BY <1>3, <1>6 DEF ShowdownCovered, HandClosed
  <2> QED
    BY <1>3, <1>6, <2>2, <2>3 DEF IInv, Finished, Outcomes, FailureNeedsAllIn
<1> QED
  BY <1>2, <1>4, <1>5, <1>6

\* Betting only goes on in an open hand.
LEMMA BettingOpen ==
  ASSUME IInv, Betting
  PROVE  HandOpen(hand) /\ ~Finished
<1>1. hand.street # "Showdown" /\ hand.street # "Complete"
  BY DEF Betting, BettingStreets
<1> QED
  BY <1>1 DEF IInv, HandClosed

\* Settling a showdown: chips move to the winners only when every pot has one.
LEMMA SettleKeeps ==
  ASSUME IInv, Settle
  PROVE  IInv'
<1>1. hand.street = "Showdown" /\ ~Finished
  BY DEF Settle, SettleWith, Finished
<1>2. HandClosed(hand)
  BY <1>1 DEF IInv, HandOpen, HandCore, BettingStreets
<1>3. PICK rank : hand' = SettleShowdown(hand, rank)
  BY DEF Settle, SettleWith
<1>4. /\ hand'.status = hand.status
      /\ hand'.total_committed = hand.total_committed
      /\ hand'.street = IF SettlementFails(RemainingContenders(hand), hand.total_committed)
                        THEN "Showdown" ELSE "Complete"
  <2>1. hand \in Hands
    BY <1>2 DEF HandClosed
  <2> QED
    BY <1>3, <2>1 DEF SettleShowdown, Hands
<1>5. ActionablePlayers(hand') = ActionablePlayers(hand)
  BY <1>4 DEF ActionablePlayers
<1>6. outcome' = IF hand'.street = "Complete" THEN "HandComplete" ELSE "StateInvariant"
  BY DEF Settle, SettleWith
<1>7. ActionablePlayers(hand) # {} => hand'.street = "Complete"
  BY <1>2, <1>4, CoveredSettles
<1>8. ShowdownCovered'
  BY <1>2, <1>4, <1>5 DEF ShowdownCovered, HandClosed
<1>9. FailureNeedsAllIn'
  BY <1>5, <1>6, <1>7 DEF FailureNeedsAllIn
<1>10. outcome' \in {"HandComplete", "StateInvariant"} /\ hand'.street \in {"Showdown", "Complete"}
  BY <1>4, <1>6
<1> QED
  BY <1>8, <1>9, <1>10 DEF IInv, Finished, Outcomes

\* IInv is an invariant of a hand of any number of seats and any stakes.
THEOREM Invariance == Spec => []IInv
<1>1. Init => IInv
  <2> SUFFICES ASSUME Init PROVE IInv
    OBVIOUS
  <2>1. PICK dealer \in Seats, stacks \in [Seats -> MinimumBuyIn .. MaximumBuyIn] :
          hand = Start(dealer, stacks)
    BY DEF Init
  <2>2. HandOpen(hand)
    BY <2>1, StartOpen
  <2>3. outcome = "WaitingFor"
    BY DEF Init
  <2>4. hand.street # "Showdown"
    BY <2>2 DEF HandOpen, HandCore, BettingStreets
  <2> QED
    BY <2>2, <2>3, <2>4 DEF IInv, Finished, Outcomes, ShowdownCovered, FailureNeedsAllIn
<1>2. IInv /\ [Next]_vars => IInv'
  <2> SUFFICES ASSUME IInv, [Next]_vars PROVE IInv'
    OBVIOUS
  <2> DEFINE i == hand.next_to_act
  <2>1. CASE Fold
    <3>1. Betting
      BY <2>1 DEF Fold, CanAct, Betting
    <3>2. HandOpen(hand)
      BY <3>1, BettingOpen
    <3> DEFINE m == ConsumeAction([hand EXCEPT !.status[i] = "Folded"], i)
    <3>3. HandCore(m) /\ RemainingContenders(m) # {}
      BY <3>2, FoldCore
    <3>4. Acts(AfterAction(m, i))
      BY <2>1 DEF Fold, ActFold
    <3> HIDE DEF m
    <3> QED
      BY <3>1, <3>2, <3>3, <3>4, ActsKeep
  <2>2. CASE Check
    <3>1. Betting
      BY <2>2 DEF Check, CanAct, Betting
    <3>2. HandOpen(hand)
      BY <3>1, BettingOpen
    <3> DEFINE m == ConsumeAction(hand, i)
    <3>3. HandCore(m) /\ RemainingContenders(m) # {}
      BY <2>2, <3>2, CheckCore DEF Check
    <3>4. Acts(AfterAction(m, i))
      BY <2>2 DEF Check, ActCheck
    <3> HIDE DEF m
    <3> QED
      BY <3>1, <3>2, <3>3, <3>4, ActsKeep
  <2>3. CASE Call
    <3>1. Betting
      BY <2>3 DEF Call, CanAct, Betting
    <3>2. HandOpen(hand)
      BY <3>1, BettingOpen
    <3> DEFINE m == ConsumeAction(Commit(hand, i, AmountToCall(hand, i)), i)
    <3>3. HandCore(m) /\ RemainingContenders(m) # {}
      BY <3>2, CallCore
    <3>4. Acts(AfterAction(m, i))
      BY <2>3 DEF Call, ActCall
    <3> HIDE DEF m
    <3> QED
      BY <3>1, <3>2, <3>3, <3>4, ActsKeep
  <2>4. CASE \E target \in 1 .. MaximumBuyIn : RaiseTo(target)
    <3>0. PICK target \in 1 .. MaximumBuyIn : RaiseTo(target)
      BY <2>4
    <3>1. Betting
      BY <3>0 DEF RaiseTo, CanAct, Betting
    <3>2. HandOpen(hand)
      BY <3>1, BettingOpen
    <3> DEFINE m == RaisedTo(hand, i, target)
    <3>3. target \in Nat
      BY StakeLevelAssumption
    <3>4. HandCore(m) /\ RemainingContenders(m) # {}
      BY <3>0, <3>2, <3>3, RaiseCore DEF RaiseTo
    <3>5. Acts(AfterAction(m, i))
      BY <3>0 DEF RaiseTo, ActRaiseTo
    <3> HIDE DEF m
    <3> QED
      BY <3>1, <3>2, <3>4, <3>5, ActsKeep
  <2>5. CASE Settle
    BY <2>5, SettleKeeps
  <2>6. CASE UNCHANGED vars
    BY <2>6 DEF vars, IInv, Finished, ShowdownCovered, FailureNeedsAllIn
  <2> QED
    BY <2>1, <2>2, <2>3, <2>4, <2>5, <2>6 DEF Next, Rest
<1> QED
  BY <1>1, <1>2, PTL DEF Spec

-----------------------------------------------------------------------------
\* No method of HoldemHand charges a seat more than it has: until a pot is
\* paid out the hand keeps the shape of the code's struct.
THEOREM TypeCorrect == Spec => []TypeOK
<1>1. IInv => TypeOK
  BY DEF IInv, TypeOK, HandOpen, HandCore, HandClosed
<1> QED
  BY <1>1, Invariance, PTL

\* commit conserves every seat's chips, through any sequence of actions.
THEOREM ChipsConserved == Spec => []StacksAccounted
<1>1. IInv => StacksAccounted
  BY DEF IInv, StacksAccounted, HandOpen, HandCore, HandClosed
<1> QED
  BY <1>1, Invariance, PTL

\* act never leaves the turn with a seat that has nothing to answer.
THEOREM TurnIsOwed == Spec => []TurnOwed
<1>1. IInv => TurnOwed
  <2> SUFFICES ASSUME IInv, Betting PROVE TurnOwed
    BY DEF TurnOwed
  <2>1. HandOpen(hand)
    BY BettingOpen
  <2> QED
    BY <2>1 DEF TurnOwed, HandOpen, HandCore, ActionablePlayers
<1> QED
  BY <1>1, Invariance, PTL

\* raise_to asks everybody a raise or a short all-in leaves behind the bet.
THEOREM BetsAreMatched == Spec => []BetsMatched
<1>1. IInv => BetsMatched
  <2> SUFFICES ASSUME IInv, Betting PROVE BetsMatched
    BY DEF BetsMatched
  <2> QED
    BY BettingOpen DEF BetsMatched, HandOpen, HandCore
<1> QED
  BY <1>1, Invariance, PTL

\* raise_to gives back the right to raise once the bet has grown by a full
\* raise, in one step or in several.
THEOREM RaisesReopen == Spec => []FullRaiseReopens
<1>1. IInv => FullRaiseReopens
  <2> SUFFICES ASSUME IInv, Betting PROVE FullRaiseReopens
    BY DEF FullRaiseReopens
  <2> QED
    BY BettingOpen DEF FullRaiseReopens, HandOpen, HandCore
<1> QED
  BY <1>1, Invariance, PTL

\* advance_street reaches the showdown only with every bet matched by the seats
\* that have chips behind.
THEOREM ShowdownIsCovered == Spec => []ShowdownCovered
<1>1. IInv => ShowdownCovered
  BY DEF IInv
<1> QED
  BY <1>1, Invariance, PTL

\* All of it together: betting is sound, for any number of seats, blinds and stacks
\* (act, consume_action, raise_to, advance_street).
THEOREM BettingStaysSound == Spec => []BettingIsSound
BY ChipsConserved, TurnIsOwed, BetsAreMatched, ShowdownIsCovered, PTL DEF BettingIsSound

\* settle_showdown gives up only on a table whose contenders are all all-in.
THEOREM FailuresNeedAllIn == Spec => []FailureNeedsAllIn
<1>1. IInv => FailureNeedsAllIn
  BY DEF IInv
<1> QED
  BY <1>1, Invariance, PTL

=============================================================================
