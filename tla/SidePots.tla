------------------------------ MODULE SidePots ------------------------------
(***************************************************************************)
(* Showdown settlement of HoldemHand: the walk over the sorted amounts the *)
(* seats put into the pot (settle_showdown) and the division of one pot    *)
(* among its winners (award_split).  Pure operators: a seat is an index    *)
(* into HoldemHand.seats, committed[s] is its total_committed and rank[s]  *)
(* stands for the EvaluatedHand its seven cards give it (only the order of *)
(* ranks matters to settlement).                                           *)
(***************************************************************************)
EXTENDS Integers, FiniteSets, FiniteSetsExt

CONSTANT NumSeats   \* seats.len()

Seats == 0 .. NumSeats - 1

\* (s + o) % seats.len() for the offsets the code uses (s + o < 2 * NumSeats).
Clockwise(s, o) == IF s + o < NumSeats THEN s + o ELSE s + o - NumSeats

\* How many places clockwise of s seat j is: the inverse of Clockwise.
Distance(s, j) == IF j >= s THEN j - s ELSE j - s + NumSeats

Lesser(a, b) == IF a <= b THEN a ELSE b

-----------------------------------------------------------------------------
\* The distinct positive commitments; each closes one pot.
Thresholds(committed) == {committed[s] : s \in Seats} \ {0}

Contributors(committed, t) == {s \in Seats : committed[s] >= t}

\* The chips between threshold t and the threshold below it.
PotAt(committed, t) ==
  LET previous == Max({0} \cup {u \in Thresholds(committed) : u < t})
  IN  (t - previous) * Cardinality(Contributors(committed, t))

\* Bug variant: a contender competes for pots it did not pay into.
Eligible_IgnoresThreshold(contenders, committed, t) == contenders

Eligible(contenders, committed, t) == contenders \cap Contributors(committed, t)

Winners(eligible, rank) == {s \in eligible : \A r \in eligible : rank[r] <= rank[s]}

\* The seats a pot is paid to.  A pot nobody left can claim goes back to the
\* only seat that paid into it.
Awardees(contenders, committed, rank, t) ==
  LET eligible == Eligible(contenders, committed, t)
  IN  IF eligible = {} THEN Contributors(committed, t) ELSE Winners(eligible, rank)

\* The condition under which settle_showdown gives up with StateInvariant.
Unsettleable(contenders, committed, t) ==
  /\ Eligible(contenders, committed, t) = {}
  /\ Cardinality(Contributors(committed, t)) # 1

\* Bug variant: the chips that do not divide evenly are dropped.
ShareOf_DropsRemainder(pot, winners, dealer, s) == pot \div Cardinality(winners)

\* Bug variant: the winner next to the dealer takes the whole pot.
ShareOf_FirstTakesAll(pot, winners, dealer, s) ==
  IF \A w \in winners : Distance(Clockwise(dealer, 1), s) <= Distance(Clockwise(dealer, 1), w)
  THEN pot ELSE 0

\* Equal shares, the remainder one chip each clockwise of the dealer.
ShareOf(pot, winners, dealer, s) ==
  LET place(w) == Distance(Clockwise(dealer, 1), w)
      before   == {w \in winners : place(w) < place(s)}
  IN  pot \div Cardinality(winners)
        + IF Cardinality(before) < pot % Cardinality(winners) THEN 1 ELSE 0

\* The thresholds paid before the walk ends or gives up.
Payable(contenders, committed) ==
  {t \in Thresholds(committed) :
     \A u \in Thresholds(committed) : u <= t => ~Unsettleable(contenders, committed, u)}

\* What seat s is paid over all pots.
Payout(contenders, committed, rank, dealer, s) ==
  LET paid(t) == LET winners == Awardees(contenders, committed, rank, t)
                 IN  IF s \in winners
                     THEN ShareOf(PotAt(committed, t), winners, dealer, s)
                     ELSE 0
  IN  MapThenSumSet(paid, Payable(contenders, committed))

\* settle_showdown returns Err(StateInvariant).
SettlementFails(contenders, committed) ==
  \E t \in Thresholds(committed) : Unsettleable(contenders, committed, t)

=============================================================================
