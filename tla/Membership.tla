------------------------------ MODULE Membership ------------------------------
(***************************************************************************)
(* The membership of a table as the domain defines it (membership.rs):     *)
(* who sits where, and who waits for a seat.  seats is a function from     *)
(* physical seats to players; a candidate is a join claim of a player.     *)
(* Candidates are served in the order of their claim ids, which is the     *)
(* order of the player numbers.                                            *)
(***************************************************************************)
EXTENDS Integers, FiniteSets

CONSTANTS
  TableCapacity,     \* TABLE_CAPACITY
  WaitingCapacity    \* WAITING_CAPACITY

PhysicalSeats == 1 .. TableCapacity

PlayersOf(intents) == {c.player : c \in intents}

\* The n-th smallest element of a set of numbers, and an element's place in it.
Nth(S, n)   == CHOOSE x \in S : Cardinality({y \in S : y < x}) = n - 1
Place(S, x) == Cardinality({y \in S : y <= x})

Members(m) == {m.seats[i] : i \in DOMAIN m.seats}

\* TableMembership::validate, which ends new and queue_joins.
Validate(m) ==
  /\ DOMAIN m.seats \subseteq PhysicalSeats
  /\ Cardinality(m.waiting) <= WaitingCapacity
  /\ Cardinality(Members(m)) = Cardinality(DOMAIN m.seats)
  /\ Cardinality(PlayersOf(m.waiting)) = Cardinality(m.waiting)
  /\ Members(m) \cap PlayersOf(m.waiting) = {}

\* The first candidate of each player that has no seat.
DeduplicateWaiting(m) ==
  [m EXCEPT !.waiting = {c \in @ : /\ c.player \notin Members(m)
                                   /\ \A d \in @ : d.player = c.player => c.claim <= d.claim}]

QueueJoins(m, joins) == DeduplicateWaiting([m EXCEPT !.waiting = @ \cup joins])

\* At the end of a hand the leaving players go, and the waiting ones move up
\* to the free seats, the lowest first.
ReconcileAtHandBoundary(m, leaving) ==
  LET stay      == {i \in DOMAIN m.seats : m.seats[i] \notin leaving}
      free      == PhysicalSeats \ stay
      queue     == PlayersOf(m.waiting) \ (leaving \cup {m.seats[i] : i \in stay})
      admitted  == {q \in queue : Place(queue, q) <= Cardinality(free)}
      remaining == queue \ admitted
  IN  [seats   |-> [i \in stay \cup {Nth(free, Place(queue, q)) : q \in admitted} |->
                      IF i \in stay THEN m.seats[i] ELSE Nth(queue, Place(free, i))],
       waiting |-> {c \in m.waiting : /\ c.player \in remaining
                                      /\ Place(remaining, c.player) <= WaitingCapacity}]
=============================================================================
