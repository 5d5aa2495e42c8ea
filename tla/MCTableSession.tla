---------------------------- MODULE MCTableSession ----------------------------
(* Instances of TableSession: who sits at the table when a behaviour starts,  *)
(* and what may happen to it.                                                 *)
EXTENDS TableSession

\* Nobody comes or goes, for one hand.
Calm == [founders |-> {1, 2}, guests |-> {}, leavers |-> {}, renewers |-> {},
         claims |-> 1, hands |-> 1, versions |-> 4, drops |-> 0]

\* A third player, first in claim order, joins a table of two around its first hand.
Arrival == [Calm EXCEPT !.founders = {2, 3}, !.guests = {1}]

\* Both players may leave, force their leave or lose a connection, over three hands.
Departure == [Calm EXCEPT !.leavers = {1, 2}, !.hands = 3, !.drops = 1]

\* A second player arrives at a table of one whose founder may renew its join
\* intent at any moment; one hand can be played.
Renewal == [Calm EXCEPT !.founders = {1}, !.guests = {2}, !.renewers = {1},
                        !.claims = 2, !.versions = 6]

Tables == {Arrival, Departure, Renewal}

\* A leave crosses the roster of the next hand.
LeaveRace == {[Calm EXCEPT !.leavers = {2}, !.versions = 3]}

\* A join reaches the coordinator while a roster is half agreed.
JoinRace == {[Calm EXCEPT !.guests = {3}, !.versions = 3]}

\* A join is proposed both before and after the end of a hand.
LateJoin == {[Calm EXCEPT !.guests = {3}]}
=============================================================================
