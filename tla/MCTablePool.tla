----------------------------- MODULE MCTablePool -----------------------------
EXTENDS TablePool

Quiet == [players |-> {1, 2}, tables |-> {1, 2, 3}, search |-> 2, late |-> 0,
          leave |-> 0, friend |-> 0, hand |-> 0, crash |-> 0]

\* What may happen to two players and three tables, or three players and two.
MCSetups ==
  {[Quiet EXCEPT !.late = 2],
   [Quiet EXCEPT !.late = 1, !.leave = 1],
   [Quiet EXCEPT !.leave = 2, !.hand = 1],
   [Quiet EXCEPT !.search = 3, !.leave = 1],
   [Quiet EXCEPT !.search = 3, !.crash = 1],
   [Quiet EXCEPT !.search = 1, !.friend = 2, !.leave = 1, !.hand = 2],
   [Quiet EXCEPT !.search = 3, !.players = {1, 2, 3}, !.tables = {1, 2}]}
==============================================================================
