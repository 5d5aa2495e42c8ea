------------------------------ MODULE MCArchive ------------------------------
(* Instance of Archive: how a behaviour starts, and how often user and        *)
(* network may do what in it.                                                 *)
EXTENDS Archive

CONSTANTS n1, n2, alice, bob, r1

Quiet ==
  [account |-> 0, create |-> 0, code |-> 0, restore |-> 0, configure |-> 0, sync |-> 0,
   enter |-> 0, opponent |-> 0, restart |-> 0, fail |-> 0, crash |-> 0,
   configurations |-> {<<{n1, n2}, 1>>},
   nodes |-> [n \in {n1, n2} |-> Empty], codes |-> {}]

\* One node keeps the backups of identities that follow one another.
Switching == [Quiet EXCEPT !.account = 2, !.create = 1, !.code = 1, !.configure = 1,
                           !.restart = 1, !.fail = 1, !.enter = 1, !.codes = {<<alice, 1>>},
                           !.configurations = {<<{n1}, 1>>}]

\* A remote restore from a damaged and a good envelope.
Restoring == [Quiet EXCEPT !.account = 2, !.create = 1, !.restore = 1, !.configure = 1, !.fail = 1,
                           !.codes = {<<alice, 1>>},
                           !.configurations = {<<{n1, n2}, 2>>},
                           !.nodes[n1].recovery[alice] = Damaged,
                           !.nodes[n2].recovery[alice] = 1]

\* A remote restore while the user plays, or configures another node.
Replacing == [Quiet EXCEPT !.account = 1, !.create = 1, !.restore = 1, !.configure = 2,
                           !.fail = 1, !.enter = 1, !.codes = {<<alice, 1>>},
                           !.configurations = {<<{n1}, 1>>, <<{n2}, 1>>},
                           !.nodes[n2].recovery[alice] = 1]

\* A hand is archived by nodes that crash.
Archiving == [Quiet EXCEPT !.account = 1, !.create = 1, !.configure = 1, !.enter = 1,
                           !.crash = 1, !.opponent = 1,
                           !.configurations = {<<{n1, n2}, 1>>, <<{n1, n2}, 2>>}]

\* A new device finds the history of the player.
NewDevice == [Quiet EXCEPT !.account = 1, !.restore = 1, !.configure = 1, !.sync = 1,
                           !.fail = 1, !.codes = {<<alice, 1>>},
                           !.nodes[n1].recovery[alice] = 1,
                           !.nodes[n2].objects = {r1},
                           !.nodes[n2].index[1] = {r1},
                           !.nodes[n1].objects = {r1}]

AllScenarios == {Switching, Restoring, Replacing, Archiving, NewDevice}
=============================================================================
