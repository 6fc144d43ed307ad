---------------------------- MODULE MCServerGate ----------------------------
(***************************************************************************)
(* One gate or two, with schedules of a few minutes.                       *)
(***************************************************************************)
EXTENDS ServerGate

CONSTANTS g1, g2, p1

One == {g1}
Two == {g1, g2}
OnePlayer == {p1}
ToFirst == [p \in Player |-> g1]

\* The first closes when the second opens.
HandOver == [g \in Gate |-> IF g = g1 THEN {0} ELSE 1..MaxTime]
\* The hours end for good.
Ends == [g \in Gate |-> 0..1]

Nothing == {}
AllFaults == {"crash", "hang", "restart"}
AllActs == {"off", "open", "close", "reload", "start"}

=============================================================================
