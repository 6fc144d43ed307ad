--------------------------- MODULE MCHostFailover ---------------------------
(***************************************************************************)
(* Both agents with the smallest timers that keep the order of the real    *)
(* ones: an answer, an authorization and the ports fit in one lease.       *)
(***************************************************************************)
EXTENDS HostFailover

MCPolicy(primary, automatic, recovery) ==
  [primary |-> primary, automatic |-> automatic, allowRecovery |-> recovery,
   failure |-> MinFailure, maxAge |-> MaxAge]

Agents == Node
Worlds == 0..MaxEdits
Recovery == {MCPolicy("vps", TRUE, TRUE)}
Planned == {MCPolicy("pc", FALSE, FALSE)}
NoTargets == {}
PC == {"pc"}
Both == {"vps", "pc"}

=============================================================================
