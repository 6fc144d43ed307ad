--------------------------- MODULE MCHostCallers ---------------------------
(***************************************************************************)
(* The coordinator with two sessions, one panel or two, and the three      *)
(* policies that differ in what they let the standby do.                   *)
(***************************************************************************)
EXTENDS HostCallers, TLC

CONSTANTS v1, p1, p2, a1, a2

\* One agent on the VPS, and on the PC one that may lose its session file.
Sessions == {v1, p1, p2}
OnePerNode == {v1, p1}
SessionHome == [s \in Session |-> IF s = v1 THEN "vps" ELSE "pc"]
OneAdmin == {a1}
TwoAdmins == {a1, a2}
OneContent == {"world"}

MCPolicy(primary, automatic, recovery, failure) ==
  [primary |-> primary, automatic |-> automatic, allowRecovery |-> recovery,
   failure |-> failure, maxAge |-> MaxAge]

SomePolicies ==
  { MCPolicy("vps", FALSE, FALSE, MinFailure), MCPolicy("pc", FALSE, FALSE, MinFailure),
    MCPolicy("vps", TRUE, TRUE, MinFailure), MCPolicy("vps", FALSE, TRUE, MaxFailure) }

SessionSymmetry == Permutations({p1, p2})

=============================================================================
