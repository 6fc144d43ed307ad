---------------------------- MODULE MCGameNames ----------------------------
(***************************************************************************)
(* A founding administrator and one more player, two names, and a code     *)
(* that admits twice: to come and to come back.                            *)
(***************************************************************************)
EXTENDS GameNames

CONSTANTS f, b, c1, n1, n2

Users == {f, b}
Codes == {c1}
Names == {n1, n2}
ReservedNames == {n1}

\* Each has a readable Discord name; a name derived from the id is left to those who
\* lost theirs.
Discord == [u \in {f, b} |-> IF u = f THEN n1 ELSE n2]

=============================================================================
