----------------------------- MODULE MCNotices -----------------------------
(***************************************************************************)
(* A founding administrator and a member to be, one invitation code and    *)
(* two servers; the state file keeps fewer records than notices are shown. *)
(***************************************************************************)
EXTENDS NoticeRelay

CONSTANTS f, b, c1, s1, s2

Users == {f, b}
Codes == {c1}
Servers == {s1, s2}
Ops == {"set_role", "remove"}
Played == [u \in {f, b} |-> IF u = f THEN s1 ELSE s2]

=============================================================================
