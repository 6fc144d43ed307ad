---------------------------- MODULE MCFileUpdate ----------------------------
(***************************************************************************)
(* An installed build, the stable one and the testers' one after it: the   *)
(* stable one has a new file, and the testers' one lost an old one.        *)
(***************************************************************************)
EXTENDS FileUpdate

Builds == 1..3
Files == {"app", "new", "old"}

Contents ==
  [v \in Builds |-> [f \in Files |->
     CASE f = "app" -> v
       [] f = "new" -> IF v = 1 THEN Absent ELSE v
       [] f = "old" -> IF v = 1 THEN 1 ELSE Absent]]

Channels == [tester \in BOOLEAN |-> IF tester THEN 3 ELSE 2]

=============================================================================
