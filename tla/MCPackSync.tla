----------------------------- MODULE MCPackSync -----------------------------
(***************************************************************************)
(* Four packs of two versions each.  In the first one file and a setting   *)
(* are updated, and the other file is dropped.  The second has mods of the *)
(* player's: one of the same name as a file its other version ships, in    *)
(* its bundle, and another copy of the same mod under another name.  The   *)
(* third ships options.txt, which is updated, and another setting, which   *)
(* is dropped.  The fourth sets a key, by default with an options.txt of   *)
(* its own and by name without one, for a player who has other servers.    *)
(***************************************************************************)
EXTENDS PackSync

Mods == {"a", "b", "c"}
Settings == {"config", "options"}
Jars == {"mine", "twin"}
Named == [j \in Jars |-> IF j = "mine" THEN "b" ELSE "c"]
Providing == [c \in {"a1", "a2", "b1", "b2"} \cup Jars |->
                IF c \in {"a1", "a2"} THEN {"A"} ELSE IF c \in {"b1", "b2"} THEN {"B"} ELSE {"M"}]

Packs ==
  <<[id |-> "plain", key |-> "none", others |-> FALSE,
     fits |-> {},
     files    |-> [m \in {"a", "b"} |-> IF m = "a" THEN "a1" ELSE "b1"],
     bundle   |-> {"a", "b"},
     defaults |-> [s \in {"config"} |-> "c1"]],
    [id |-> "plain", key |-> "none", others |-> FALSE,
     fits |-> {},
     files    |-> [m \in {"a"} |-> "a2"],
     bundle   |-> {},
     defaults |-> [s \in {"config"} |-> "c2"]],
    [id |-> "modded", key |-> "none", others |-> FALSE,
     fits |-> Jars,
     files    |-> [m \in {"a"} |-> "a1"],
     bundle   |-> {},
     defaults |-> [s \in {} |-> "c1"]],
    [id |-> "modded", key |-> "none", others |-> FALSE,
     fits |-> {"mine"},
     files    |-> [m \in {"a", "b"} |-> IF m = "a" THEN "a1" ELSE "b2"],
     bundle   |-> {"b"},
     defaults |-> [s \in {} |-> "c1"]],
    [id |-> "tuned", key |-> "none", others |-> FALSE,
     fits |-> {},
     files    |-> [m \in {} |-> "a1"],
     bundle   |-> {},
     defaults |-> [s \in Settings |-> IF s = "config" THEN "c1" ELSE "o1"]],
    [id |-> "tuned", key |-> "none", others |-> FALSE,
     fits |-> {},
     files    |-> [m \in {} |-> "a1"],
     bundle   |-> {},
     defaults |-> [s \in {"options"} |-> "o2"]],
    [id |-> "keyed", key |-> "default", others |-> TRUE,
     fits |-> {},
     files    |-> [m \in {} |-> "a1"],
     bundle   |-> {},
     defaults |-> [s \in {"options"} |-> "o1"]],
    [id |-> "keyed", key |-> "enforced", others |-> TRUE,
     fits |-> {},
     files    |-> [m \in {} |-> "a1"],
     bundle   |-> {},
     defaults |-> [s \in {} |-> "o1"]]>>

=============================================================================
