--------------------------- MODULE SharedOptions ---------------------------
(***************************************************************************)
(* options.txt follows the player: every launch puts the shared copy over  *)
(* the instance's own, puts the pack's key right in both, once, and what   *)
(* the game wrote is copied back every minute and when it ends.  The line  *)
(* of that key is kept apart (keys) from the rest of a file (conf[options],*)
(* shared).  Which file holds the player's last choice is history.         *)
(***************************************************************************)
EXTENDS PackDefaults

VARIABLES
  shared,    \* the shared copy, Torn when it has no line left
  elsewhere, \* whether the instance of another server has an options.txt
  keys,      \* the pack's key in the instance's file and in the shared copy
  settled,   \* key-defaults-applied.json: the key was put right once
  todo,      \* what applyKeyDefaults has still to do; "stale": to share what it read before a change
  seen,      \* lastSeen: the instance's file is the one last copied, or that of the start
  pending,   \* the copy at the end of a game is on its way: nobody waits for it
  latest,    \* history: which files hold the last choice
  young,     \* history: no minute of a game has passed since the last choice
  behind,    \* history: the last choice was not copied before its game or the launcher ended
  moved      \* history: the key was put right, and nothing kept the record of it from being written

keyVars == <<settled, todo, moved>>
optionsVars == <<shared, elsewhere, keys, seen, pending, latest, young, behind, keyVars>>

\* No line, on a binding of another key, on one of its own, or on the pack's choice.
Binding == {"none", "clash", "free", "pack"}

OptionsTypeOK ==
  /\ shared \in Shipped \cup {Own, Absent, Torn} /\ elsewhere \in BOOLEAN
  /\ keys \in [{"here", "shared"} -> Binding] /\ settled \in BOOLEAN
  /\ todo \subseteq {"keys", "share", "stale", "settle"}
  /\ seen \in BOOLEAN /\ pending \in BOOLEAN
  /\ latest \subseteq {"here", "shared", "elsewhere"}
  /\ young \in BOOLEAN /\ behind \in BOOLEAN /\ moved \in BOOLEAN

\* Whether the player has other servers, and the bindings they may give the pack's key.
Roams(v) == Pack[v].others
Bindings(v) ==
  IF \E w \in Version : Pack[w].id = Pack[v].id /\ Pack[w].key # "none" THEN {"clash", "free"} ELSE {}

ASSUME OptionsAssumption == \A v \in Version : Roams(v) \in BOOLEAN

\* Settings of the player's from other servers: none, not yet shared, or shared.
OptionsInit(v) ==
  /\ elsewhere \in {FALSE, Roams(v)}
  /\ \/ /\ shared = Absent /\ keys = [f \in {"here", "shared"} |-> "none"]
        /\ latest = IF elsewhere THEN {"elsewhere"} ELSE {"here", "shared"}
     \/ /\ elsewhere /\ shared = Own /\ latest = {"shared", "elsewhere"}
        /\ \E k \in Bindings(v) \cup {"none"} :
             keys = [f \in {"here", "shared"} |-> IF f = "here" THEN "none" ELSE k]
  /\ settled = FALSE /\ todo = {} /\ seen = FALSE /\ pending = FALSE
  /\ young = FALSE /\ behind = FALSE /\ moved = FALSE

Usable == shared \notin {Absent, Torn}

\* No shared copy with a line of settings in it: another server's file becomes it.  (The volumes a
\* usable copy lacks are added to it; no other line of it is told apart but the key's.)
Seed(v) ==
  /\ todo = {} /\ ~Usable /\ elsewhere /\ shared' = Own
  /\ \E k \in Bindings(v) \cup {"none"} : keys' = [keys EXCEPT !["shared"] = k]
  /\ latest' = IF "elsewhere" \in latest THEN latest \cup {"shared"} ELSE latest \ {"shared"}
  /\ UNCHANGED <<conf, elsewhere, seen, pending, young, behind, keyVars>>

KeysNext(v) == todo' = IF Pack[v].key = "none" THEN {} ELSE {"keys"}

\* A usable shared copy goes over the instance's own; then the keys, if the pack has one.
Restore(v) ==
  /\ todo = {}
  /\ \/ /\ Usable /\ conf' = [conf EXCEPT ![OptionsTxt] = shared]
        /\ keys' = [keys EXCEPT !["here"] = keys["shared"]]
        /\ latest' = IF "shared" \in latest THEN latest \cup {"here"} ELSE latest \ {"here"}
        /\ behind' = (behind \/ young) /\ young' = FALSE
     \/ ~Usable /\ ~elsewhere /\ UNCHANGED <<conf, keys, latest, young, behind>>
  /\ KeysNext(v) /\ UNCHANGED <<shared, elsewhere, seen, pending, settled, moved>>

\* The settings cannot be brought from another server: the launch goes on without.
SeedFails(v) ==
  /\ todo = {} /\ ~Usable /\ elsewhere /\ behind' = (behind \/ "here" \notin latest)
  /\ KeysNext(v) /\ UNCHANGED <<conf, shared, elsewhere, keys, seen, pending, latest, young, settled, moved>>

\* A key without a line gets the pack's choice.  One on a binding of another key, or one the
\* manifest names, moves there once, if no other key is there.
Choices(v) ==
  CASE keys["here"] = "none" -> {"pack"}
    [] keys["here"] = "clash" /\ ~settled -> {"clash", "pack"}
    [] keys["here"] = "free" /\ ~settled /\ Pack[v].key = "enforced" -> {"free", "pack"}
    [] OTHER -> {keys["here"]}

\* What was moved, and what the manifest names once it is there, is settled.
Settles(v, k) ==
  ~settled /\ k = "pack" /\ (Pack[v].key = "enforced" \/ keys["here"] \notin {"none", "pack"})

\* The key gets its line: in a file that has none, the only one.
KeyLine(k) ==
  /\ keys' = [keys EXCEPT !["here"] = k]
  /\ conf' = IF k # keys["here"] /\ conf[OptionsTxt] = Torn THEN [conf EXCEPT ![OptionsTxt] = Own] ELSE conf

\* Mutant: a key that was filled in is not settled, although the manifest names it.
KeysFilled(v) ==
  /\ "keys" \in todo /\ conf[OptionsTxt] # Absent
  /\ \E k \in Choices(v) :
       /\ KeyLine(k)
       /\ todo' = (IF k = keys["here"] THEN {} ELSE {"share"}) \cup
                  (IF Settles(v, k) /\ keys["here"] # "none" THEN {"settle"} ELSE {})
       /\ moved' = (moved \/ Settles(v, k))
  /\ UNCHANGED <<shared, elsewhere, settled, seen, pending, latest, young, behind>>

\* The key is put right in the instance's file,
KeysHere(v) ==
  /\ "keys" \in todo /\ conf[OptionsTxt] # Absent
  /\ \E k \in Choices(v) :
       /\ KeyLine(k)
       /\ todo' = (IF k = keys["here"] THEN {} ELSE {"share"}) \cup (IF Settles(v, k) THEN {"settle"} ELSE {})
       /\ moved' = (moved \/ Settles(v, k))
  /\ UNCHANGED <<shared, elsewhere, settled, seen, pending, latest, young, behind>>

\* The instance's file becomes the shared copy.
Captured ==
  IF conf[OptionsTxt] = Absent THEN UNCHANGED <<shared, keys, latest, young, behind>>
  ELSE /\ shared' = conf[OptionsTxt] /\ keys' = [keys EXCEPT !["shared"] = keys["here"]]
       /\ latest' = IF "here" \in latest THEN latest \cup {"shared"} ELSE latest \ {"shared"}
       /\ young' = FALSE /\ behind' = (behind /\ "here" \notin latest)

\* which then becomes the shared copy, if there is one,
KeysShared ==
  /\ todo \cap {"share", "stale"} # {} /\ todo' = todo \ {"share", "stale"}
  /\ \/ shared = Absent /\ UNCHANGED <<shared, keys, latest, young, behind>>
     \/ shared # Absent /\ "share" \in todo /\ Captured
     \/ /\ shared # Absent /\ "stale" \in todo
        /\ shared' = (IF Usable THEN shared ELSE Own) /\ keys' = [keys EXCEPT !["shared"] = "pack"]
        /\ latest' = latest \ {"shared"} /\ behind' = TRUE /\ UNCHANGED young
  /\ UNCHANGED <<conf, elsewhere, settled, seen, pending, moved>>

\* and the record of what is settled is written last.
KeysSettled ==
  /\ todo = {"settle"} /\ settled' = TRUE /\ todo' = {}
  /\ UNCHANGED <<conf, shared, elsewhere, keys, seen, pending, latest, young, behind, moved>>

\* There is no file to put a key into.
NoKeys ==
  /\ "keys" \in todo /\ conf[OptionsTxt] = Absent /\ todo' = {}
  /\ UNCHANGED <<conf, shared, elsewhere, keys, settled, seen, pending, latest, young, behind, moved>>

\* They cannot be written: the launch goes on.
KeysFail ==
  /\ todo # {} /\ todo' = {} /\ moved' = (moved /\ "settle" \notin todo)
  /\ UNCHANGED <<conf, shared, elsewhere, keys, settled, seen, pending, latest, young, behind>>

\* The game runs: what was just restored counts as copied.
Watch == seen' = TRUE /\ UNCHANGED <<shared, elsewhere, keys, pending, latest, young, behind, keyVars>>

\* Mutant: a tick remembers the file it found changed, and does not copy it.
TickLooks ==
  /\ ~pending /\ seen' = (seen \/ conf[OptionsTxt] \notin {Absent, Torn}) /\ young' = FALSE
  /\ UNCHANGED <<shared, elsewhere, keys, pending, latest, behind, keyVars>>

\* The file has changed, and has a line of settings in it.
Fresh == ~seen /\ conf[OptionsTxt] \notin {Absent, Torn}

\* Every minute of a game; the last game's copy is over by then.
Tick ==
  /\ ~pending
  /\ IF Fresh THEN Captured /\ seen' = TRUE
     ELSE young' = FALSE /\ UNCHANGED <<shared, keys, seen, latest, behind>>
  /\ UNCHANGED <<elsewhere, pending, keyVars>>

\* The game ends, and its last copy begins if there is a file to copy.
Ended ==
  /\ pending' = (conf[OptionsTxt] # Absent) /\ seen' = FALSE
  /\ UNCHANGED <<shared, elsewhere, keys, latest, young, behind, keyVars>>

\* Once the game has ended, while whatever comes next may already run.
LastCapture == pending /\ pending' = FALSE /\ Captured /\ UNCHANGED <<elsewhere, seen, keyVars>>

\* A copy breaks off: what is left of it may be empty or a beginning of it.  The next minute has
\* it again; after the end of the game nothing has.
Broken ==
  /\ shared' \in {Torn, Own} /\ keys' = [keys EXCEPT !["shared"] = "none"]
  /\ latest' = latest \ {"shared"}
  /\ UNCHANGED <<elsewhere, seen, keyVars>>

TickBreaks ==
  /\ Fresh /\ Broken /\ young' = TRUE /\ UNCHANGED <<pending, behind>>

LastBreaks == pending /\ pending' = FALSE /\ Broken /\ behind' = TRUE /\ UNCHANGED young

Overtaken == todo' = IF "share" \in todo THEN (todo \ {"share"}) \cup {"stale"} ELSE todo

\* The player changes a setting, the key's maybe: in the game, or in the file while no game runs.
Chosen(v, playing) ==
  /\ \E k \in Bindings(v) \cup {keys["here"]} : keys' = [keys EXCEPT !["here"] = k]
  /\ latest' = {"here"} /\ young' = playing /\ behind' = ~playing /\ seen' = FALSE
  /\ Overtaken /\ UNCHANGED <<shared, elsewhere, pending, settled, moved>>

\* The player deletes the file: a choice in it that was not copied is gone with it.
Deleted ==
  /\ keys' = [keys EXCEPT !["here"] = "none"]
  /\ latest' = latest \ {"here"} /\ young' = FALSE
  /\ behind' = (behind \/ "shared" \notin latest \/ ~Usable \/ pending \/ todo # {})
  /\ Overtaken /\ UNCHANGED <<shared, elsewhere, seen, pending, settled, moved>>

\* A game on another server ended: its settings were copied, or its launcher was killed first.
PlayedElsewhere(v) ==
  /\ Roams(v) /\ ~pending /\ elsewhere' = TRUE /\ young' = FALSE
  /\ \/ /\ shared' = Own
        /\ \E k \in Bindings(v) \cup {"none"} : keys' = [keys EXCEPT !["shared"] = k]
        /\ latest' = {"shared", "elsewhere"} /\ behind' = FALSE
     \/ latest' = {"elsewhere"} /\ behind' = Usable /\ UNCHANGED <<shared, keys>>
  /\ UNCHANGED <<seen, pending, keyVars>>

\* The launcher is gone, with the copies it owed; of options.txt it may have been writing the
\* restored copy, or the pack's default.
OptionsCrash(cut, restored) ==
  /\ pending' = FALSE /\ seen' = FALSE
  /\ behind' = (behind \/ young) /\ young' = FALSE
  /\ todo' = {} /\ moved' = (moved /\ "settle" \notin todo)
  /\ keys' = IF cut THEN [keys EXCEPT !["here"] = "none"] ELSE keys
  /\ latest' = IF cut /\ restored THEN latest \ {"here"} ELSE latest
  /\ UNCHANGED <<shared, elsewhere, settled>>

-----------------------------------------------------------------------------

(***************************************************************************)
(* A game starts with what the player chose last, here or on another       *)
(* server.  Left out: a choice made while no game ran, one younger than    *)
(* the next minute's copy when the launcher was killed or the next launch  *)
(* began, one whose copy at the end of the game broke, one on another      *)
(* server that was never copied, and one deleted before its copy.          *)
(***************************************************************************)
OptionsFollow == behind \/ "here" \in latest

=============================================================================
