---------------------------- MODULE PackDefaults ----------------------------
(***************************************************************************)
(* The pack's default settings (the overrides of the .mrpack): written as  *)
(* the pack ships them, followed through pack updates while nobody changed *)
(* them, and left alone once they are the player's.  Two files on disk say *)
(* how far this went: the record of what the launcher last wrote at each   *)
(* path, and the state that lets a launch with the same archive skip it all. *)
(***************************************************************************)
EXTENDS Naturals

CONSTANTS
  Pack,        \* each version of the pack: its files, its bundle, its defaults, the key it sets
  Setting,     \* the paths a default may have
  OptionsTxt,  \* options.txt, which belongs to the player once it is there
  Own,         \* what a player or a mod writes: no pack ships it
  Absent,      \* no file, or no entry of a record
  NoHash,      \* an entry of the record whose hash is not known
  Torn,        \* a file whose writing was cut short
  NoArchive    \* no mrpack-state.json yet

Version == DOMAIN Pack
Default(v) == Pack[v].defaults
Shipped == UNION {{Default(v)[s] : s \in DOMAIN Default(v)} : v \in Version}

\* What mrpack-overrides.json may say when it is whole.
Records == [Setting -> Shipped \cup {Absent, NoHash}]

ASSUME DefaultsAssumption ==
  /\ \A v \in Version : DOMAIN Default(v) \subseteq Setting
  /\ Shipped \cap {Own, Absent, NoHash, Torn} = {}
  /\ Own \notin {Absent, NoHash, Torn} /\ Absent \notin {NoHash, Torn}
  /\ OptionsTxt \in Setting /\ Torn \notin Records /\ NoArchive \notin Version

VARIABLES
  conf,     \* the settings on disk
  record,   \* mrpack-overrides.json
  archive,  \* mrpack-state.json: the archive whose defaults were applied last
  pass,     \* what applyOverrides is doing: [pc, repair, entries, next]
  touched,  \* history: settings others changed since this synchronisation started
  adrift    \* history: settings the launcher wrote and has not yet fully accounted for

defaultsVars == <<conf, record, archive, pass, touched, adrift>>

NoPass == [pc |-> "none", repair |-> FALSE, entries |-> {}, next |-> [s \in Setting |-> Absent]]

DefaultsTypeOK ==
  /\ conf \in [Setting -> Shipped \cup {Own, Absent, Torn}]
  /\ record \in Records \cup {Torn} /\ archive \in Version \cup {NoArchive}
  /\ pass \in [pc : {"none", "planned", "entries", "record", "state"}, repair : BOOLEAN,
               entries : SUBSET Setting, next : Records]
  /\ touched \subseteq Setting /\ adrift \subseteq Setting

DefaultsInit ==
  /\ conf = [s \in Setting |-> Absent]
  /\ record = [s \in Setting |-> Absent]
  /\ archive = NoArchive /\ pass = NoPass
  /\ touched = {} /\ adrift = {}

\* A damaged record reads as an empty one.
Previous == IF record = Torn THEN [s \in Setting |-> Absent] ELSE record
LastWritten(s) == IF Previous[s] = Absent THEN NoHash ELSE Previous[s]

Missing == IF archive = NoArchive THEN {} ELSE {s \in DOMAIN Default(archive) : conf[s] = Absent}

\* Same archive: only the defaults that are gone are needed again.  Another archive: all.
Plan(v) ==
  /\ pass' = IF archive = v /\ Missing = {} THEN NoPass
             ELSE [NoPass EXCEPT !.pc = "planned", !.repair = archive = v,
                     !.entries = IF archive = v THEN Missing ELSE DOMAIN Default(v)]
  /\ UNCHANGED <<conf, record, archive, adrift>>

\* Mutant: repairing one default forgets what the record says of the others.
OpenForgetful ==
  /\ pass.pc = "planned"
  /\ pass' = [pass EXCEPT !.pc = "entries"]
  /\ UNCHANGED <<conf, record, archive, touched, adrift>>

Open ==
  /\ pass.pc = "planned"
  /\ pass' = [pass EXCEPT !.pc = "entries", !.next = IF pass.repair THEN Previous ELSE @]
  /\ UNCHANGED <<conf, record, archive, touched, adrift>>

\* The launcher may write here: nothing is there, or exactly what it wrote itself.
Follows(s) ==
  \/ conf[s] = Absent
  \/ s # OptionsTxt /\ LastWritten(s) # NoHash /\ conf[s] = LastWritten(s)

\* One entry of the archive.  A repair leaves a default that came back in the meantime.
Entry(v, s) ==
  LET copy == Default(v)[s]
      ours == Follows(s) \/ (conf[s] = copy /\ s # OptionsTxt)
  IN /\ pass.pc = "entries" /\ s \in pass.entries
     /\ \/ /\ pass.repair /\ conf[s] # Absent
           /\ pass' = [pass EXCEPT !.entries = @ \ {s}]
           /\ UNCHANGED <<conf, adrift>>
        \/ /\ ~pass.repair \/ conf[s] = Absent
           /\ conf' = IF Follows(s) THEN [conf EXCEPT ![s] = copy] ELSE conf
           /\ pass' = [pass EXCEPT !.entries = @ \ {s},
                         !.next[s] = IF ours THEN copy ELSE LastWritten(s)]
           /\ adrift' = IF ours THEN adrift \cup {s} ELSE adrift
     /\ UNCHANGED <<record, archive, touched>>

\* Defaults the pack dropped go, while nobody changed them; writing the record begins.
Drop(edited) ==
  LET dropped == {s \in Setting \ edited : /\ ~pass.repair /\ pass.next[s] = Absent
                                           /\ LastWritten(s) # NoHash /\ conf[s] = LastWritten(s)}
  IN /\ pass.pc = "entries" /\ pass.entries = {}
     /\ conf' = [s \in Setting |-> IF s \in dropped THEN Absent ELSE conf[s]]
     /\ adrift' = adrift \ dropped
     /\ record' = Torn
     /\ pass' = [pass EXCEPT !.pc = "record"]
     /\ UNCHANGED <<archive, touched>>

Recorded ==
  /\ pass.pc = "record"
  /\ record' = pass.next /\ pass' = [pass EXCEPT !.pc = "state"]
  /\ UNCHANGED <<conf, archive, touched, adrift>>

\* The state names the archive, and the pass is over.
Stated(v) ==
  /\ pass.pc = "state"
  /\ archive' = v /\ pass' = NoPass
  /\ adrift' = adrift \ {s \in DOMAIN Default(v) : conf[s] = Default(v)[s] /\ record[s] = conf[s]}
  /\ UNCHANGED <<conf, record, touched>>

DefaultsStep(v, edited) ==
  \/ Open \/ (\E s \in Setting : Entry(v, s)) \/ Drop(edited) \/ Recorded \/ Stated(v)

\* An entry is written in place: a kill may leave the beginning of it.
Halved == {s \in pass.entries : pass.pc = "entries" /\ Follows(s)}

\* The player, a mod or the game writes or deletes a setting.
SettingChanges(s, c) ==
  /\ conf[s] # c /\ conf' = [conf EXCEPT ![s] = c]
  /\ touched' = touched \cup {s} /\ adrift' = adrift \ {s}
  /\ UNCHANGED <<record, archive, pass>>

-----------------------------------------------------------------------------

(***************************************************************************)
(* After a complete synchronisation with version v, every default that is  *)
(* not the player's is what v ships: updated, restored or removed.  Left   *)
(* out: options.txt, a setting someone changed meanwhile, and one the      *)
(* launcher wrote in a run that was interrupted before its record and its  *)
(* state were both written.                                                *)
(***************************************************************************)
Followed(v) ==
  \A s \in Setting \ ({OptionsTxt} \cup touched \cup adrift) :
    \/ conf[s] = Own
    \/ IF s \in DOMAIN Default(v) THEN conf[s] = Default(v)[s] ELSE conf[s] = Absent

=============================================================================
