--------------------------- MODULE PackSyncProofs ---------------------------
(***************************************************************************)
(* Proofs about PackSync and what it is made of, for all packs, jars,      *)
(* settings and bounds.  The invariant has a part for each thing the       *)
(* launcher keeps: the files the manifest names (PinInv, from the hash     *)
(* kept in StampInv and, where it is of another file's times, RacedInv),   *)
(* the lists that name what the launcher put there                         *)
(* (ListInv, JarInv), the defaults with the record and the state beside    *)
(* them (PassInv, OursInv, EntryInv, TornInv), options.txt (OptionsInv)    *)
(* and the pack's key in it (KeysInv).                                     *)
(***************************************************************************)
EXTENDS PackSync, TLAPS

\* Where the run is, and what it has still to do.
RunInv ==
  /\ pc \in {"fetch", "obsolete"} => managed # Torn
  /\ pc # "fetch" => job = NoJob
  /\ bundle = "open" => pc = "fetch"
  /\ bundle # "open" => \A m \in Mod : job[m] \notin {"bundle", "commit"}
  /\ \A m \in Mod : job[m] # "none" => m \in DOMAIN File(want)
  /\ \A m \in Mod : job[m] = "land" => part[m] = File(want)[m]
  /\ pc # "obsolete" => obsolete = {}
  /\ obsolete \cap DOMAIN File(want) = {}
  /\ pc # "personal" => user.pc = "none"
  /\ user.pc \in {"none", "in", "list"} => user.out = {}
  /\ user.pc \notin {"in", "list"} => user.in = {}
  /\ user.pc = "list" => copied = {}
  /\ user.left \subseteq user.in /\ (user.pc = "list" => user.left = {})

Here(m) == mods[m] = File(want)[m]

\* The hash kept for a file whose times match is the hash of the file; a file that just landed is
\* the one whose hash is about to be kept, and none is kept of the one it replaced.
StampInv ==
  \A m \in Mod \ raced : /\ stamp[m].fresh => mods[m] \in {Absent, stamp[m].hash}
                         /\ job[m] \in {"stamp", "commit"} => mods[m] = Absent \/ Here(m)
                         /\ job[m] = "land" => ~stamp[m].fresh

\* Where it is not, the file is somebody else's.
RacedInv == \A m \in raced : mods[m] = Own /\ job[m] # "land"

\* Files the launcher cannot answer for.
Apart == changed \cup raced

\* The files of the manifest, from the check to the game.
PinInv ==
  /\ pc = "fetch" /\ ~failed => \A m \in DOMAIN File(want) \ Apart : job[m] = "none" => Here(m)
  /\ pc \in {"obsolete", "list", "defaults", "options"} => \A m \in DOMAIN File(want) \ Apart : Here(m)
  /\ pc = "personal" /\ user.pc = "none" => \A m \in DOMAIN File(want) \ Apart : Here(m)
  /\ pc \in {"personal", "done"} /\ ~(pc = "personal" /\ user.pc = "none")
       => \A m \in DOMAIN File(want) \ (Apart \cup displaced) : Here(m)
  /\ Entering \cap DOMAIN File(want) \subseteq changed \cup displaced

\* A file of a pack is in one of the lists.
ListInv ==
  /\ managed = Torn \/ \A m \in Mod : mods[m] \in Pinned => m \in managed \cup unlisted \cup copied
  /\ pc = "obsolete" => \A m \in Mod : mods[m] \in Pinned =>
                           m \in DOMAIN File(want) \cup obsolete \cup unlisted \cup copied
  /\ pc \in {"list", "defaults", "options", "personal", "done"} =>
       \A m \in Mod : mods[m] \in Pinned => m \in DOMAIN File(want) \cup unlisted \cup copied
  /\ pc \in {"defaults", "options", "personal", "done"} => managed = DOMAIN File(want)
  /\ pc = "done" => \A m \in Mod : mods[m] \in Pinned => m \in DOMAIN File(want) \cup unlisted
  /\ user.pc # "none" => \A m \in Mod : mods[m] \in Pinned =>
                            m \in DOMAIN File(want) \cup user.out \cup (unlisted \ copied)

\* A jar of the player's too.
JarInv ==
  /\ \A m \in Mod : mods[m] \in Jar => m \in copied \cup unlisted
  /\ user.pc # "none" => \A m \in Mod : mods[m] \in Jar =>
                            m \in user.out \cup Entering \cup (unlisted \ copied)
  /\ \A j, k \in user.in : Share(j, k) => j = k
  /\ \A j \in user.in : mods[JarName[j]] \notin Pinned
  /\ \A j \in user.in : \A n \in Mod : n # JarName[j] => ~Share(j, mods[n])
  /\ \A j \in user.in \ user.left : mods[JarName[j]] = j \/ JarName[j] \in changed
  /\ pc \in {"check", "fetch", "obsolete", "list"} => \A m \in changed : mods[m] \notin Jar

\* Where the defaults are.
PassInv ==
  /\ pc \in {"idle", "options", "personal", "done"} => pass.pc = "none"
  /\ pc \in {"check", "fetch", "obsolete", "list"} => pass.pc \in {"none", "planned"}
  /\ pass.pc \notin {"planned", "entries"} => pass.entries = {}
  /\ pc # "idle" => pass.entries \subseteq DOMAIN Default(want)
  /\ pc # "idle" /\ pass.pc = "none" => archive = want
  /\ pass.pc # "none" /\ pass.repair => archive = want
  /\ pass.pc = "state" => record # Torn

\* A setting the launcher wrote and accounted for.
Ours(s) == s # OptionsTxt /\ s \notin adrift /\ conf[s] \in Shipped

\* Such a setting is what the archive of the state ships, and the record says so.
OursInv ==
  \A s \in Setting : Ours(s) =>
    /\ archive # NoArchive /\ s \in DOMAIN Default(archive) /\ conf[s] = Default(archive)[s]
    /\ IF pass.pc = "record" THEN pass.next[s] = conf[s] ELSE Previous[s] = conf[s]

\* The defaults a pass has gone through and those it has still to go through.  It follows a setting
\* the launcher wrote, drops one that left the pack, and has an entry for each that is gone.
EntryInv ==
  /\ pass.pc \in {"planned", "entries"} /\ ~pass.repair => \A s \in Setting :
       /\ Ours(s) /\ s \in DOMAIN Default(want) => s \in pass.entries
       /\ s \notin DOMAIN Default(want) => pass.next[s] = Absent
       /\ s \in DOMAIN Default(want) \ pass.entries => pass.next[s] # Absent
  /\ pass.pc = "entries" /\ pass.repair => \A s \in Setting : Ours(s) => pass.next[s] = conf[s]
  /\ pass.pc \in {"record", "state"} /\ ~pass.repair => \A s \in Setting : ~Ours(s)
  /\ pc # "idle" => \A s \in DOMAIN Default(want) \ touched : conf[s] = Absent => s \in pass.entries

\* What a kill cut short is not accounted for.
TornInv == \A s \in Setting \ {OptionsTxt} : conf[s] = Torn => s \in adrift

\* What applyKeyDefaults has done and has still to do.
KeysInv ==
  /\ todo # {} => pc = "options"
  /\ "keys" \in todo => todo = {"keys"}
  /\ moved => settled \/ "settle" \in todo

\* No kill loses the last choice.
Safe == "shared" \in latest \/ behind \/ young

\* The last choice is in the shared copy, or in the file of another server that the next launch
\* makes the shared copy; and it is in the file that the next copy is taken from.
OptionsInv ==
  /\ Safe \/ /\ ~Usable /\ elsewhere /\ "elsewhere" \in latest /\ "here" \notin latest
             /\ ~pending /\ todo = {} /\ pc \notin {"personal", "done"}
  /\ ~Usable => behind \/ elsewhere \/ "here" \in latest
  /\ pending \/ todo # {} => behind \/ "here" \in latest
  /\ pc \in {"personal", "done"} =>
       /\ conf[OptionsTxt] # Absent => behind \/ "here" \in latest
       /\ OptionsTxt \in touched \/ behind \/ "here" \in latest
  /\ young => conf[OptionsTxt] = Own /\ (behind \/ pending \/ (pc = "done" /\ ~seen))
  /\ pc = "done" /\ ~seen => conf[OptionsTxt] \in {Own, Absent}
  /\ elsewhere => /\ "here" \in latest => conf[OptionsTxt] = Own
                  /\ "shared" \in latest => shared = Own

-----------------------------------------------------------------------------
LEMMA PinnedFile ==
  ASSUME NEW v \in Version, NEW m \in DOMAIN File(v)
  PROVE  m \in Mod /\ File(v)[m] \in Pinned /\ File(v)[m] \notin Jar \cup {Own, Absent}
<1>1. m \in Mod  BY PersonalAssumption
<1>2. File(v)[m] \in Pinned  BY DEF Pinned
<1> QED  BY <1>1, <1>2, PersonalAssumption

LEMMA ShippedDefault ==
  ASSUME NEW v \in Version, NEW s \in DOMAIN Default(v)
  PROVE  s \in Setting /\ Default(v)[s] \in Shipped /\ Default(v)[s] \notin {Own, Absent, NoHash, Torn}
<1>1. s \in Setting  BY DefaultsAssumption
<1>2. Default(v)[s] \in Shipped  BY DEF Shipped
<1> QED  BY <1>1, <1>2, DefaultsAssumption

LEMMA NoPassTyped == NoPass \in [pc : {"none", "planned", "entries", "record", "state"}, repair : BOOLEAN,
                                 entries : SUBSET Setting, next : Records]
<1>1. [s \in Setting |-> Absent] \in Records  BY DEF Records
<1> QED  BY <1>1, Zenon DEF NoPass

LEMMA NoUserTyped == NoUser \in [pc : {"none", "out", "in", "list"}, out : SUBSET Mod, without : BOOLEAN,
                                 in : SUBSET Jar, left : SUBSET Jar]
BY Zenon DEF NoUser

LEMMA PreviousTyped ==
  ASSUME record \in Records \cup {Torn}
  PROVE  Previous \in Records /\ \A s \in Setting : LastWritten(s) \in Shipped \cup {NoHash}
<1>1. Previous \in Records  BY DEF Previous, Records
<1>2. ASSUME NEW s \in Setting PROVE LastWritten(s) \in Shipped \cup {NoHash}
  BY <1>1 DEF LastWritten, Records
<1> QED  BY <1>1, <1>2

LEMMA Counted ==
  ASSUME count \in [DOMAIN Bound -> Nat], \A k \in DOMAIN Bound : count[k] <= Bound[k],
         NEW i \in DOMAIN Bound, Counts(i)
  PROVE  count' \in [DOMAIN Bound -> Nat] /\ (\A k \in DOMAIN Bound : count'[k] <= Bound[k])
         /\ count'[i] = count[i] + 1
<1>1. \A k \in DOMAIN Bound : Bound[k] \in Nat  BY SyncAssumption DEF Bound
<1> QED  BY <1>1 DEF Counts

LEMMA BoundDomain == DOMAIN Bound = {"publish", "change", "fault", "crash"}
BY DEF Bound

LEMMA NamesMod == Names \subseteq Mod /\ Fitting \subseteq Jar
<1>1. Fitting \subseteq Jar  BY PersonalAssumption DEF Fitting, Versions
<1>2. {JarName[j] : j \in Fitting} \subseteq Mod  BY <1>1, PersonalAssumption
<1>3. UNION {DOMAIN File(v) : v \in Versions} \subseteq Mod  BY PersonalAssumption DEF Versions
<1> QED  BY <1>1, <1>2, <1>3 DEF Names

-----------------------------------------------------------------------------
\* Types, action by action.
PassType == [pc : {"none", "planned", "entries", "record", "state"}, repair : BOOLEAN,
             entries : SUBSET Setting, next : Records]

LEMMA DefaultsStepTypes ==
  ASSUME DefaultsTypeOK, NEW v \in Version, NEW edited, DefaultsStep(v, edited),
         pass.entries \subseteq DOMAIN Default(v)
  PROVE  DefaultsTypeOK'
<1>1. /\ conf \in [Setting -> Shipped \cup {Own, Absent, Torn}] /\ record \in Records \cup {Torn}
      /\ archive \in Version \cup {NoArchive} /\ pass \in PassType
      /\ touched \subseteq Setting /\ adrift \subseteq Setting
  BY Zenon DEF DefaultsTypeOK, PassType
<1>2. /\ Previous \in Records /\ \A s \in Setting : LastWritten(s) \in Shipped \cup {NoHash}
  BY <1>1, PreviousTyped
<1>3. SUFFICES /\ conf' \in [Setting -> Shipped \cup {Own, Absent, Torn}] /\ record' \in Records \cup {Torn}
               /\ archive' \in Version \cup {NoArchive} /\ pass' \in PassType
               /\ touched' \subseteq Setting /\ adrift' \subseteq Setting
  BY Zenon DEF DefaultsTypeOK, PassType
<1>4. CASE Open
  <2>1. pass' \in PassType  BY <1>1, <1>2, <1>4 DEF Open, PassType
  <2> QED  BY <1>1, <1>4, <2>1 DEF Open
<1>5. ASSUME NEW s \in Setting, Entry(v, s) PROVE <1>3!1
  <2>1. s \in pass.entries /\ s \in DOMAIN Default(v)  BY <1>5 DEF Entry
  <2>2. Default(v)[s] \in Shipped  BY <2>1, ShippedDefault
  <2>3. UNCHANGED <<record, archive, touched>>  BY <1>5 DEF Entry
  <2>4. conf' = conf \/ conf' = [conf EXCEPT ![s] = Default(v)[s]]  BY <1>5 DEF Entry
  <2>5. adrift' = adrift \/ adrift' = adrift \cup {s}  BY <1>5 DEF Entry
  <2>6. \/ pass' = [pass EXCEPT !.entries = @ \ {s}]
        \/ pass' = [pass EXCEPT !.entries = @ \ {s}, !.next[s] = Default(v)[s]]
        \/ pass' = [pass EXCEPT !.entries = @ \ {s}, !.next[s] = LastWritten(s)]
    BY <1>5 DEF Entry
  <2>7. pass' \in PassType
    <3>1. pass.next \in Records /\ pass.entries \ {s} \in SUBSET Setting  BY <1>1 DEF PassType
    <3>2. \A x \in Shipped \cup {Absent, NoHash} : [pass.next EXCEPT ![s] = x] \in Records
      BY <3>1 DEF Records
    <3>3. [pass EXCEPT !.entries = @ \ {s}] \in PassType  BY <1>1, <3>1 DEF PassType
    <3>4. \A f \in Records : [pass EXCEPT !.entries = @ \ {s}, !.next = f] \in PassType
      BY <1>1, <3>1 DEF PassType
    <3>5. [pass EXCEPT !.entries = @ \ {s}, !.next[s] = Default(v)[s]]
            = [pass EXCEPT !.entries = @ \ {s}, !.next = [pass.next EXCEPT ![s] = Default(v)[s]]]
      BY <1>1 DEF PassType
    <3>6. [pass EXCEPT !.entries = @ \ {s}, !.next[s] = LastWritten(s)]
            = [pass EXCEPT !.entries = @ \ {s}, !.next = [pass.next EXCEPT ![s] = LastWritten(s)]]
      BY <1>1 DEF PassType
    <3> QED  BY <1>2, <2>2, <2>6, <3>2, <3>3, <3>4, <3>5, <3>6
  <2> QED  BY <1>1, <2>2, <2>3, <2>4, <2>5, <2>7
<1>6. CASE Drop(edited)
  <2>1. UNCHANGED <<archive, touched>> /\ record' = Torn /\ adrift' \subseteq adrift
        /\ pass' = [pass EXCEPT !.pc = "record"]  BY <1>6 DEF Drop
  <2>2. conf' \in [Setting -> Shipped \cup {Own, Absent, Torn}]  BY <1>1, <1>6 DEF Drop
  <2>3. pass' \in PassType  BY <1>1, <2>1 DEF PassType
  <2> QED  BY <1>1, <2>1, <2>2, <2>3
<1>7. CASE Recorded
  <2>1. pass' \in PassType  BY <1>1, <1>7 DEF Recorded, PassType
  <2>2. record' \in Records  BY <1>1, <1>7 DEF Recorded, PassType
  <2> QED  BY <1>1, <1>7, <2>1, <2>2 DEF Recorded
<1>8. CASE Stated(v)
  <2>1. pass' \in PassType  BY <1>8, NoPassTyped DEF Stated, PassType
  <2> QED  BY <1>1, <1>8, <2>1 DEF Stated
<1> QED  BY <1>4, <1>5, <1>6, <1>7, <1>8 DEF DefaultsStep

LEMMA PlanTypes ==
  ASSUME DefaultsTypeOK, Plan(published), touched' = {}, published \in Version
  PROVE  DefaultsTypeOK'
<1>1. /\ conf \in [Setting -> Shipped \cup {Own, Absent, Torn}] /\ record \in Records \cup {Torn}
      /\ archive \in Version \cup {NoArchive} /\ pass \in PassType
      /\ touched \subseteq Setting /\ adrift \subseteq Setting
  BY Zenon DEF DefaultsTypeOK, PassType
<1>2. SUFFICES /\ conf' \in [Setting -> Shipped \cup {Own, Absent, Torn}] /\ record' \in Records \cup {Torn}
               /\ archive' \in Version \cup {NoArchive} /\ pass' \in PassType
               /\ touched' \subseteq Setting /\ adrift' \subseteq Setting
  BY Zenon DEF DefaultsTypeOK, PassType
<1>3. UNCHANGED <<conf, record, archive, adrift>>  BY DEF Plan
<1>4. Missing \subseteq Setting /\ DOMAIN Default(published) \subseteq Setting
  BY <1>1, DefaultsAssumption DEF Missing
<1>5. NoPass \in PassType  BY NoPassTyped DEF PassType
<1>6. \A b \in BOOLEAN : [NoPass EXCEPT !.pc = "planned", !.repair = b, !.entries = Missing] \in PassType
  BY <1>4, <1>5 DEF PassType
<1>7. \A b \in BOOLEAN : [NoPass EXCEPT !.pc = "planned", !.repair = b, !.entries = DOMAIN Default(published)] \in PassType
  BY <1>4, <1>5 DEF PassType
<1>8. (archive = published) \in BOOLEAN  OBVIOUS
<1>9. pass' \in PassType  BY <1>5, <1>6, <1>7, <1>8, Zenon DEF Plan
<1> QED  BY <1>1, <1>3, <1>9

\* The files of an instance: what the steps of a run do to them.
LEMMA AgainTypes ==
  ASSUME NEW m \in Mod, Again(m), left \in [Mod -> 0..Tries], failed \in BOOLEAN,
         job \in [Mod -> {"none", "bundle", "commit", "rest", "fetch", "land", "stamp"}]
  PROVE  /\ left' \in [Mod -> 0..Tries] /\ failed' \in BOOLEAN
         /\ job' \in [Mod -> {"none", "bundle", "commit", "rest", "fetch", "land", "stamp"}]
<1>1. Tries \in Nat  BY SyncAssumption
<1>2. CASE left[m] > 1  BY <1>1, <1>2 DEF Again
<1>3. CASE ~(left[m] > 1)
  <2>1. failed' \in BOOLEAN  BY <1>3, Zenon DEF Again
  <2> QED  BY <1>1, <1>3, <2>1 DEF Again
<1> QED  BY <1>2, <1>3

LEMMA StampedTyped ==
  ASSUME NEW set \in SUBSET Mod, mods \in [Mod -> Pinned \cup Jar \cup {Own, Absent}],
         stamp \in [Mod -> [hash : Pinned \cup Jar \cup {Own, Absent}, fresh : BOOLEAN]]
  PROVE  Stamped(set) \in [Mod -> [hash : Pinned \cup Jar \cup {Own, Absent}, fresh : BOOLEAN]]
<1>1. ASSUME NEW m \in Mod PROVE Hash(m) \in Pinned \cup Jar \cup {Own, Absent}
  <2>1. stamp[m].hash \in Pinned \cup Jar \cup {Own, Absent}  BY DEF Hash
  <2>2. mods[m] \in Pinned \cup Jar \cup {Own, Absent}  OBVIOUS
  <2> QED  BY <2>1, <2>2, Zenon DEF Hash
<1>2. \A x \in Pinned \cup Jar \cup {Own, Absent} :
        [hash |-> x, fresh |-> TRUE] \in [hash : Pinned \cup Jar \cup {Own, Absent}, fresh : BOOLEAN]
  BY Zenon
<1> QED  BY <1>1, <1>2 DEF Stamped

LEMMA SyncTypes == TypeOK /\ RunInv /\ [Next]_vars => SyncTypeOK'
<1> SUFFICES ASSUME TypeOK, RunInv, [Next]_vars PROVE SyncTypeOK'
  OBVIOUS
<1> DEFINE Content == Pinned \cup Jar \cup {Own, Absent}
           Hashes == [Mod -> [hash : Content, fresh : BOOLEAN]]
           Jobs == [Mod -> {"none", "bundle", "commit", "rest", "fetch", "land", "stamp"}]
           Pcs == {"idle", "check", "fetch", "obsolete", "list", "defaults", "options", "personal", "done"}
           CountOK == count \in [DOMAIN Bound -> Nat] /\ \A k \in DOMAIN Bound : count[k] <= Bound[k]
<1>1. /\ published \in Version /\ want \in Version /\ pc \in Pcs
      /\ part \in [Mod -> Pinned \cup {Absent}] /\ stamp \in Hashes
      /\ managed \in (SUBSET Mod) \cup {Torn} /\ job \in Jobs /\ left \in [Mod -> 0..Tries]
      /\ bundle \in {"none", "open", "settled"} /\ obsolete \subseteq Mod /\ failed \in BOOLEAN
      /\ changed \subseteq Mod /\ unlisted \subseteq Mod /\ raced \subseteq Mod /\ CountOK /\ mods \in [Mod -> Content]
  BY Zenon DEF TypeOK, SyncTypeOK, PersonalTypeOK
<1>2. /\ NoJob \in Jobs /\ [m \in Mod |-> 0] \in [Mod -> 0..Tries] /\ Tries \in Nat
  BY SyncAssumption DEF NoJob
<1>3. DOMAIN File(want) \subseteq Mod /\ \A m \in DOMAIN File(want) : File(want)[m] \in Pinned
  BY <1>1, PinnedFile
<1>4. \A m \in Mod : job[m] # "none" => m \in DOMAIN File(want)
  BY DEF RunInv
<1>5. \A x \in Content, y \in BOOLEAN : [hash |-> x, fresh |-> y] \in [hash : Content, fresh : BOOLEAN]
  BY Zenon
<1>6. NoStamp \in [hash : Content, fresh : BOOLEAN]  BY <1>5, Zenon DEF NoStamp
<1>7. \A k \in DOMAIN Bound : Counts(k) => CountOK'  BY <1>1, Counted
<1>8. "publish" \in DOMAIN Bound /\ "change" \in DOMAIN Bound /\ "fault" \in DOMAIN Bound
      /\ "crash" \in DOMAIN Bound  BY BoundDomain
<1>9. Names \subseteq Mod  BY NamesMod
<1>10. \A S \in SUBSET Mod : Stamped(S) \in Hashes  BY <1>1, StampedTyped
<1>11. Landed \subseteq Mod  BY DEF Landed
<1>12. \A m \in Mod : [stamp EXCEPT ![m].fresh = FALSE] \in Hashes  BY <1>1
<1>13. \A m \in DOMAIN File(want) : Stamps(m) => stamp' \in Hashes
  <2> SUFFICES ASSUME NEW m \in DOMAIN File(want), Stamps(m) PROVE stamp' \in Hashes
    OBVIOUS
  <2>1. \A fresh \in BOOLEAN : [hash |-> File(want)[m], fresh |-> fresh] \in [hash : Content, fresh : BOOLEAN]
    BY <1>3, <1>5, Zenon
  <2>2. PICK fresh \in {TRUE, mods[m] = File(want)[m]} :
          stamp' = [stamp EXCEPT ![m] = [hash |-> File(want)[m], fresh |-> fresh]]
    BY DEF Stamps
  <2>3. fresh \in BOOLEAN  BY <2>2
  <2>4. [hash |-> File(want)[m], fresh |-> fresh] \in [hash : Content, fresh : BOOLEAN]  BY <2>1, <2>3
  <2> QED  BY <1>1, <2>2, <2>4
<1> HIDE DEF Content, Hashes, Jobs, Pcs, CountOK
<1>20. SUFFICES
      /\ published' \in Version /\ want' \in Version /\ pc' \in Pcs
      /\ part' \in [Mod -> Pinned \cup {Absent}] /\ stamp' \in Hashes
      /\ managed' \in (SUBSET Mod) \cup {Torn} /\ job' \in Jobs /\ left' \in [Mod -> 0..Tries]
      /\ bundle' \in {"none", "open", "settled"} /\ obsolete' \subseteq Mod /\ failed' \in BOOLEAN
      /\ changed' \subseteq Mod /\ unlisted' \subseteq Mod /\ raced' \subseteq Mod /\ CountOK'
  BY Zenon DEF SyncTypeOK, Content, Hashes, Jobs, Pcs, CountOK
<1>21. CASE Start
  BY <1>1, <1>21, Zenon DEF Start, Pcs, CountOK
<1>22. CASE Check
  <2>1. /\ pc' = "fetch" /\ stamp' = Stamped(DOMAIN File(want))
        /\ bundle' \in {"none", "open"}
        /\ UNCHANGED <<published, want, part, managed, obsolete, failed, changed, unlisted, raced, count>>
    BY <1>22 DEF Check
  <2>2. job' \in Jobs  BY <1>22 DEF Check, Jobs
  <2>3. left' \in [Mod -> 0..Tries]  BY <1>2, <1>22 DEF Check
  <2>4. stamp' \in Hashes  BY <1>3, <1>10, <2>1
  <2>5. CountOK' /\ failed' \in BOOLEAN  BY <1>1, <2>1, Zenon DEF CountOK
  <2>6. pc' \in Pcs  BY <2>1 DEF Pcs
  <2> QED  BY <1>1, <2>1, <2>2, <2>3, <2>4, <2>5, <2>6
<1>23. ASSUME Abandon, UNCHANGED <<published, want, part, managed, changed, unlisted, raced>>, stamp' \in Hashes,
              CountOK'
       PROVE <1>20!1
  <2>1. failed' \in BOOLEAN /\ pc' \in Pcs  BY <1>23, Zenon DEF Abandon, Pcs
  <2> QED  BY <1>1, <1>2, <1>23, <2>1 DEF Abandon
<1>24. CASE CheckFails \/ FetchFails \/ CopyFails \/ JarGone \/ Played
  <2>1. Abandon /\ UNCHANGED <<published, want, part, managed, changed, unlisted, raced, stamp>>
        /\ (Counts("fault") \/ UNCHANGED count)
    BY <1>24 DEF CheckFails, FetchFails, CopyFails, JarGone, Played, PersonalFails
  <2>2. CountOK'  BY <1>1, <1>7, <1>8, <2>1, Zenon DEF CountOK
  <2> QED  BY <1>1, <1>23, <2>1, <2>2
<1>25. CASE Crash
  <2>1. stamp' \in Hashes  BY <1>1, <1>6, <1>25 DEF Crash, Hashes
  <2>2. CountOK'  BY <1>7, <1>8, <1>25 DEF Crash
  <2> QED  BY <1>23, <1>25, <2>1, <2>2 DEF Crash
<1>26. CASE Download
  <2>1. PICK m \in Mod :
          /\ \/ Arrives(m) /\ UNCHANGED count
             \/ (Mixed(m) \/ Land(m) \/ Remember(m) \/ RememberFails(m)) /\ UNCHANGED <<raced, count>>
             \/ (Breaks(m) \/ LandFails(m)) /\ UNCHANGED raced
          /\ unlisted' = unlisted \cup Landed
    BY <1>26 DEF Download
  <2>2. UNCHANGED <<published, want, pc, managed, bundle, obsolete, changed>>  BY <1>26 DEF Download
  <2>3. m \in DOMAIN File(want) /\ File(want)[m] \in Pinned
    BY <1>3, <1>4, <2>1 DEF Arrives, Mixed, Land, Remember, RememberFails, Breaks, LandFails, Fetching
  <2>4. CountOK'
    BY <1>1, <1>7, <1>8, <2>1, Zenon DEF Breaks, LandFails, CountOK
  <2>5. part' \in [Mod -> Pinned \cup {Absent}]
    <3>1. \A x \in Pinned \cup {Absent} : [part EXCEPT ![m] = x] \in [Mod -> Pinned \cup {Absent}]
      BY <1>1
    <3>2. part[m] \in Pinned \cup {Absent}  BY <1>1
    <3> QED
      BY <1>1, <2>1, <2>3, <3>1, <3>2 DEF Arrives, Mixed, Land, Remember, RememberFails, Breaks, LandFails, Received
  <2>6. stamp' \in Hashes
    BY <1>1, <1>12, <1>13, <2>1, <2>3 DEF Arrives, Mixed, Land, Remember, RememberFails, Breaks, LandFails
  <2>7. raced' \subseteq Mod  BY <1>1, <2>1 DEF Arrives
  <2>8. ASSUME job' \in Jobs, left' \in [Mod -> 0..Tries], failed' \in BOOLEAN PROVE <1>20!1
    BY <1>1, <1>11, <2>1, <2>2, <2>4, <2>5, <2>6, <2>7, <2>8
  <2>9. CASE Again(m)
    <3>1. job \in [Mod -> {"none", "bundle", "commit", "rest", "fetch", "land", "stamp"}]  BY <1>1 DEF Jobs
    <3>2. job' \in Jobs /\ left' \in [Mod -> 0..Tries] /\ failed' \in BOOLEAN
      BY <1>1, <2>9, <3>1, AgainTypes, Zenon DEF Jobs
    <3> QED  BY <2>8, <3>2
  <2>10. CASE Arrives(m) \/ Land(m) \/ Remember(m) \/ RememberFails(m)
    <3>1. job' \in Jobs  BY <1>1, <2>10 DEF Jobs, Arrives, Land, Remember, RememberFails
    <3>2. left' \in [Mod -> 0..Tries]
      <4>1. left' = left \/ left' = [left EXCEPT ![m] = 0]
        BY <2>10 DEF Arrives, Land, Remember, RememberFails
      <4>2. 0 \in 0..Tries  BY <1>2
      <4> QED  BY <1>1, <4>1, <4>2
    <3>3. failed' \in BOOLEAN
      BY <1>1, <2>10, Zenon DEF Arrives, Land, Remember, RememberFails
    <3> QED  BY <2>8, <3>1, <3>2, <3>3
  <2> QED  BY <2>1, <2>9, <2>10 DEF Mixed, Breaks, LandFails
<1>27. CASE BundleLands \/ BundleCommits
  <2>1. PICK m \in Mod :
          \/ /\ job[m] = "bundle" /\ job' = [job EXCEPT ![m] = "commit"] /\ raced' = raced \ {m}
             /\ stamp' = [stamp EXCEPT ![m].fresh = FALSE]
          \/ job[m] = "commit" /\ job' = [job EXCEPT ![m] = "rest"] /\ Stamps(m) /\ UNCHANGED raced
    BY <1>27 DEF BundleLands, BundleCommits
  <2>2. unlisted' \in {unlisted, unlisted \cup Landed}
        /\ UNCHANGED <<published, want, pc, part, managed, left, bundle, obsolete, failed, changed, count>>
    BY <1>27 DEF BundleLands, BundleCommits
  <2>3. m \in DOMAIN File(want)  BY <1>4, <2>1
  <2>4. stamp' \in Hashes /\ job' \in Jobs  BY <1>1, <1>12, <1>13, <2>1, <2>3 DEF Jobs
  <2>5. CountOK' /\ failed' \in BOOLEAN  BY <1>1, <2>2, Zenon DEF CountOK
  <2> QED  BY <1>1, <1>11, <2>1, <2>2, <2>4, <2>5
<1>28. CASE BundleSettles
  <2>1. /\ bundle' = "settled" /\ stamp' = Stamped({m \in Mod : job[m] \in {"bundle", "commit", "rest"}})
        /\ (Counts("fault") \/ UNCHANGED count)
        /\ UNCHANGED <<published, want, pc, part, managed, left, obsolete, failed, changed, unlisted, raced>>
    BY <1>28 DEF BundleSettles, BundleEnds
  <2>2. job' \in Jobs  BY <1>1, <1>28 DEF BundleSettles, Jobs
  <2>3. stamp' \in Hashes  BY <1>10, <2>1
  <2>4. CountOK' /\ failed' \in BOOLEAN  BY <1>1, <1>7, <1>8, <2>1, Zenon DEF CountOK
  <2> QED  BY <1>1, <2>1, <2>2, <2>3, <2>4
<1>29. CASE Rest
  <2>1. UNCHANGED <<published, want, pc, part, stamp, managed, bundle, obsolete, failed,
                    changed, unlisted, raced, count>>  BY <1>29 DEF Rest
  <2>2. job' \in Jobs /\ left' \in [Mod -> 0..Tries]  BY <1>2, <1>29 DEF Rest, Jobs
  <2>3. CountOK' /\ failed' \in BOOLEAN  BY <1>1, <2>1, Zenon DEF CountOK
  <2> QED  BY <1>1, <2>1, <2>2, <2>3
<1>30. CASE Fetched
  <2>1. UNCHANGED <<published, want, part, stamp, managed, job, left, bundle, failed, changed, unlisted,
                    raced, count>> /\ pc' = "obsolete" /\ obsolete' = managed \ DOMAIN File(want) /\ pc = "fetch"
    BY <1>30 DEF Fetched, Settled
  <2>2. managed \subseteq Mod  BY <1>1, <2>1 DEF RunInv
  <2>3. CountOK' /\ failed' \in BOOLEAN /\ pc' \in Pcs  BY <1>1, <2>1, Zenon DEF CountOK, Pcs
  <2> QED  BY <1>1, <2>1, <2>2, <2>3
<1>31. CASE Remove
  <2>1. PICK m \in obsolete :
          /\ part' = [part EXCEPT ![m] = Absent] /\ stamp' = [stamp EXCEPT ![m] = NoStamp]
          /\ obsolete' = obsolete \ {m} /\ unlisted' = unlisted \ {m} /\ raced' = raced \ {m}
    BY <1>31 DEF Remove
  <2>2. UNCHANGED <<published, want, pc, managed, job, left, bundle, failed, changed, count>>
    BY <1>31 DEF Remove
  <2>3. stamp' \in Hashes  BY <1>1, <1>6, <2>1 DEF Hashes
  <2>4. CountOK' /\ failed' \in BOOLEAN  BY <1>1, <2>2, Zenon DEF CountOK
  <2> QED  BY <1>1, <2>1, <2>2, <2>3, <2>4
<1>32. CASE ListOpens \/ ListWritten \/ Finish \/ Options
  <2>1. /\ UNCHANGED <<published, want, part, stamp, job, left, bundle, obsolete, failed, changed, raced>>
        /\ pc' \in {pc, "list", "defaults", "options", "personal"}
        /\ managed' \in {managed, Torn, DOMAIN File(want)}
        /\ unlisted' \in {unlisted, unlisted \ DOMAIN File(want)}
        /\ (Counts("fault") \/ UNCHANGED count)
    BY <1>32 DEF ListOpens, ListWritten, Finish, Options
  <2>2. CountOK' /\ failed' \in BOOLEAN /\ pc' \in Pcs
    BY <1>1, <1>7, <1>8, <2>1, Zenon DEF CountOK, Pcs
  <2> QED  BY <1>1, <1>3, <2>1, <2>2
<1>33. CASE Personal
  <2>1. /\ UNCHANGED <<published, want, part, managed, job, left, bundle, obsolete, failed, changed, count>>
        /\ pc' \in {pc, "done"} /\ raced' \subseteq raced
        /\ unlisted' \subseteq unlisted \cup Entering
        /\ stamp' = [m \in Mod |-> IF mods'[m] = mods[m] THEN stamp[m] ELSE [stamp[m] EXCEPT !.fresh = FALSE]]
    BY <1>33 DEF Personal
  <2>2. Entering \subseteq Mod
    <3>1. user.in \subseteq Jar  BY DEF TypeOK, PersonalTypeOK
    <3> QED  BY <3>1, PersonalAssumption DEF Entering
  <2>3. stamp' \in Hashes  BY <1>1, <2>1 DEF Hashes
  <2>4. CountOK' /\ failed' \in BOOLEAN /\ pc' \in Pcs  BY <1>1, <2>1, Zenon DEF CountOK, Pcs
  <2> QED  BY <1>1, <2>1, <2>2, <2>3, <2>4
<1>34. CASE Defaults \/ Capture \/ CaptureFails \/ Publish \/ UNCHANGED vars
  <2>1. /\ UNCHANGED <<want, pc, part, stamp, managed, job, left, bundle, obsolete, failed, changed, unlisted, raced>>
        /\ published' \in Version
        /\ \/ UNCHANGED count
           \/ Counts("fault")
           \/ Counts("publish")
    BY <1>1, <1>34 DEF Defaults, Capture, CaptureFails, Publish, Versions, syncVars, vars
  <2>2. CountOK' /\ failed' \in BOOLEAN  BY <1>1, <1>7, <1>8, <2>1, Zenon DEF CountOK
  <2> QED  BY <1>1, <2>1, <2>2
<1>35. CASE Change
  <2>1. UNCHANGED <<published, want, pc, part, managed, job, left, bundle, obsolete, failed>> /\ Counts("change")
    BY <1>35 DEF Change
  <2>2. \/ UNCHANGED <<stamp, changed, unlisted, raced>>
        \/ \E m \in Names : /\ stamp' = [stamp EXCEPT ![m].fresh = FALSE] /\ changed' = changed \cup {m}
                            /\ unlisted' = unlisted \ {m} /\ raced' \in {raced \cup {m}, raced \ {m}}
    BY <1>35 DEF Change
  <2>3. stamp' \in Hashes /\ changed' \subseteq Mod /\ unlisted' \subseteq Mod /\ raced' \subseteq Mod
    BY <1>1, <1>9, <1>12, <2>2
  <2>4. CountOK' /\ failed' \in BOOLEAN  BY <1>1, <1>7, <1>8, <2>1, Zenon DEF CountOK
  <2> QED  BY <1>1, <2>1, <2>3, <2>4
<1> QED
  BY <1>21, <1>22, <1>24, <1>25, <1>26, <1>27, <1>28, <1>29, <1>30, <1>31, <1>32, <1>33, <1>34, <1>35
  DEF Next, Launcher

LEMMA PersonalTypes == TypeOK /\ RunInv /\ [Next]_vars => PersonalTypeOK'
<1> SUFFICES ASSUME TypeOK, RunInv, [Next]_vars PROVE PersonalTypeOK'
  OBVIOUS
<1> DEFINE Content == Pinned \cup Jar \cup {Own, Absent}
           Users == [pc : {"none", "out", "in", "list"}, out : SUBSET Mod, without : BOOLEAN,
                     in : SUBSET Jar, left : SUBSET Jar]
<1>1. /\ mods \in [Mod -> Content] /\ folder \subseteq Jar /\ copied \subseteq Mod
      /\ displaced \subseteq Mod /\ user \in Users
  BY Zenon DEF TypeOK, PersonalTypeOK
<1>2. NoUser \in Users  BY NoUserTyped, Zenon
<1>3. DOMAIN File(want) \subseteq Mod /\ \A m \in DOMAIN File(want) : File(want)[m] \in Content
  BY PinnedFile DEF TypeOK, SyncTypeOK
<1>4. \A m \in Mod : job[m] # "none" => m \in DOMAIN File(want)  BY DEF RunInv
<1>5. \A m \in Mod, x \in Content : [mods EXCEPT ![m] = x] \in [Mod -> Content]  BY <1>1
<1>6. Absent \in Content /\ Own \in Content /\ Jar \subseteq Content /\ \A m \in Mod : part[m] \in Content
  BY DEF TypeOK, SyncTypeOK
<1>7. JarName \in [Jar -> Mod]  BY PersonalAssumption
<1>8. Entering \subseteq Mod
  <2>1. user.in \subseteq Jar  BY <1>1
  <2> QED  BY <2>1, <1>7 DEF Entering
<1>9. Names \subseteq Mod /\ Fitting \subseteq Jar  BY NamesMod
<1>10. /\ \A S \in SUBSET Mod, b \in BOOLEAN : [NoUser EXCEPT !.pc = "out", !.out = S, !.without = b] \in Users
       /\ \A m \in Mod : [user EXCEPT !.out = @ \ {m}] \in Users
       /\ \A S \in SUBSET Jar : [user EXCEPT !.pc = "in", !.in = S, !.left = S] \in Users
       /\ \A j \in Jar : [user EXCEPT !.left = @ \ {j}] \in Users
       /\ [user EXCEPT !.pc = "list"] \in Users
  BY <1>1, <1>2
<1> HIDE DEF Content, Users
<1>20. SUFFICES /\ mods' \in [Mod -> Content] /\ folder' \subseteq Jar /\ copied' \subseteq Mod
                /\ displaced' \subseteq Mod /\ user' \in Users
  BY Zenon DEF PersonalTypeOK, Content, Users
<1>21. CASE Download
  BY <1>1, <1>3, <1>4, <1>5, <1>6, <1>21
  DEF Download, Arrives, Mixed, Breaks, Land, LandFails, Remember, RememberFails, Fetching, othersVars, personalVars
<1>22. CASE BundleLands
  BY <1>1, <1>3, <1>4, <1>5, <1>22 DEF BundleLands, othersVars, personalVars
<1>23. CASE Remove
  <2>1. obsolete \subseteq Mod  BY DEF TypeOK, SyncTypeOK
  <2> QED  BY <1>1, <1>5, <1>6, <1>23, <2>1 DEF Remove, othersVars, personalVars
<1>24. CASE Personal
  <2>1. CASE Collect
    <3>1. \A b \in {FALSE, copied # {}} : b \in BOOLEAN  OBVIOUS
    <3>2. copied \in SUBSET Mod  BY <1>1
    <3>3. PICK b \in {FALSE, copied # {}} :
            user' = [NoUser EXCEPT !.pc = "out", !.out = copied, !.without = b]
      BY <2>1, Zenon DEF Collect
    <3>4. user' \in Users  BY <1>10, <3>1, <3>2, <3>3, Zenon
    <3> QED  BY <1>1, <2>1, <3>4 DEF Collect
  <2>2. CASE TakeOut(want)
    <3>1. user.out \subseteq Mod  BY <1>1 DEF Users
    <3>2. PICK m \in Mod : /\ mods' = [mods EXCEPT ![m] = Absent]
                           /\ user' = [user EXCEPT !.out = @ \ {m}]
                           /\ displaced' = displaced \cup ({m} \cap DOMAIN File(want))
      BY <2>2, <3>1 DEF TakeOut
    <3>3. mods' \in [Mod -> Content] /\ user' \in Users  BY <1>5, <1>6, <1>10, <3>2
    <3>4. displaced' \subseteq Mod  BY <1>1, <3>2
    <3> QED  BY <1>1, <2>2, <3>3, <3>4 DEF TakeOut
  <2>3. CASE Admit(want)
    <3>1. \E S \in SUBSET Jar : user' = [user EXCEPT !.pc = "in", !.in = S, !.left = S]
      BY <1>1, <2>3 DEF Admit, Admitted, Candidates
    <3>2. user' \in Users  BY <1>10, <3>1
    <3> QED  BY <1>1, <2>3, <3>2 DEF Admit
  <2>4. CASE CopyIn
    <3>1. PICK j \in Jar : mods' = [mods EXCEPT ![JarName[j]] = j] /\ user' = [user EXCEPT !.left = @ \ {j}]
      BY <1>1, <2>4 DEF CopyIn
    <3>2. JarName[j] \in Mod /\ j \in Content  BY <1>6, <1>7
    <3> QED  BY <1>1, <1>5, <1>10, <2>4, <3>1, <3>2 DEF CopyIn
  <2>5. CASE CopiedOpens  BY <1>1, <1>10, <2>5 DEF CopiedOpens
  <2>6. CASE CopiedWritten  BY <1>1, <1>2, <1>8, <2>6 DEF CopiedWritten
  <2> QED  BY <1>24, <2>1, <2>2, <2>3, <2>4, <2>5, <2>6 DEF Personal
<1>25. CASE Change
  BY <1>1, <1>5, <1>6, <1>9, <1>25
  DEF Change, FolderChanges, PlayedElsewhere, othersVars, personalVars
<1>26. CASE JarGone \/ CopyFails  BY <1>1, <1>2, <1>26 DEF JarGone, CopyFails, PersonalFails
<1>27. CASE Crash  BY <1>1, <1>2, <1>27 DEF Crash
<1>28. CASE \/ Start \/ Check \/ CheckFails \/ BundleCommits \/ BundleSettles \/ Rest \/ Fetched \/ FetchFails \/ ListOpens
            \/ ListWritten \/ Defaults \/ Finish \/ Options \/ Played \/ Capture \/ CaptureFails \/ Publish
            \/ UNCHANGED vars
  <2>1. UNCHANGED <<mods, personalVars>>
    BY <1>28 DEF Start, Check, CheckFails, BundleCommits, BundleSettles, Rest, Fetched, FetchFails, ListOpens,
       ListWritten, Defaults, Finish, Options, Played, Capture, CaptureFails, Publish, othersVars, vars
  <2> QED  BY <1>1, <2>1 DEF personalVars
<1> QED
  BY <1>21, <1>22, <1>23, <1>24, <1>25, <1>26, <1>27, <1>28 DEF Next, Launcher

LEMMA OptionsTypes == TypeOK /\ [Next]_vars => OptionsTypeOK'
<1> SUFFICES ASSUME TypeOK, [Next]_vars PROVE OptionsTypeOK'
  OBVIOUS
<1> DEFINE Texts == Shipped \cup {Own, Absent, Torn}
           Lines == [{"here", "shared"} -> Binding]
           Places == {"here", "shared", "elsewhere"}
           Tasks == {"keys", "share", "stale", "settle"}
<1>1. /\ shared \in Texts /\ elsewhere \in BOOLEAN /\ keys \in Lines /\ settled \in BOOLEAN
      /\ todo \subseteq Tasks /\ seen \in BOOLEAN /\ pending \in BOOLEAN /\ latest \subseteq Places
      /\ young \in BOOLEAN /\ behind \in BOOLEAN /\ moved \in BOOLEAN
  BY Zenon DEF TypeOK, OptionsTypeOK
<1>2. conf[OptionsTxt] \in Texts
  BY DefaultsAssumption DEF TypeOK, DefaultsTypeOK
<1>3. \A f \in {"here", "shared"}, k \in Binding : [keys EXCEPT ![f] = k] \in Lines  BY <1>1
<1>4. keys["here"] \in Binding /\ keys["shared"] \in Binding /\ "none" \in Binding /\ "pack" \in Binding
  BY <1>1 DEF Binding
<1>5. \A v : Bindings(v) \subseteq Binding  BY DEF Bindings, Binding
<1>6. \A v : Choices(v) \subseteq Binding  BY <1>4 DEF Choices, Binding
<1>7. Own \in Texts /\ Torn \in Texts /\ Absent \in Texts  OBVIOUS
<1> HIDE DEF Texts, Lines, Places, Tasks
<1>8. SUFFICES
      /\ shared' \in Texts /\ elsewhere' \in BOOLEAN /\ keys' \in Lines /\ settled' \in BOOLEAN
      /\ todo' \subseteq Tasks /\ seen' \in BOOLEAN /\ pending' \in BOOLEAN /\ latest' \subseteq Places
      /\ young' \in BOOLEAN /\ behind' \in BOOLEAN /\ moved' \in BOOLEAN
  BY Zenon DEF OptionsTypeOK, Texts, Lines, Places, Tasks
<1>9. ASSUME Captured \/ UNCHANGED <<shared, keys, latest, young, behind>>
      PROVE  shared' \in Texts /\ keys' \in Lines /\ latest' \subseteq Places /\ young' \in BOOLEAN
             /\ behind' \in BOOLEAN
  <2>1. young' \in BOOLEAN /\ behind' \in BOOLEAN  BY <1>1, <1>9, Zenon DEF Captured
  <2>2. shared' \in Texts /\ keys' \in Lines  BY <1>1, <1>2, <1>3, <1>4, <1>9 DEF Captured
  <2>3. latest' \subseteq Places  BY <1>1, <1>9 DEF Captured, Places
  <2> QED  BY <2>1, <2>2, <2>3
<1>10. CASE Options
  <2>1. CASE Seed(want)
    <3>1. keys' \in Lines  BY <1>3, <1>4, <1>5, <2>1 DEF Seed
    <3>2. latest' \subseteq Places  BY <1>1, <2>1 DEF Seed, Places
    <3> QED  BY <1>1, <1>7, <2>1, <3>1, <3>2, Zenon DEF Seed, keyVars
  <2>2. CASE Restore(want)
    <3>1. keys' \in Lines  BY <1>1, <1>3, <1>4, <2>2 DEF Restore
    <3>2. latest' \subseteq Places /\ todo' \subseteq Tasks  BY <1>1, <2>2 DEF Restore, KeysNext, Places, Tasks
    <3>3. behind' \in BOOLEAN /\ young' \in BOOLEAN  BY <1>1, <2>2, Zenon DEF Restore
    <3> QED  BY <1>1, <2>2, <3>1, <3>2, <3>3, Zenon DEF Restore
  <2>3. CASE SeedFails(want)
    <3>1. todo' \subseteq Tasks  BY <2>3 DEF SeedFails, KeysNext, Tasks
    <3>2. behind' \in BOOLEAN  BY <1>1, <2>3, Zenon DEF SeedFails
    <3> QED  BY <1>1, <2>3, <3>1, <3>2, Zenon DEF SeedFails
  <2>4. CASE KeysHere(want)
    <3>1. PICK k \in Choices(want) :
            /\ KeyLine(k)
            /\ todo' = (IF k = keys["here"] THEN {} ELSE {"share"}) \cup (IF Settles(want, k) THEN {"settle"} ELSE {})
            /\ moved' = (moved \/ Settles(want, k))
      BY <2>4 DEF KeysHere
    <3>2. keys' \in Lines /\ todo' \subseteq Tasks  BY <1>3, <1>6, <3>1 DEF KeyLine, Tasks
    <3>3. moved' \in BOOLEAN  BY <1>1, <3>1, Zenon DEF Settles
    <3> QED  BY <1>1, <2>4, <3>2, <3>3, Zenon DEF KeysHere
  <2>5. CASE KeysShared
    <3>1. UNCHANGED <<elsewhere, settled, seen, pending, moved>> /\ todo' \subseteq Tasks
      BY <1>1, <2>5 DEF KeysShared
    <3>2. CASE Captured \/ UNCHANGED <<shared, keys, latest, young, behind>>
      BY <1>1, <1>9, <3>1, <3>2, Zenon
    <3>3. CASE /\ shared' = (IF Usable THEN shared ELSE Own) /\ keys' = [keys EXCEPT !["shared"] = "pack"]
               /\ latest' = latest \ {"shared"} /\ behind' = TRUE /\ UNCHANGED young
      <4>1. shared' \in Texts /\ keys' \in Lines /\ latest' \subseteq Places
        BY <1>1, <1>3, <1>4, <1>7, <3>3
      <4> QED  BY <1>1, <3>1, <3>3, <4>1, Zenon
    <3> QED  BY <2>5, <3>2, <3>3 DEF KeysShared
  <2>6. CASE NoKeys \/ KeysSettled \/ KeysFail
    <3>1. settled' \in BOOLEAN /\ moved' \in BOOLEAN  BY <1>1, <2>6, Zenon DEF NoKeys, KeysSettled, KeysFail
    <3>2. todo' \subseteq Tasks  BY <2>6 DEF NoKeys, KeysSettled, KeysFail
    <3> QED  BY <1>1, <2>6, <3>1, <3>2, Zenon DEF NoKeys, KeysSettled, KeysFail
  <2> QED  BY <1>10, <2>1, <2>2, <2>3, <2>4, <2>5, <2>6 DEF Options
<1>11. CASE Personal
  <2>1. Watch \/ UNCHANGED optionsVars  BY <1>11 DEF Personal
  <2>2. seen' \in BOOLEAN  BY <1>1, <2>1, Zenon DEF Watch, optionsVars
  <2> QED  BY <1>1, <2>1, <2>2, Zenon DEF Watch, optionsVars, keyVars
<1>12. CASE Played
  <2>1. seen' \in BOOLEAN /\ pending' \in BOOLEAN  BY <1>12, Zenon DEF Played, Ended
  <2> QED  BY <1>1, <1>12, <2>1, Zenon DEF Played, Ended, keyVars
<1>13. CASE Capture
  <2>1. CASE Tick
    <3>1. UNCHANGED <<elsewhere, pending, keyVars>>  BY <2>1 DEF Tick
    <3>2. CASE Fresh
      <4>1. Captured /\ seen' = TRUE  BY <2>1, <3>2 DEF Tick
      <4> QED  BY <1>1, <1>9, <3>1, <4>1, Zenon DEF keyVars
    <3>3. CASE ~Fresh
      <4>1. young' = FALSE /\ UNCHANGED <<shared, keys, seen, latest, behind>>  BY <2>1, <3>3 DEF Tick
      <4> QED  BY <1>1, <3>1, <4>1, Zenon DEF keyVars
    <3> QED  BY <3>2, <3>3
  <2>2. CASE LastCapture
    <3>1. Captured /\ pending' = FALSE /\ UNCHANGED <<elsewhere, seen, keyVars>>  BY <2>2 DEF LastCapture
    <3> QED  BY <1>1, <1>9, <3>1, Zenon DEF keyVars
  <2> QED  BY <1>13, <2>1, <2>2 DEF Capture
<1>14. CASE CaptureFails
  <2>1. Broken  BY <1>14 DEF CaptureFails, TickBreaks, LastBreaks
  <2>2. pending' \in BOOLEAN /\ behind' \in BOOLEAN /\ young' \in BOOLEAN
    BY <1>1, <1>14, Zenon DEF CaptureFails, TickBreaks, LastBreaks
  <2>3. shared' \in Texts /\ keys' \in Lines /\ latest' \subseteq Places
    BY <1>1, <1>3, <1>4, <1>7, <2>1 DEF Broken
  <2> QED  BY <1>1, <2>1, <2>2, <2>3, Zenon DEF Broken, keyVars
<1>15. CASE Crash
  <2>1. PICK cut \in {{}} \cup {{s} : s \in Halved \cup Restoring} :
          OptionsCrash(OptionsTxt \in cut, cut \subseteq Restoring)
    BY <1>15 DEF Crash
  <2>2. /\ pending' = FALSE /\ seen' = FALSE /\ young' = FALSE /\ todo' = {}
        /\ UNCHANGED <<shared, elsewhere, settled>>
        /\ behind' = (behind \/ young) /\ moved' = (moved /\ "settle" \notin todo)
    BY <2>1 DEF OptionsCrash
  <2>3. keys' \in Lines /\ latest' \subseteq Places  BY <1>1, <1>3, <1>4, <2>1 DEF OptionsCrash
  <2>4. behind' \in BOOLEAN /\ moved' \in BOOLEAN  BY <1>1, <2>2, Zenon
  <2>5. todo' \subseteq Tasks  BY <2>2
  <2> QED  BY <1>1, <2>2, <2>3, <2>4, <2>5, Zenon
<1>16. CASE Change
  <2>1. UNCHANGED optionsVars \/ Chosen(published, pc = "done") \/ Deleted \/ PlayedElsewhere(published)
    BY <1>16 DEF Change, othersVars
  <2>2. CASE UNCHANGED optionsVars  BY <1>1, <2>2, Zenon DEF optionsVars, keyVars
  <2>3. ASSUME Overtaken PROVE todo' \subseteq Tasks  BY <1>1, <2>3 DEF Overtaken, Tasks
  <2>4. CASE Chosen(published, pc = "done")
    <3>1. keys' \in Lines  BY <1>3, <1>4, <1>5, <2>4 DEF Chosen
    <3>2. latest' \subseteq Places  BY <2>4 DEF Chosen, Places
    <3>3. young' \in BOOLEAN /\ behind' \in BOOLEAN /\ seen' \in BOOLEAN  BY <2>4, Zenon DEF Chosen
    <3> QED  BY <1>1, <2>3, <2>4, <3>1, <3>2, <3>3, Zenon DEF Chosen
  <2>5. CASE Deleted
    <3>1. keys' \in Lines /\ latest' \subseteq Places  BY <1>1, <1>3, <1>4, <2>5 DEF Deleted
    <3>2. young' \in BOOLEAN /\ behind' \in BOOLEAN  BY <1>1, <2>5, Zenon DEF Deleted
    <3> QED  BY <1>1, <2>3, <2>5, <3>1, <3>2, Zenon DEF Deleted
  <2>6. CASE PlayedElsewhere(published)
    <3>1. shared' \in Texts /\ keys' \in Lines
      BY <1>1, <1>3, <1>4, <1>5, <1>7, <2>6 DEF PlayedElsewhere
    <3>2. latest' \subseteq Places  BY <2>6 DEF PlayedElsewhere, Places
    <3>3. elsewhere' \in BOOLEAN /\ young' \in BOOLEAN /\ behind' \in BOOLEAN
      <4>1. Usable \in BOOLEAN  BY DEF Usable
      <4> QED  BY <2>6, <4>1, Zenon DEF PlayedElsewhere
    <3>4. UNCHANGED <<settled, todo, moved, seen, pending>>  BY <2>6 DEF PlayedElsewhere, keyVars
    <3> QED  BY <1>1, <3>1, <3>2, <3>3, <3>4, Zenon
  <2> QED  BY <2>1, <2>2, <2>4, <2>5, <2>6
<1>17. CASE UNCHANGED optionsVars
  BY <1>1, <1>17, Zenon DEF optionsVars, keyVars
<1> QED
  BY <1>10, <1>11, <1>12, <1>13, <1>14, <1>15, <1>16, <1>17
  DEF Next, Launcher, Start, Check, Download, BundleLands, BundleCommits, BundleSettles, Rest, Fetched, FetchFails,
      Remove, ListOpens, ListWritten, Defaults, Finish, JarGone, CheckFails, CopyFails, PersonalFails,
      Publish, othersVars, vars

-----------------------------------------------------------------------------
\* The defaults: what each step of a run is to them.
Moves ==
  \/ pc' = pc
  \/ pc = "check" /\ pc' = "fetch"
  \/ pc = "fetch" /\ pc' = "obsolete"
  \/ pc = "obsolete" /\ pc' = "list"
  \/ pc = "list" /\ pc' = "defaults"
  \/ pc = "defaults" /\ pass.pc = "none" /\ pc' = "options"
  \/ pc \in {"personal", "done"} /\ pc' \in {"done", "idle"}

Quiet == Moves /\ UNCHANGED <<want, conf, record, archive, pass, touched, adrift>>

Halts ==
  /\ pc \in {"check", "fetch"} /\ pc' = "idle" /\ pass' = NoPass
  /\ UNCHANGED <<want, conf, record, archive, touched, adrift>>

Restored ==
  /\ pc = "options" /\ pc' \in {"options", "personal"}
  /\ UNCHANGED <<want, record, archive, pass, touched, adrift>>
  /\ \/ conf' = conf
     \/ Usable /\ conf' = [conf EXCEPT ![OptionsTxt] = shared]
     \/ conf[OptionsTxt] = Torn /\ conf' = [conf EXCEPT ![OptionsTxt] = Own]

Edited ==
  /\ UNCHANGED <<pc, want>>
  /\ \E s \in Setting, c \in {Own, Absent} : SettingChanges(s, c)

Applied == pc = "defaults" /\ DefaultsStep(want, Keyed) /\ UNCHANGED <<pc, want>>

\* A kill: it may cut short the setting that was being written.
LEMMA CrashStep ==
  ASSUME TypeOK, Crash
  PROVE  /\ pc' = "idle" /\ pass' = NoPass /\ UNCHANGED <<want, record, archive, touched>>
         /\ \E cut \in SUBSET Setting :
              /\ conf' = [s \in Setting |-> IF s \in cut THEN Torn ELSE conf[s]]
              /\ adrift' = adrift \cup cut \cup
                             (IF pass.pc = "record" THEN {s \in Setting : conf[s] \in Shipped} ELSE {})
              /\ OptionsCrash(OptionsTxt \in cut, cut \subseteq Restoring)
              /\ \A s \in cut : Follows(s) \/ (s = OptionsTxt /\ Usable)
              /\ cut \subseteq Restoring \/ \A s \in cut : Follows(s)
<1>1. pc' = "idle" /\ pass' = NoPass /\ UNCHANGED <<want, record, archive, touched>>
  BY DEF Crash, Abandon
<1>2. PICK cut \in {{}} \cup {{s} : s \in Halved \cup Restoring} :
        /\ conf' = [s \in Setting |-> IF s \in cut THEN Torn ELSE conf[s]]
        /\ OptionsCrash(OptionsTxt \in cut, cut \subseteq Restoring)
        /\ adrift' = adrift \cup cut \cup
                       (IF pass.pc = "record" THEN {s \in Setting : conf[s] \in Shipped} ELSE {})
  BY DEF Crash
<1>3. pass.entries \subseteq Setting  BY DEF TypeOK, DefaultsTypeOK
<1>4. /\ Halved \subseteq Setting /\ \A s \in Halved : Follows(s)
      /\ Restoring \subseteq {OptionsTxt} /\ (Restoring # {} => Usable)
  BY <1>3 DEF Halved, Restoring
<1>5. cut \in SUBSET Setting  BY <1>2, <1>4, DefaultsAssumption
<1>6. /\ \A s \in cut : Follows(s) \/ (s = OptionsTxt /\ Usable)
      /\ cut \subseteq Restoring \/ \A s \in cut : Follows(s)
  BY <1>2, <1>4
<1> QED  BY <1>1, <1>2, <1>5, <1>6

LEMMA PathsSetting ==
  ASSUME TypeOK
  PROVE  Paths \subseteq Setting
<1>1. published \in Version  BY DEF TypeOK, SyncTypeOK
<1> QED  BY <1>1, DefaultsAssumption DEF Paths, Versions

LEMMA DefaultsSteps ==
  TypeOK /\ RunInv /\ [Next]_vars => Quiet \/ Start \/ Halts \/ Crash \/ Applied \/ Restored \/ Edited
<1> SUFFICES ASSUME TypeOK, RunInv, [Next]_vars PROVE Quiet \/ Start \/ Halts \/ Crash \/ Applied \/ Restored \/ Edited
  OBVIOUS
<1>1. CASE Check \/ Download \/ BundleLands \/ BundleCommits \/ BundleSettles \/ Rest \/ Fetched
  BY <1>1 DEF Quiet, Moves, Check, Download, BundleLands, BundleCommits, BundleSettles, Rest, Fetched, Settled, othersVars, defaultsVars
<1>2. CASE FetchFails \/ CheckFails
  BY <1>2 DEF Halts, FetchFails, CheckFails, Abandon, Settled
<1>3. CASE Remove \/ ListOpens \/ ListWritten \/ Finish
  BY <1>3 DEF Quiet, Moves, Remove, ListOpens, ListWritten, Finish, othersVars, defaultsVars
<1>4. CASE Defaults
  BY <1>4 DEF Applied, Defaults, syncVars
<1>5. CASE Options
  <2>1. /\ pc = "options" /\ pc' \in {"options", "personal"}
        /\ UNCHANGED <<want, record, archive, pass, touched, adrift>>
    BY <1>5 DEF Options
  <2>2. \/ conf' = conf
        \/ Usable /\ conf' = [conf EXCEPT ![OptionsTxt] = shared]
        \/ conf[OptionsTxt] = Torn /\ conf' = [conf EXCEPT ![OptionsTxt] = Own]
    BY <1>5, Zenon
    DEF Options, Seed, Restore, KeysHere, KeyLine, NoKeys, KeysShared, KeysSettled, SeedFails, KeysFail
  <2> QED  BY <2>1, <2>2 DEF Restored
<1>6. CASE Personal
  BY <1>6 DEF Quiet, Moves, Personal, defaultsVars
<1>7. CASE JarGone \/ CopyFails
  <2>1. pc = "personal"  BY <1>7 DEF JarGone, CopyFails, PersonalFails, RunInv
  <2> QED  BY <1>7, <2>1 DEF Quiet, Moves, JarGone, CopyFails, PersonalFails, Abandon, defaultsVars
<1>8. CASE Played
  BY <1>8 DEF Quiet, Moves, Played, Abandon, defaultsVars
<1>9. CASE Capture \/ CaptureFails \/ Publish \/ UNCHANGED vars
  BY <1>9 DEF Quiet, Moves, Capture, CaptureFails, Publish, syncVars, othersVars, defaultsVars, vars
<1>10. CASE Change
  <2>1. UNCHANGED <<pc, want>>  BY <1>10 DEF Change
  <2>2. UNCHANGED defaultsVars \/ \E s \in Setting, c \in {Own, Absent} : SettingChanges(s, c)
    BY <1>10, PathsSetting DEF Change, othersVars
  <2> QED  BY <2>1, <2>2 DEF Quiet, Moves, Edited, defaultsVars
<1> QED
  BY <1>1, <1>2, <1>3, <1>4, <1>5, <1>6, <1>7, <1>8, <1>9, <1>10 DEF Next, Launcher

LEMMA DefaultsTypes == TypeOK /\ RunInv /\ PassInv /\ [Next]_vars => DefaultsTypeOK'
<1> SUFFICES ASSUME TypeOK, RunInv, PassInv, [Next]_vars PROVE DefaultsTypeOK'
  OBVIOUS
<1>1. /\ conf \in [Setting -> Shipped \cup {Own, Absent, Torn}] /\ record \in Records \cup {Torn}
      /\ archive \in Version \cup {NoArchive} /\ pass \in PassType
      /\ touched \subseteq Setting /\ adrift \subseteq Setting
      /\ published \in Version /\ want \in Version /\ shared \in Shipped \cup {Own, Absent, Torn}
  BY Zenon DEF TypeOK, SyncTypeOK, DefaultsTypeOK, OptionsTypeOK, PassType
<1>2. NoPass \in PassType  BY NoPassTyped DEF PassType
<1>3. \A s \in Setting, c \in Shipped \cup {Own, Absent, Torn} : [conf EXCEPT ![s] = c] \in [Setting -> Shipped \cup {Own, Absent, Torn}]
  BY <1>1
<1>4. CASE Quiet
  BY <1>1, <1>4, Zenon DEF Quiet, DefaultsTypeOK, PassType
<1>5. CASE Start
  BY <1>1, <1>5, PlanTypes DEF Start, TypeOK
<1>6. CASE Halts
  BY <1>1, <1>2, <1>6, Zenon DEF Halts, DefaultsTypeOK, PassType
<1>7. CASE Crash
  <2>1. pass' = NoPass /\ UNCHANGED <<record, archive, touched>>  BY <1>7, CrashStep
  <2>2. PICK cut \in SUBSET Setting :
          /\ conf' = [s \in Setting |-> IF s \in cut THEN Torn ELSE conf[s]]
          /\ adrift' = adrift \cup cut \cup
                         (IF pass.pc = "record" THEN {s \in Setting : conf[s] \in Shipped} ELSE {})
    BY <1>7, CrashStep
  <2>3. conf' \in [Setting -> Shipped \cup {Own, Absent, Torn}] /\ adrift' \subseteq Setting
    BY <1>1, <2>2
  <2> QED  BY <1>1, <1>2, <2>1, <2>3, Zenon DEF DefaultsTypeOK, PassType
<1>8. CASE Applied
  BY <1>1, <1>8, DefaultsStepTypes DEF Applied, PassInv, TypeOK
<1>9. CASE Restored
  <2>1. conf' \in [Setting -> Shipped \cup {Own, Absent, Torn}]
    BY <1>1, <1>3, <1>9, DefaultsAssumption DEF Restored, Usable
  <2> QED  BY <1>1, <1>9, <2>1, Zenon DEF Restored, DefaultsTypeOK, PassType
<1>10. CASE Edited
  <2>1. PICK s \in Setting, c \in {Own, Absent} : SettingChanges(s, c)  BY <1>10 DEF Edited
  <2>2. conf' \in [Setting -> Shipped \cup {Own, Absent, Torn}] /\ touched' \subseteq Setting /\ adrift' \subseteq Setting
    BY <1>1, <1>3, <2>1 DEF SettingChanges
  <2> QED  BY <1>1, <2>1, <2>2, Zenon DEF SettingChanges, DefaultsTypeOK, PassType
<1> QED
  BY <1>4, <1>5, <1>6, <1>7, <1>8, <1>9, <1>10, DefaultsSteps

LEMMA PassInvStep == TypeOK /\ RunInv /\ PassInv /\ [Next]_vars => PassInv'
<1> SUFFICES ASSUME TypeOK, RunInv, PassInv, [Next]_vars PROVE PassInv'
  OBVIOUS
<1>1. /\ archive \in Version \cup {NoArchive} /\ pass \in PassType
      /\ published \in Version /\ want \in Version /\ record \in Records \cup {Torn}
  BY Zenon DEF TypeOK, SyncTypeOK, DefaultsTypeOK, PassType
<1>2. NoPass.pc = "none" /\ NoPass.entries = {}  BY DEF NoPass
<1>3. CASE Quiet
  BY <1>3 DEF Quiet, Moves, PassInv
<1>4. CASE Start
  <2>1. /\ pc' = "check" /\ want' = published
        /\ UNCHANGED <<conf, record, archive, adrift>>
    BY <1>4 DEF Start, Plan
  <2>2. CASE archive = published /\ Missing = {}
    <3>1. pass' = NoPass  BY <1>4, <2>2 DEF Start, Plan
    <3> QED  BY <1>2, <2>1, <2>2, <3>1 DEF PassInv
  <2>3. CASE ~(archive = published /\ Missing = {})
    <3>1. pass' = [NoPass EXCEPT !.pc = "planned", !.repair = archive = published,
                     !.entries = IF archive = published THEN Missing ELSE DOMAIN Default(published)]
      BY <1>4, <2>3 DEF Start, Plan
    <3>2. pass'.pc = "planned" /\ (pass'.repair => archive = published)
          /\ pass'.entries = IF archive = published THEN Missing ELSE DOMAIN Default(published)
      BY <3>1, Zenon DEF NoPass
    <3>3. archive = published => Missing \subseteq DOMAIN Default(published)
      BY DEF Missing
    <3> QED  BY <2>1, <3>2, <3>3 DEF PassInv
  <2> QED  BY <2>2, <2>3
<1>5. CASE Halts \/ Crash
  <2>1. pc' = "idle" /\ pass' = NoPass  BY <1>5 DEF Halts, Crash, Abandon
  <2> QED  BY <1>2, <2>1 DEF PassInv
<1>6. CASE Applied
  <2>1. pc = "defaults" /\ pc' = "defaults" /\ want' = want  BY <1>6 DEF Applied
  <2>2. CASE Open
    <3>1. pass'.pc = "entries" /\ pass'.repair = pass.repair /\ pass'.entries = pass.entries
          /\ archive' = archive /\ pass.pc = "planned"
      BY <1>1, <2>2 DEF Open, PassType
    <3> QED  BY <2>1, <3>1 DEF PassInv
  <2>3. ASSUME NEW s \in Setting, Entry(want, s) PROVE PassInv'
    <3>1. pass'.pc = "entries" /\ pass'.repair = pass.repair /\ pass'.entries = pass.entries \ {s}
          /\ archive' = archive /\ pass.pc = "entries"
      BY <1>1, <2>3 DEF Entry, PassType
    <3> QED  BY <2>1, <3>1 DEF PassInv
  <2>4. CASE Drop(Keyed)
    <3>1. pass'.pc = "record" /\ pass'.repair = pass.repair /\ pass'.entries = {}
          /\ archive' = archive /\ pass.pc = "entries"
      BY <1>1, <2>4 DEF Drop, PassType
    <3> QED  BY <2>1, <3>1 DEF PassInv
  <2>5. CASE Recorded
    <3>1. pass'.pc = "state" /\ pass'.repair = pass.repair /\ pass'.entries = pass.entries
          /\ archive' = archive /\ pass.pc = "record"
      BY <1>1, <2>5 DEF Recorded, PassType
    <3>2. record' # Torn  BY <1>1, <2>5, DefaultsAssumption DEF Recorded, PassType
    <3> QED  BY <2>1, <3>1, <3>2 DEF PassInv
  <2>6. CASE Stated(want)
    BY <1>2, <2>1, <2>6 DEF Stated, PassInv
  <2> QED  BY <1>6, <2>2, <2>3, <2>4, <2>5, <2>6 DEF Applied, DefaultsStep
<1>7. CASE Restored
  BY <1>7 DEF Restored, PassInv
<1>8. CASE Edited
  BY <1>8 DEF Edited, SettingChanges, PassInv
<1> QED
  BY <1>3, <1>4, <1>5, <1>6, <1>7, <1>8, DefaultsSteps

-----------------------------------------------------------------------------
\* The steps of applyOverrides, one setting at a time.
LEMMA EntryStep ==
  ASSUME DefaultsTypeOK, NEW v \in Version, NEW s \in Setting, Entry(v, s), pass.entries \subseteq DOMAIN Default(v)
  PROVE  /\ pass.pc = "entries" /\ pass'.pc = "entries" /\ pass'.repair = pass.repair
         /\ s \in DOMAIN Default(v) /\ pass'.entries = pass.entries \ {s}
         /\ UNCHANGED <<record, archive, touched>>
         /\ \A r \in Setting \ {s} : conf'[r] = conf[r] /\ pass'.next[r] = pass.next[r]
         /\ \A r \in Setting \ {s} : r \in adrift' <=> r \in adrift
         /\ \/ /\ conf'[s] = conf[s] /\ conf[s] # Absent
               /\ pass.repair /\ pass'.next[s] = pass.next[s] /\ (s \in adrift' <=> s \in adrift)
            \/ /\ ~pass.repair \/ conf[s] = Absent
               /\ s \in adrift' /\ pass'.next[s] = Default(v)[s] /\ conf'[s] # Absent
               /\ conf'[s] = conf[s] \/ (Follows(s) /\ conf'[s] = Default(v)[s])
            \/ /\ ~pass.repair /\ conf'[s] = conf[s] /\ conf[s] # Absent
               /\ (s \in adrift' <=> s \in adrift) /\ pass'.next[s] = LastWritten(s)
               /\ ~Follows(s) /\ ~(conf[s] = Default(v)[s] /\ s # OptionsTxt)
<1>1. /\ conf \in [Setting -> Shipped \cup {Own, Absent, Torn}] /\ pass \in PassType
      /\ adrift \subseteq Setting
  BY Zenon DEF DefaultsTypeOK, PassType
<1>2. pass.pc = "entries" /\ s \in pass.entries /\ s \in DOMAIN Default(v)
      /\ UNCHANGED <<record, archive, touched>>
  BY DEF Entry
<1>3. Default(v)[s] # Absent  BY <1>2, ShippedDefault
<1>4. Setting = DOMAIN conf /\ Setting = DOMAIN pass.next  BY <1>1 DEF PassType, Records
<1>5. CASE pass.repair /\ conf[s] # Absent /\ pass' = [pass EXCEPT !.entries = @ \ {s}]
           /\ UNCHANGED <<conf, adrift>>
  <2>1. pass'.pc = "entries" /\ pass'.repair = pass.repair /\ pass'.entries = pass.entries \ {s}
        /\ pass'.next = pass.next
    BY <1>1, <1>2, <1>5 DEF PassType
  <2> QED  BY <1>2, <1>5, <2>1
<1>6. CASE /\ ~pass.repair \/ conf[s] = Absent
           /\ conf' = IF Follows(s) THEN [conf EXCEPT ![s] = Default(v)[s]] ELSE conf
           /\ pass' = [pass EXCEPT !.entries = @ \ {s},
                         !.next[s] = IF Follows(s) \/ (conf[s] = Default(v)[s] /\ s # OptionsTxt)
                                     THEN Default(v)[s] ELSE LastWritten(s)]
           /\ adrift' = IF Follows(s) \/ (conf[s] = Default(v)[s] /\ s # OptionsTxt)
                        THEN adrift \cup {s} ELSE adrift
  <2>1. pass'.pc = "entries" /\ pass'.repair = pass.repair /\ pass'.entries = pass.entries \ {s}
        /\ \A r \in Setting \ {s} : pass'.next[r] = pass.next[r]
    BY <1>1, <1>2, <1>4, <1>6 DEF PassType
  <2>2. pass'.next[s] = IF Follows(s) \/ (conf[s] = Default(v)[s] /\ s # OptionsTxt)
                        THEN Default(v)[s] ELSE LastWritten(s)
    BY <1>1, <1>4, <1>6 DEF PassType
  <2>3. \A r \in Setting \ {s} : conf'[r] = conf[r] /\ (r \in adrift' <=> r \in adrift)
    BY <1>1, <1>6
  <2>4. conf[s] = Absent => Follows(s)  BY DEF Follows
  <2>5. CASE Follows(s)
    <3>1. conf'[s] = Default(v)[s] /\ s \in adrift' /\ pass'.next[s] = Default(v)[s]
      BY <1>4, <1>6, <2>2, <2>5
    <3> QED  BY <1>2, <1>3, <1>6, <2>1, <2>3, <2>5, <3>1
  <2>6. CASE ~Follows(s) /\ conf[s] = Default(v)[s] /\ s # OptionsTxt
    <3>1. conf'[s] = conf[s] /\ s \in adrift' /\ pass'.next[s] = Default(v)[s]
      BY <1>6, <2>2, <2>6
    <3> QED  BY <1>2, <1>3, <1>6, <2>1, <2>3, <2>6, <3>1
  <2>7. CASE ~Follows(s) /\ ~(conf[s] = Default(v)[s] /\ s # OptionsTxt)
    <3>1. conf'[s] = conf[s] /\ (s \in adrift' <=> s \in adrift) /\ pass'.next[s] = LastWritten(s)
      BY <1>6, <2>2, <2>7
    <3>2. ~pass.repair /\ conf[s] # Absent  BY <1>6, <2>4, <2>7
    <3> QED  BY <1>2, <1>6, <2>1, <2>3, <2>7, <3>1, <3>2
  <2> QED  BY <2>5, <2>6, <2>7
<1> QED  BY <1>5, <1>6 DEF Entry

\* What the record says of a setting that is the launcher's.
LEMMA OursFollows ==
  ASSUME DefaultsTypeOK, OursInv, NEW s \in Setting, Ours(s), pass.pc # "record"
  PROVE  Follows(s) /\ LastWritten(s) = conf[s] /\ LastWritten(s) # NoHash
<1>1. Previous[s] = conf[s]  BY DEF OursInv
<1>2. conf[s] \notin {Absent, NoHash}  BY DefaultsAssumption DEF Ours
<1>3. LastWritten(s) = conf[s]  BY <1>1, <1>2 DEF LastWritten
<1> QED  BY <1>2, <1>3 DEF Follows, Ours

LEMMA DropStep ==
  ASSUME DefaultsTypeOK, NEW edited, Drop(edited)
  PROVE  /\ pass.pc = "entries" /\ pass.entries = {} /\ pass'.pc = "record"
         /\ pass'.repair = pass.repair /\ pass'.entries = {} /\ pass'.next = pass.next
         /\ UNCHANGED <<archive, touched>>
         /\ \A s \in Setting :
              \/ /\ s \notin edited
                 /\ ~pass.repair /\ pass.next[s] = Absent /\ LastWritten(s) # NoHash
                 /\ conf[s] = LastWritten(s) /\ conf'[s] = Absent
              \/ /\ conf'[s] = conf[s] /\ (s \in adrift' <=> s \in adrift)
                 /\ s \in edited \/ ~(~pass.repair /\ pass.next[s] = Absent /\ LastWritten(s) # NoHash /\ conf[s] = LastWritten(s))
<1>1. pass \in PassType  BY Zenon DEF DefaultsTypeOK, PassType
<1>2. pass.pc = "entries" /\ pass.entries = {} /\ UNCHANGED <<archive, touched>>
      /\ pass' = [pass EXCEPT !.pc = "record"]
  BY DEF Drop
<1>3. pass'.pc = "record" /\ pass'.repair = pass.repair /\ pass'.entries = {} /\ pass'.next = pass.next
  BY <1>1, <1>2 DEF PassType
<1>4. ASSUME NEW s \in Setting
      PROVE  \/ /\ s \notin edited
                /\ ~pass.repair /\ pass.next[s] = Absent /\ LastWritten(s) # NoHash
                /\ conf[s] = LastWritten(s) /\ conf'[s] = Absent
             \/ /\ conf'[s] = conf[s] /\ (s \in adrift' <=> s \in adrift)
                /\ s \in edited \/ ~(~pass.repair /\ pass.next[s] = Absent /\ LastWritten(s) # NoHash /\ conf[s] = LastWritten(s))
  BY DEF Drop
<1> QED  BY <1>2, <1>3, <1>4

\* Nothing was applied in this step: what is the launcher's stays so.
LEMMA OursKept ==
  ASSUME TypeOK, OursInv, UNCHANGED <<record, archive>>,
         \A s \in Setting : Ours(s)' => Ours(s) /\ conf'[s] = conf[s],
         pass.pc = "record" => pass' = pass \/ \A s \in Setting : ~Ours(s)',
         pass'.pc = "record" => pass.pc = "record"
  PROVE  OursInv'
<1> SUFFICES ASSUME NEW s \in Setting, Ours(s)'
             PROVE  /\ archive' # NoArchive /\ s \in DOMAIN Default(archive') /\ conf'[s] = Default(archive')[s]
                    /\ IF pass'.pc = "record" THEN pass'.next[s] = conf'[s] ELSE Previous'[s] = conf'[s]
  BY DEF OursInv
<1>1. Ours(s) /\ conf'[s] = conf[s]  OBVIOUS
<1>2. /\ archive # NoArchive /\ s \in DOMAIN Default(archive) /\ conf[s] = Default(archive)[s]
      /\ IF pass.pc = "record" THEN pass.next[s] = conf[s] ELSE Previous[s] = conf[s]
  BY <1>1 DEF OursInv
<1>3. Previous' = Previous  BY DEF Previous
<1>4. CASE pass.pc = "record"
  <2>1. pass' = pass  BY <1>4
  <2> QED  BY <1>1, <1>2, <1>3, <2>1
<1>5. CASE pass.pc # "record"
  BY <1>1, <1>2, <1>3, <1>5
<1> QED  BY <1>4, <1>5

LEMMA OursStep == TypeOK /\ RunInv /\ PassInv /\ OursInv /\ EntryInv /\ [Next]_vars => OursInv'
<1> SUFFICES ASSUME TypeOK, RunInv, PassInv, OursInv, EntryInv, [Next]_vars PROVE OursInv'
  OBVIOUS
<1>1. /\ archive \in Version \cup {NoArchive} /\ pass \in PassType /\ want \in Version
      /\ conf \in [Setting -> Shipped \cup {Own, Absent, Torn}] /\ record \in Records \cup {Torn}
      /\ adrift \subseteq Setting /\ DefaultsTypeOK
  BY Zenon DEF TypeOK, SyncTypeOK, DefaultsTypeOK, PassType
<1>2. NoPass.pc = "none"  BY DEF NoPass
<1>3. Own \notin Shipped /\ Absent \notin Shipped  BY DefaultsAssumption
<1>4. CASE Quiet
  BY <1>4, OursKept DEF Quiet, Ours
<1>5. CASE Start
  <2>1. UNCHANGED <<conf, record, archive, adrift>> /\ pass'.pc # "record" /\ pc = "idle"
    BY <1>2, <1>5, Zenon DEF Start, Plan, NoPass
  <2>2. pass.pc = "none"  BY <2>1 DEF PassInv
  <2> QED  BY <2>1, <2>2, OursKept DEF Ours
<1>6. CASE Halts
  <2>1. pass.pc # "record"  BY <1>6 DEF Halts, PassInv
  <2> QED  BY <1>2, <1>6, <2>1, OursKept DEF Halts, Ours
<1>7. CASE Crash
  <2>1. pass' = NoPass /\ UNCHANGED <<record, archive>>  BY <1>7, CrashStep
  <2>2. PICK cut \in SUBSET Setting :
          /\ conf' = [s \in Setting |-> IF s \in cut THEN Torn ELSE conf[s]]
          /\ adrift' = adrift \cup cut \cup
                         (IF pass.pc = "record" THEN {s \in Setting : conf[s] \in Shipped} ELSE {})
    BY <1>7, CrashStep
  <2>3. \A s \in Setting : Ours(s)' => Ours(s) /\ conf'[s] = conf[s]  BY <2>2 DEF Ours
  <2>4. pass.pc = "record" => \A s \in Setting : ~Ours(s)'
    BY <2>2, <2>3 DEF Ours
  <2> QED  BY <1>2, <2>1, <2>3, <2>4, OursKept
<1>8. CASE Applied
  <2>1. pc = "defaults" /\ want' = want  BY <1>8 DEF Applied
  <2>2. CASE Open
    <3>1. pass.pc = "planned" /\ pass'.pc = "entries" /\ UNCHANGED <<conf, record, archive, adrift>>
      BY <1>1, <2>2 DEF Open, PassType
    <3> QED  BY <3>1, OursKept DEF Ours
  <2>3. ASSUME NEW s \in Setting, Entry(want, s) PROVE OursInv'
    <3>1. pass.entries \subseteq DOMAIN Default(want)  BY <2>1 DEF PassInv
    <3>2. /\ pass.pc = "entries" /\ pass'.pc = "entries" /\ pass'.repair = pass.repair
          /\ UNCHANGED <<record, archive, touched>>
          /\ \A r \in Setting \ {s} : conf'[r] = conf[r]
          /\ \A r \in Setting \ {s} : r \in adrift' <=> r \in adrift
          /\ s \in adrift' \/ (conf'[s] = conf[s] /\ (s \in adrift' <=> s \in adrift))
      BY <1>1, <2>3, <3>1, EntryStep
    <3>3. \A r \in Setting : Ours(r)' => Ours(r) /\ conf'[r] = conf[r]
      BY <3>2 DEF Ours
    <3> QED  BY <3>2, <3>3, OursKept
  <2>4. CASE Drop(Keyed)
    <3>1. /\ pass.pc = "entries" /\ pass.entries = {} /\ pass'.pc = "record" /\ pass'.next = pass.next
          /\ archive' = archive
          /\ \A s \in Setting : conf'[s] = Absent \/ (conf'[s] = conf[s] /\ (s \in adrift' <=> s \in adrift))
      BY <1>1, <2>4, DropStep
    <3>2. \A s \in Setting : Ours(s)' => Ours(s) /\ conf'[s] = conf[s]
      BY <1>3, <3>1 DEF Ours
    <3>3. ASSUME NEW s \in Setting, Ours(s)'
          PROVE  /\ archive' # NoArchive /\ s \in DOMAIN Default(archive') /\ conf'[s] = Default(archive')[s]
                 /\ IF pass'.pc = "record" THEN pass'.next[s] = conf'[s] ELSE Previous'[s] = conf'[s]
      <4>1. Ours(s) /\ conf'[s] = conf[s]  BY <3>2, <3>3
      <4>2. /\ archive # NoArchive /\ s \in DOMAIN Default(archive) /\ conf[s] = Default(archive)[s]
        BY <4>1 DEF OursInv
      <4>3. pass.next[s] = conf[s]
        <5>1. CASE pass.repair  BY <3>1, <4>1, <5>1 DEF EntryInv
        <5>2. CASE ~pass.repair
          <6>1. s \notin DOMAIN Default(want) /\ pass.next[s] = Absent
            BY <3>1, <4>1, <5>2 DEF EntryInv
          <6>2. LastWritten(s) = conf[s] /\ LastWritten(s) # NoHash
            BY <1>1, <3>1, <4>1, OursFollows
          <6>3. s \notin Keyed  BY <4>1 DEF Ours, Keyed
          <6>4. conf'[s] = Absent  BY <1>1, <2>4, <5>2, <6>1, <6>2, <6>3, DropStep
          <6> QED  BY <1>3, <4>1, <6>4 DEF Ours
        <5> QED  BY <5>1, <5>2
      <4> QED  BY <3>1, <4>1, <4>2, <4>3
    <3> QED  BY <3>3 DEF OursInv
  <2>5. CASE Recorded
    <3>1. /\ pass.pc = "record" /\ pass'.pc = "state" /\ record' = pass.next /\ pass.next \in Records
          /\ UNCHANGED <<conf, archive, adrift>>
      BY <1>1, <2>5 DEF Recorded, PassType
    <3>2. Previous' = pass.next  BY <3>1, DefaultsAssumption DEF Previous
    <3>3. ASSUME NEW s \in Setting, Ours(s)'
          PROVE  /\ archive' # NoArchive /\ s \in DOMAIN Default(archive') /\ conf'[s] = Default(archive')[s]
                 /\ IF pass'.pc = "record" THEN pass'.next[s] = conf'[s] ELSE Previous'[s] = conf'[s]
      <4>1. Ours(s)  BY <3>1, <3>3 DEF Ours
      <4> QED  BY <3>1, <3>2, <4>1 DEF OursInv
    <3> QED  BY <3>3 DEF OursInv
  <2>6. CASE Stated(want)
    <3>1. /\ pass.pc = "state" /\ archive' = want /\ pass' = NoPass /\ UNCHANGED <<conf, record>>
          /\ adrift' = adrift \ {s \in DOMAIN Default(want) : conf[s] = Default(want)[s] /\ record[s] = conf[s]}
      BY <2>6 DEF Stated
    <3>2. record # Torn  BY <3>1 DEF PassInv
    <3>3. Previous = record /\ Previous' = Previous  BY <3>1, <3>2 DEF Previous
    <3>4. want # NoArchive  BY <1>1, DefaultsAssumption
    <3>5. ASSUME NEW s \in Setting, Ours(s)'
          PROVE  /\ archive' # NoArchive /\ s \in DOMAIN Default(archive') /\ conf'[s] = Default(archive')[s]
                 /\ IF pass'.pc = "record" THEN pass'.next[s] = conf'[s] ELSE Previous'[s] = conf'[s]
      <4>1. CASE Ours(s)
        <5>1. pass.repair  BY <3>1, <4>1 DEF EntryInv
        <5>2. archive = want  BY <3>1, <5>1 DEF PassInv
        <5> QED  BY <1>2, <3>1, <3>3, <3>4, <4>1, <5>2 DEF OursInv
      <4>2. CASE ~Ours(s)
        <5>1. s \in DOMAIN Default(want) /\ conf[s] = Default(want)[s] /\ record[s] = conf[s]
          BY <3>1, <3>5, <4>2 DEF Ours
        <5> QED  BY <1>2, <3>1, <3>3, <3>4, <5>1
      <4> QED  BY <4>1, <4>2
    <3> QED  BY <3>5 DEF OursInv
  <2> QED  BY <1>8, <2>2, <2>3, <2>4, <2>5, <2>6 DEF Applied, DefaultsStep
<1>9. CASE Restored
  <2>1. UNCHANGED <<record, archive, pass, adrift>> /\ \A s \in Setting \ {OptionsTxt} : conf'[s] = conf[s]
    BY <1>1, <1>9 DEF Restored
  <2> QED  BY <2>1, OursKept DEF Ours
<1>10. CASE Edited
  <2>1. PICK s \in Setting, c \in {Own, Absent} : SettingChanges(s, c)  BY <1>10 DEF Edited
  <2>2. /\ UNCHANGED <<record, archive, pass>> /\ conf'[s] = c /\ adrift' = adrift \ {s}
        /\ \A r \in Setting \ {s} : conf'[r] = conf[r]
    BY <1>1, <2>1 DEF SettingChanges
  <2> QED  BY <1>3, <2>2, OursKept DEF Ours
<1> QED
  BY <1>4, <1>5, <1>6, <1>7, <1>8, <1>9, <1>10, DefaultsSteps

\* The first three parts of EntryInv, which are about the pass alone.
PassEntries ==
  /\ pass.pc \in {"planned", "entries"} /\ ~pass.repair => \A s \in Setting :
       /\ Ours(s) /\ s \in DOMAIN Default(want) => s \in pass.entries
       /\ s \notin DOMAIN Default(want) => pass.next[s] = Absent
       /\ s \in DOMAIN Default(want) \ pass.entries => pass.next[s] # Absent
  /\ pass.pc = "entries" /\ pass.repair => \A s \in Setting : Ours(s) => pass.next[s] = conf[s]
  /\ pass.pc \in {"record", "state"} /\ ~pass.repair => \A s \in Setting : ~Ours(s)

\* A default that is gone is going to be written again, unless others took it away.
GoneEntered ==
  pc # "idle" => \A s \in DOMAIN Default(want) \ touched : conf[s] = Absent => s \in pass.entries

LEMMA EntryParts == EntryInv <=> PassEntries /\ GoneEntered
BY DEF EntryInv, PassEntries, GoneEntered

LEMMA PassEntriesKept ==
  ASSUME PassEntries, UNCHANGED <<want, pass>>,
         \A s \in Setting : Ours(s)' => Ours(s) /\ conf'[s] = conf[s]
  PROVE  PassEntries'
BY DEF PassEntries

LEMMA PassEntriesStep == TypeOK /\ RunInv /\ PassInv /\ OursInv /\ EntryInv /\ [Next]_vars => PassEntries'
<1> SUFFICES ASSUME TypeOK, RunInv, PassInv, OursInv, EntryInv, [Next]_vars PROVE PassEntries'
  OBVIOUS
<1>1. /\ archive \in Version \cup {NoArchive} /\ pass \in PassType /\ want \in Version
      /\ conf \in [Setting -> Shipped \cup {Own, Absent, Torn}] /\ record \in Records \cup {Torn}
      /\ adrift \subseteq Setting /\ DefaultsTypeOK
  BY Zenon DEF TypeOK, SyncTypeOK, DefaultsTypeOK, PassType
<1>2. NoPass.pc = "none"  BY DEF NoPass
<1>3. Own \notin Shipped /\ Absent \notin Shipped  BY DefaultsAssumption
<1>4. PassEntries  BY EntryParts
<1>5. ASSUME pass' = NoPass PROVE PassEntries'  BY <1>2, <1>5 DEF PassEntries
<1>6. CASE Quiet
  BY <1>4, <1>6, PassEntriesKept DEF Quiet, Ours
<1>7. CASE Start
  <2>1. /\ want' = published /\ UNCHANGED <<conf, record, archive, adrift>>
    BY <1>7 DEF Start, Plan
  <2>2. CASE archive = published /\ Missing = {}
    <3>1. pass' = NoPass  BY <1>7, <2>2 DEF Start, Plan
    <3> QED  BY <1>5, <3>1
  <2>3. CASE ~(archive = published /\ Missing = {})
    <3>1. pass' = [NoPass EXCEPT !.pc = "planned", !.repair = archive = published,
                     !.entries = IF archive = published THEN Missing ELSE DOMAIN Default(published)]
      BY <1>7, <2>3 DEF Start, Plan
    <3>2. pass'.pc = "planned" /\ (pass'.repair <=> archive = published)
          /\ pass'.entries = (IF archive = published THEN Missing ELSE DOMAIN Default(published))
          /\ pass'.next = [s \in Setting |-> Absent]
      BY <3>1, Zenon DEF NoPass
    <3> QED  BY <2>1, <3>2 DEF PassEntries
  <2> QED  BY <2>2, <2>3
<1>8. CASE Halts \/ Crash
  BY <1>5, <1>8 DEF Halts, Crash
<1>9. CASE Applied
  <2>1. pc = "defaults" /\ want' = want  BY <1>9 DEF Applied
  <2>2. CASE Open
    <3>1. /\ pass.pc = "planned" /\ pass'.pc = "entries" /\ UNCHANGED <<conf, record, archive, adrift>>
          /\ pass'.repair = pass.repair /\ pass'.entries = pass.entries
          /\ pass'.next = IF pass.repair THEN Previous ELSE pass.next
      BY <1>1, <2>2 DEF Open, PassType
    <3>2. \A s \in Setting : Ours(s)' <=> Ours(s)  BY <3>1 DEF Ours
    <3>3. CASE pass.repair
      <4>1. \A s \in Setting : Ours(s) => Previous[s] = conf[s]  BY <3>1 DEF OursInv
      <4> QED  BY <3>1, <3>2, <3>3, <4>1 DEF PassEntries
    <3>4. CASE ~pass.repair
      BY <1>4, <2>1, <3>1, <3>2, <3>4 DEF PassEntries
    <3> QED  BY <3>3, <3>4
  <2>3. ASSUME NEW s \in Setting, Entry(want, s) PROVE PassEntries'
    <3>1. pass.entries \subseteq DOMAIN Default(want)  BY <2>1 DEF PassInv
    <3>2. /\ pass.pc = "entries" /\ pass'.pc = "entries" /\ pass'.repair = pass.repair
          /\ s \in DOMAIN Default(want) /\ pass'.entries = pass.entries \ {s}
          /\ \A r \in Setting \ {s} : conf'[r] = conf[r] /\ pass'.next[r] = pass.next[r]
          /\ \A r \in Setting \ {s} : r \in adrift' <=> r \in adrift
      BY <1>1, <2>3, <3>1, EntryStep
    <3>3. \/ /\ conf'[s] = conf[s] /\ pass.repair /\ pass'.next[s] = pass.next[s]
             /\ (s \in adrift' <=> s \in adrift)
          \/ s \in adrift' /\ pass'.next[s] = Default(want)[s]
          \/ /\ ~pass.repair /\ conf'[s] = conf[s] /\ (s \in adrift' <=> s \in adrift)
             /\ pass'.next[s] = LastWritten(s) /\ ~Follows(s)
      BY <1>1, <2>3, <3>1, EntryStep
    <3>4. \A r \in Setting \ {s} : Ours(r)' <=> Ours(r)  BY <3>2 DEF Ours
    <3>5. Ours(s)' => Ours(s) /\ pass.repair /\ conf'[s] = conf[s] /\ pass'.next[s] = pass.next[s]
      <4>1. Ours(s) => Follows(s)  BY <1>1, <3>2, OursFollows
      <4> QED  BY <3>3, <4>1 DEF Ours
    <3>6. Default(want)[s] # Absent  BY <1>1, <3>2, ShippedDefault
    <3>7. LastWritten(s) # Absent
      BY DefaultsAssumption DEF LastWritten
    <3>8. CASE pass.repair
      BY <1>4, <3>2, <3>4, <3>5, <3>8 DEF PassEntries
    <3>9. CASE ~pass.repair
      <4>1. pass'.next[s] # Absent  BY <3>3, <3>6, <3>7, <3>9
      <4> QED  BY <1>4, <2>1, <3>2, <3>4, <3>5, <3>9, <4>1 DEF PassEntries
    <3> QED  BY <3>8, <3>9
  <2>4. CASE Drop(Keyed)
    <3>1. /\ pass.pc = "entries" /\ pass.entries = {} /\ pass'.pc = "record" /\ pass'.repair = pass.repair
          /\ \A s \in Setting : conf'[s] = Absent \/ (conf'[s] = conf[s] /\ (s \in adrift' <=> s \in adrift))
      BY <1>1, <2>4, DropStep
    <3>2. ASSUME ~pass.repair, NEW s \in Setting, Ours(s)' PROVE FALSE
      <4>1. Ours(s) /\ conf'[s] = conf[s]  BY <1>3, <3>1, <3>2 DEF Ours
      <4>2. s \notin DOMAIN Default(want) /\ pass.next[s] = Absent
        BY <1>4, <3>1, <3>2, <4>1 DEF PassEntries
      <4>3. LastWritten(s) = conf[s] /\ LastWritten(s) # NoHash  BY <1>1, <3>1, <4>1, OursFollows
      <4>4. s \notin Keyed  BY <4>1 DEF Ours, Keyed
      <4>5. conf'[s] = Absent  BY <1>1, <2>4, <3>2, <4>2, <4>3, <4>4, DropStep
      <4> QED  BY <1>3, <4>1, <4>5 DEF Ours
    <3> QED  BY <3>1, <3>2 DEF PassEntries
  <2>5. CASE Recorded
    <3>1. /\ pass.pc = "record" /\ pass'.pc = "state" /\ pass'.repair = pass.repair
          /\ UNCHANGED <<conf, archive, adrift>>
      BY <1>1, <2>5 DEF Recorded, PassType
    <3>2. \A s \in Setting : Ours(s)' <=> Ours(s)  BY <3>1 DEF Ours
    <3> QED  BY <1>4, <3>1, <3>2 DEF PassEntries
  <2>6. CASE Stated(want)
    BY <1>5, <2>6 DEF Stated
  <2> QED  BY <1>9, <2>2, <2>3, <2>4, <2>5, <2>6 DEF Applied, DefaultsStep
<1>10. CASE Restored
  <2>1. UNCHANGED <<want, pass, adrift>> /\ \A s \in Setting \ {OptionsTxt} : conf'[s] = conf[s]
    BY <1>1, <1>10 DEF Restored
  <2> QED  BY <1>4, <2>1, PassEntriesKept DEF Ours
<1>11. CASE Edited
  <2>1. PICK s \in Setting, c \in {Own, Absent} : SettingChanges(s, c)  BY <1>11 DEF Edited
  <2>2. /\ UNCHANGED <<want, pass>> /\ conf'[s] = c /\ adrift' = adrift \ {s}
        /\ \A r \in Setting \ {s} : conf'[r] = conf[r]
    BY <1>1, <1>11, <2>1 DEF SettingChanges, Edited
  <2> QED  BY <1>3, <1>4, <2>2, PassEntriesKept DEF Ours
<1> QED
  BY <1>6, <1>7, <1>8, <1>9, <1>10, <1>11, DefaultsSteps

LEMMA GoneEnteredStep == TypeOK /\ RunInv /\ PassInv /\ EntryInv /\ [Next]_vars => GoneEntered'
<1> SUFFICES ASSUME TypeOK, RunInv, PassInv, EntryInv, [Next]_vars PROVE GoneEntered'
  OBVIOUS
<1>1. /\ archive \in Version \cup {NoArchive} /\ pass \in PassType /\ want \in Version /\ published \in Version
      /\ conf \in [Setting -> Shipped \cup {Own, Absent, Torn}] /\ DefaultsTypeOK
  BY Zenon DEF TypeOK, SyncTypeOK, DefaultsTypeOK, PassType
<1>2. GoneEntered /\ PassEntries  BY EntryParts
<1>3. \A v \in Version : DOMAIN Default(v) \subseteq Setting  BY DefaultsAssumption
<1>4. CASE Quiet
  <2>1. pc' # "idle" => pc # "idle"  BY <1>4 DEF Quiet, Moves
  <2> QED  BY <1>2, <1>4, <2>1 DEF Quiet, GoneEntered
<1>5. CASE Start
  <2>1. want' = published /\ UNCHANGED <<conf, archive>>  BY <1>5 DEF Start, Plan
  <2>2. archive = published => \A s \in DOMAIN Default(published) : conf[s] = Absent => s \in Missing
    <3>1. published # NoArchive  BY <1>1, DefaultsAssumption
    <3> QED  BY <3>1 DEF Missing
  <2>3. CASE archive = published /\ Missing = {}
    BY <2>1, <2>2, <2>3 DEF GoneEntered
  <2>4. CASE ~(archive = published /\ Missing = {})
    <3>1. pass' = [NoPass EXCEPT !.pc = "planned", !.repair = archive = published,
                     !.entries = IF archive = published THEN Missing ELSE DOMAIN Default(published)]
      BY <1>5, <2>4 DEF Start, Plan
    <3>2. pass'.entries = (IF archive = published THEN Missing ELSE DOMAIN Default(published))
      BY <3>1, Zenon DEF NoPass
    <3> QED  BY <2>1, <2>2, <3>2 DEF GoneEntered
  <2> QED  BY <2>3, <2>4
<1>6. CASE Halts \/ Crash
  BY <1>6 DEF Halts, Crash, Abandon, GoneEntered
<1>7. CASE Applied
  <2>1. pc = "defaults" /\ pc' = pc /\ want' = want  BY <1>7 DEF Applied
  <2>2. CASE Open
    <3>1. UNCHANGED <<conf, touched>> /\ pass'.entries = pass.entries
      BY <1>1, <2>2 DEF Open, PassType
    <3> QED  BY <1>2, <2>1, <3>1 DEF GoneEntered
  <2>3. ASSUME NEW s \in Setting, Entry(want, s) PROVE GoneEntered'
    <3>1. pass.entries \subseteq DOMAIN Default(want)  BY <2>1 DEF PassInv
    <3>2. /\ pass'.entries = pass.entries \ {s} /\ touched' = touched
          /\ \A r \in Setting \ {s} : conf'[r] = conf[r]
          /\ conf'[s] # Absent
      BY <1>1, <2>3, <3>1, EntryStep
    <3> QED  BY <1>1, <1>2, <1>3, <2>1, <3>2 DEF GoneEntered
  <2>4. CASE Drop(Keyed)
    <3>1. /\ pass.pc = "entries" /\ pass.entries = {} /\ pass'.entries = {} /\ touched' = touched
          /\ \A s \in Setting : conf'[s] = conf[s] \/ (~pass.repair /\ pass.next[s] = Absent)
      BY <1>1, <2>4, DropStep
    <3>2. \A s \in DOMAIN Default(want) : conf'[s] = conf[s]
      BY <1>1, <1>2, <1>3, <3>1 DEF PassEntries
    <3> QED  BY <1>2, <2>1, <3>1, <3>2 DEF GoneEntered
  <2>5. CASE Recorded \/ Stated(want)
    <3>1. pass.entries = {}  BY <2>5 DEF Recorded, Stated, PassInv
    <3> QED  BY <1>2, <2>1, <2>5, <3>1 DEF Recorded, Stated, GoneEntered
  <2> QED  BY <1>7, <2>2, <2>3, <2>4, <2>5 DEF Applied, DefaultsStep
<1>8. CASE Restored
  <2>1. \A s \in Setting : conf'[s] = Absent => conf[s] = Absent
    BY <1>1, <1>8, DefaultsAssumption DEF Restored, Usable
  <2> QED  BY <1>1, <1>2, <1>3, <1>8, <2>1 DEF Restored, GoneEntered
<1>9. CASE Edited
  <2>1. PICK s \in Setting, c \in {Own, Absent} : SettingChanges(s, c)  BY <1>9 DEF Edited
  <2>2. /\ UNCHANGED <<pc, want, pass>> /\ touched' = touched \cup {s}
        /\ \A r \in Setting \ {s} : conf'[r] = conf[r]
    BY <1>1, <1>9, <2>1 DEF SettingChanges, Edited
  <2> QED  BY <1>1, <1>2, <1>3, <2>2 DEF GoneEntered
<1> QED
  BY <1>4, <1>5, <1>6, <1>7, <1>8, <1>9, DefaultsSteps

-----------------------------------------------------------------------------
\* What applyOverrides does to one setting: nothing, or it writes where nothing is or what it
\* wrote itself still is, or it removes what it wrote itself.
LEMMA AppliedSetting ==
  ASSUME TypeOK, PassInv, Applied, NEW s \in Setting
  PROVE  /\ conf'[s] = conf[s] \/ conf[s] = Absent \/ (LastWritten(s) # NoHash /\ conf[s] = LastWritten(s))
         /\ s = OptionsTxt => conf[s] \in {Absent, conf'[s]}
                              \/ (conf'[s] = Absent /\ conf[s] = LastWritten(s) /\ s \notin Keyed)
         /\ touched' = touched
<1>1. DefaultsTypeOK /\ want \in Version  BY DEF TypeOK, SyncTypeOK
<1>2. pc = "defaults" /\ DefaultsStep(want, Keyed) /\ pass.entries \subseteq DOMAIN Default(want)
  BY DEF Applied, PassInv
<1>3. CASE Open \/ Recorded \/ Stated(want)  BY <1>3 DEF Open, Recorded, Stated
<1>4. ASSUME NEW r \in Setting, Entry(want, r) 
       PROVE  /\ conf'[s] = conf[s] \/ conf[s] = Absent \/ (LastWritten(s) # NoHash /\ conf[s] = LastWritten(s))
              /\ s = OptionsTxt => conf[s] \in {Absent, conf'[s]}
                                   \/ (conf'[s] = Absent /\ conf[s] = LastWritten(s) /\ s \notin Keyed)
              /\ touched' = touched
  <2>1. /\ touched' = touched /\ \A q \in Setting \ {r} : conf'[q] = conf[q]
        /\ conf'[r] = conf[r] \/ Follows(r)
    BY <1>1, <1>2, <1>4, EntryStep
  <2> QED  BY <2>1 DEF Follows
<1>5. CASE Drop(Keyed)
  <2>1. touched' = touched
        /\ \/ s \notin Keyed /\ LastWritten(s) # NoHash /\ conf[s] = LastWritten(s) /\ conf'[s] = Absent
           \/ conf'[s] = conf[s]
    BY <1>1, <1>5, DropStep
  <2> QED  BY <2>1
<1> QED  BY <1>2, <1>3, <1>4, <1>5 DEF DefaultsStep

LEMMA LastWrittenNotOwn ==
  ASSUME TypeOK, NEW s \in Setting
  PROVE  LastWritten(s) # Own
<1>1. LastWritten(s) \in Shipped \cup {NoHash}
  BY PreviousTyped DEF TypeOK, DefaultsTypeOK
<1> QED  BY <1>1, DefaultsAssumption

\* The instance's file becomes the shared copy.
LEMMA CapturedInv ==
  ASSUME TypeOK, OptionsInv, Captured, UNCHANGED <<conf, elsewhere, touched>>,
         conf[OptionsTxt] = Absent \/ behind \/ "here" \in latest,
         pc' = pc \/ (todo # {} /\ pc' # "done"), seen' = TRUE \/ seen' = seen,
         pending' => pending, todo' \subseteq todo
  PROVE  OptionsInv'
<1>1. Own \notin {Absent, Torn} /\ Absent # Torn  BY DefaultsAssumption
<1>2. CASE conf[OptionsTxt] = Absent
  <2>1. UNCHANGED <<shared, latest, young, behind>> /\ ~young
    BY <1>1, <1>2 DEF Captured, OptionsInv
  <2> QED  BY <1>2, <2>1 DEF OptionsInv, Safe, Usable
<1>3. CASE conf[OptionsTxt] # Absent
  <2>1. /\ shared' = conf[OptionsTxt] /\ ~young' /\ (behind' <=> behind /\ "here" \notin latest)
        /\ ("shared" \in latest' <=> "here" \in latest) /\ ("here" \in latest' <=> "here" \in latest)
    BY <1>3 DEF Captured
  <2>2. behind \/ "here" \in latest  BY <1>3
  <2>3. behind' \/ ("here" \in latest' /\ "shared" \in latest')  BY <2>1, <2>2
  <2>4. elsewhere' => /\ "here" \in latest' => conf'[OptionsTxt] = Own
                      /\ "shared" \in latest' => shared' = Own
    BY <2>1 DEF OptionsInv
  <2>5. pc' = "done" /\ ~seen' => conf'[OptionsTxt] \in {Own, Absent}
    BY DEF OptionsInv
  <2> QED  BY <2>1, <2>3, <2>4, <2>5 DEF OptionsInv, Safe
<1> QED  BY <1>2, <1>3

\* options.txt is put in order before a game.
LEMMA OptionsLaunch ==
  ASSUME TypeOK, KeysInv, OptionsInv, Options
  PROVE  OptionsInv'
<1>1. OptionsTxt \in Setting /\ conf \in [Setting -> Shipped \cup {Own, Absent, Torn}]
  BY DefaultsAssumption DEF TypeOK, DefaultsTypeOK
<1>2. Own \notin {Absent, Torn} /\ Absent # Torn  BY DefaultsAssumption
<1>3. pc = "options" /\ pc' \in {"options", "personal"} /\ touched' = touched
  BY DEF Options
<1>4. CASE Seed(want) /\ pc' = pc
  <2>1. /\ ~Usable /\ elsewhere /\ shared' = Own /\ UNCHANGED <<conf, elsewhere, seen, pending, young, behind, todo>>
        /\ latest' = IF "elsewhere" \in latest THEN latest \cup {"shared"} ELSE latest \ {"shared"}
    BY <1>4 DEF Seed, keyVars
  <2>2. "shared" \notin latest /\ todo = {}  BY <1>2, <1>4, <2>1 DEF OptionsInv, Usable, Seed
  <2>3. /\ ("shared" \in latest' <=> "elsewhere" \in latest) /\ ("here" \in latest' <=> "here" \in latest)
        /\ Usable'
    BY <1>2, <2>1 DEF Usable
  <2>4. "shared" \in latest' \/ behind' \/ young'  BY <2>1, <2>2, <2>3 DEF OptionsInv, Safe
  <2> QED  BY <1>3, <1>4, <2>1, <2>2, <2>3, <2>4 DEF OptionsInv, Safe
<1>5. CASE Restore(want)
  <2>1. UNCHANGED <<shared, elsewhere, seen, pending>>  BY <1>5 DEF Restore
  <2>2. CASE Usable
    <3>1. /\ conf'[OptionsTxt] = shared /\ (behind' <=> behind \/ young) /\ ~young'
          /\ latest' = IF "shared" \in latest THEN latest \cup {"here"} ELSE latest \ {"here"}
      BY <1>1, <1>5, <2>2 DEF Restore
    <3>2. Safe  BY <2>2 DEF OptionsInv
    <3>3. behind' \/ ("here" \in latest' /\ "shared" \in latest')  BY <3>1, <3>2 DEF Safe
    <3>4. elsewhere' => /\ "here" \in latest' => conf'[OptionsTxt] = Own
                        /\ "shared" \in latest' => shared' = Own
      BY <2>1, <3>1 DEF OptionsInv
    <3> QED  BY <1>3, <2>1, <3>1, <3>3, <3>4 DEF OptionsInv, Safe
  <2>3. CASE ~Usable
    <3>1. ~elsewhere /\ UNCHANGED <<conf, latest, young, behind>>  BY <1>5, <2>3 DEF Restore
    <3> QED  BY <1>3, <2>1, <2>3, <3>1 DEF OptionsInv, Safe, Usable
  <2> QED  BY <2>2, <2>3
<1>6. CASE SeedFails(want)
  <2>1. UNCHANGED <<conf, shared, elsewhere, seen, pending, latest, young>>
        /\ (behind' <=> behind \/ "here" \notin latest)
    BY <1>6 DEF SeedFails
  <2> QED  BY <1>3, <2>1 DEF OptionsInv, Safe
<1>7. CASE KeysHere(want) \/ NoKeys \/ KeysSettled \/ KeysFail
  <2>1. todo # {} /\ UNCHANGED <<shared, elsewhere, seen, pending, latest, young, behind>>
    BY <1>7 DEF KeysHere, NoKeys, KeysSettled, KeysFail
  <2>2. conf'[OptionsTxt] = conf[OptionsTxt] \/ conf'[OptionsTxt] = Own
    BY <1>1, <1>7 DEF KeysHere, KeyLine, NoKeys, KeysSettled, KeysFail
  <2>3. behind \/ "here" \in latest  BY <2>1 DEF OptionsInv
  <2>4. Safe  BY <2>1 DEF OptionsInv
  <2> QED  BY <1>3, <2>1, <2>2, <2>3, <2>4 DEF OptionsInv, Safe, Usable
<1>8. CASE KeysShared
  <2>1. todo # {} /\ todo' \subseteq todo /\ UNCHANGED <<conf, elsewhere, seen, pending>>
    BY <1>8 DEF KeysShared
  <2>2. behind \/ "here" \in latest  BY <2>1 DEF OptionsInv
  <2>3. CASE UNCHANGED <<shared, keys, latest, young, behind>>
    <3>1. Safe  BY <2>1 DEF OptionsInv
    <3> QED  BY <1>3, <2>1, <2>2, <2>3, <3>1 DEF OptionsInv, Safe, Usable
  <2>4. CASE Captured
    BY <1>3, <2>1, <2>2, <2>4, CapturedInv
  <2>5. CASE latest' = latest \ {"shared"} /\ behind' = TRUE /\ UNCHANGED young
    <3>1. "shared" \notin latest' /\ ("here" \in latest' <=> "here" \in latest)  BY <2>5
    <3> QED  BY <1>3, <2>1, <2>5, <3>1 DEF OptionsInv, Safe
  <2> QED  BY <1>8, <2>3, <2>4, <2>5 DEF KeysShared
<1> QED  BY <1>4, <1>5, <1>6, <1>7, <1>8 DEF Options

\* The player chooses, deletes, or plays elsewhere.
LEMMA OptionsChange ==
  ASSUME TypeOK, KeysInv, OptionsInv, Change
  PROVE  OptionsInv'
<1>1. OptionsTxt \in Setting /\ conf \in [Setting -> Shipped \cup {Own, Absent, Torn}]
  BY DefaultsAssumption DEF TypeOK, DefaultsTypeOK
<1>2. Own \notin {Absent, Torn} /\ Absent # Torn  BY DefaultsAssumption
<1>3. pc' = pc /\ touched \subseteq touched'
  BY DEF Change, SettingChanges, othersVars, defaultsVars
<1>4. CASE UNCHANGED <<conf, optionsVars>>
  BY <1>3, <1>4 DEF OptionsInv, Safe, Usable, optionsVars, keyVars
<1>5. ASSUME NEW s \in Setting, NEW c \in {Own, Absent}, SettingChanges(s, c),
             IF s # OptionsTxt THEN UNCHANGED optionsVars
             ELSE IF c = Own THEN Chosen(published, pc = "done") ELSE Deleted
      PROVE  OptionsInv'
  <2>1. conf' = [conf EXCEPT ![s] = c] /\ touched' = touched \cup {s}  BY <1>5 DEF SettingChanges
  <2>2. CASE s # OptionsTxt
    <3>1. conf'[OptionsTxt] = conf[OptionsTxt]  BY <1>1, <2>1, <2>2
    <3> QED  BY <1>3, <1>5, <2>2, <3>1 DEF OptionsInv, Safe, Usable, optionsVars, keyVars
  <2>3. CASE s = OptionsTxt /\ c = Own
    <3>1. /\ conf'[OptionsTxt] = Own /\ latest' = {"here"} /\ (young' <=> pc = "done")
          /\ (behind' <=> pc # "done") /\ ~seen' /\ UNCHANGED <<shared, elsewhere, pending>>
      BY <1>1, <1>5, <2>1, <2>3 DEF Chosen
    <3> QED  BY <1>3, <3>1 DEF OptionsInv, Safe
  <2>4. CASE s = OptionsTxt /\ c = Absent
    <3>1. Deleted /\ conf'[OptionsTxt] = Absent /\ OptionsTxt \in touched'
      BY <1>1, <1>2, <1>5, <2>1, <2>4
    <3>2. /\ latest' = latest \ {"here"} /\ ~young' /\ UNCHANGED <<shared, elsewhere, seen, pending>>
          /\ (behind' <=> behind \/ "shared" \notin latest \/ ~Usable \/ pending \/ todo # {})
          /\ (todo = {} => todo' = {})
      BY <3>1 DEF Deleted, Overtaken
    <3>3. "here" \notin latest' /\ ("shared" \in latest' <=> "shared" \in latest)  BY <3>2
    <3> QED  BY <1>3, <3>1, <3>2, <3>3 DEF OptionsInv, Safe, Usable
  <2> QED  BY <1>5, <2>2, <2>3, <2>4
<1>6. CASE pc = "idle" /\ PlayedElsewhere(published) /\ UNCHANGED defaultsVars
  <2>1. ~pending' /\ elsewhere' /\ ~young' /\ UNCHANGED <<conf, todo>> /\ todo = {}
    BY <1>6 DEF PlayedElsewhere, keyVars, defaultsVars, KeysInv
  <2>2. CASE shared' = Own /\ latest' = {"shared", "elsewhere"}
    <3>1. Usable'  BY <1>2, <2>2 DEF Usable
    <3> QED  BY <1>3, <1>6, <2>1, <2>2, <3>1 DEF OptionsInv, Safe
  <2>3. CASE latest' = {"elsewhere"} /\ behind' = Usable /\ UNCHANGED shared
    <3>1. (Usable' <=> Usable) /\ (behind' <=> Usable)  BY <2>3 DEF Usable
    <3> QED  BY <1>3, <1>6, <2>1, <2>3, <3>1 DEF OptionsInv, Safe
  <2> QED  BY <1>6, <2>2, <2>3 DEF PlayedElsewhere
<1> QED  BY <1>4, <1>5, <1>6, PathsSetting DEF Change, othersVars, defaultsVars

LEMMA OptionsStep == TypeOK /\ RunInv /\ PassInv /\ KeysInv /\ OptionsInv /\ [Next]_vars => OptionsInv'
<1> SUFFICES ASSUME TypeOK, RunInv, PassInv, KeysInv, OptionsInv, [Next]_vars PROVE OptionsInv'
  OBVIOUS
<1>1. OptionsTxt \in Setting /\ conf \in [Setting -> Shipped \cup {Own, Absent, Torn}]
  BY DefaultsAssumption DEF TypeOK, DefaultsTypeOK
<1>2. Own \notin {Absent, Torn} /\ Absent # Torn  BY DefaultsAssumption
<1>3. CASE \/ Check \/ Download \/ BundleLands \/ BundleCommits \/ BundleSettles \/ Rest \/ Fetched \/ FetchFails
           \/ Remove \/ ListOpens \/ ListWritten \/ Finish \/ CheckFails \/ Publish \/ UNCHANGED vars
  <2>1. /\ UNCHANGED <<conf, touched, optionsVars>>
        /\ pc' = pc \/ (pc \notin {"done", "personal"} /\ pc' \notin {"done", "personal"})
    BY <1>3 DEF Check, Download, BundleLands, BundleCommits, BundleSettles, Rest, Fetched, FetchFails, Remove,
       ListOpens, ListWritten, Finish, CheckFails, Publish, Abandon, Settled, othersVars, defaultsVars, vars, syncVars
  <2> QED  BY <2>1 DEF OptionsInv, Safe, Usable, optionsVars, keyVars
<1>4. CASE Start
  <2>1. UNCHANGED <<conf, optionsVars>> /\ pc = "idle" /\ pc' = "check"
    BY <1>4 DEF Start, Plan
  <2> QED  BY <2>1 DEF OptionsInv, Safe, Usable, optionsVars, keyVars
<1>5. CASE Defaults
  <2>1. Applied /\ UNCHANGED <<pc, optionsVars>>
    BY <1>5 DEF Defaults, Applied, syncVars
  <2>2. pc = "defaults"  BY <2>1 DEF Applied
  <2>3. conf[OptionsTxt] = Own => conf'[OptionsTxt] = Own
    BY <1>1, <1>2, <2>1, AppliedSetting, LastWrittenNotOwn
  <2> QED  BY <2>1, <2>2, <2>3 DEF OptionsInv, Safe, Usable, optionsVars, keyVars
<1>6. CASE Options
  BY <1>6, OptionsLaunch
<1>7. CASE Personal
  <2>1. /\ UNCHANGED <<conf, touched, shared, elsewhere, pending, latest, young, behind, todo>>
        /\ pc = "personal"
        /\ (pc' = pc /\ seen' = seen) \/ (pc' = "done" /\ seen' = TRUE)
    BY <1>7 DEF Personal, Watch, defaultsVars, optionsVars, keyVars
  <2> QED  BY <2>1 DEF OptionsInv, Safe, Usable
<1>8. CASE JarGone \/ CopyFails
  <2>1. UNCHANGED <<conf, touched, optionsVars>> /\ pc = "personal" /\ pc' = "idle"
    BY <1>8 DEF JarGone, CopyFails, PersonalFails, Abandon, defaultsVars, RunInv
  <2> QED  BY <2>1 DEF OptionsInv, Safe, Usable, optionsVars, keyVars
<1>9. CASE Played
  <2>1. UNCHANGED <<conf, touched, shared, elsewhere, latest, young, behind, todo>> /\ pc = "done" /\ pc' = "idle"
        /\ (pending' <=> conf[OptionsTxt] # Absent)
    BY <1>9 DEF Played, Ended, Abandon, defaultsVars, keyVars
  <2> QED  BY <1>2, <2>1 DEF OptionsInv, Safe, Usable
<1>10. CASE Capture
  <2>1. UNCHANGED <<pc, conf, touched>>  BY <1>10 DEF Capture, syncVars, defaultsVars
  <2>2. CASE pc = "done" /\ Tick /\ Fresh
    <3>1. Captured /\ seen' = TRUE /\ UNCHANGED <<elsewhere, pending, todo>>  BY <2>2 DEF Tick, keyVars
    <3>2. conf[OptionsTxt] = Absent \/ behind \/ "here" \in latest  BY <2>2 DEF OptionsInv
    <3> QED  BY <2>1, <3>1, <3>2, CapturedInv
  <2>3. CASE pc = "done" /\ Tick /\ ~Fresh
    <3>1. ~young' /\ ~pending /\ UNCHANGED <<shared, seen, latest, behind, elsewhere, pending, todo>>
      BY <2>3 DEF Tick, keyVars
    <3>2. young => behind  BY <1>2, <2>3, <3>1 DEF OptionsInv, Fresh
    <3> QED  BY <2>1, <2>3, <3>1, <3>2 DEF OptionsInv, Safe, Usable
  <2>4. CASE LastCapture
    <3>1. Captured /\ pending /\ ~pending' /\ UNCHANGED <<elsewhere, seen, todo>>  BY <2>4 DEF LastCapture, keyVars
    <3>2. behind \/ "here" \in latest  BY <3>1 DEF OptionsInv
    <3> QED  BY <2>1, <3>1, <3>2, CapturedInv
  <2> QED  BY <1>10, <2>2, <2>3, <2>4 DEF Capture
<1>11. CASE CaptureFails
  <2>1. UNCHANGED <<pc, conf, touched>>  BY <1>11 DEF CaptureFails, defaultsVars
  <2>2. Broken  BY <1>11 DEF CaptureFails, TickBreaks, LastBreaks
  <2>3. /\ "shared" \notin latest' /\ ("here" \in latest' <=> "here" \in latest)
        /\ UNCHANGED <<elsewhere, seen, todo>>
    BY <2>2 DEF Broken, keyVars
  <2>4. CASE pc = "done" /\ TickBreaks
    <3>1. young' /\ Fresh /\ UNCHANGED <<pending, behind>>  BY <2>4 DEF TickBreaks
    <3>2. conf[OptionsTxt] = Own /\ ~seen  BY <2>4, <3>1 DEF OptionsInv, Fresh
    <3> QED  BY <1>2, <2>1, <2>3, <2>4, <3>1, <3>2 DEF OptionsInv, Safe
  <2>5. CASE LastBreaks
    <3>1. behind' /\ UNCHANGED young  BY <2>5 DEF LastBreaks
    <3> QED  BY <2>1, <2>3, <3>1 DEF OptionsInv, Safe
  <2> QED  BY <1>11, <2>4, <2>5 DEF CaptureFails
<1>12. CASE Crash
  <2>1. pc' = "idle"  BY <1>12, CrashStep
  <2>2. PICK cut \in SUBSET Setting :
          /\ conf' = [s \in Setting |-> IF s \in cut THEN Torn ELSE conf[s]]
          /\ OptionsCrash(OptionsTxt \in cut, cut \subseteq Restoring)
          /\ \A s \in cut : Follows(s) \/ (s = OptionsTxt /\ Usable)
          /\ cut \subseteq Restoring \/ \A s \in cut : Follows(s)
    BY <1>12, CrashStep
  <2>3. /\ ~pending' /\ ~young' /\ todo' = {} /\ (behind' <=> behind \/ young) /\ UNCHANGED <<shared, elsewhere>>
        /\ latest' = IF OptionsTxt \in cut /\ cut \subseteq Restoring THEN latest \ {"here"} ELSE latest
    BY <2>2 DEF OptionsCrash
  <2>4. CASE OptionsTxt \in cut /\ cut \subseteq Restoring
    <3>1. Usable  BY <2>4 DEF Restoring
    <3>2. "here" \notin latest' /\ ("shared" \in latest' <=> "shared" \in latest)  BY <2>3, <2>4
    <3> QED  BY <2>1, <2>3, <3>1, <3>2 DEF OptionsInv, Safe, Usable
  <2>5. CASE OptionsTxt \in cut /\ ~(cut \subseteq Restoring)
    <3>1. conf[OptionsTxt] = Absent  BY <2>2, <2>5 DEF Follows
    <3>2. elsewhere => "here" \notin latest  BY <1>2, <3>1 DEF OptionsInv
    <3> QED  BY <2>1, <2>3, <2>5, <3>2 DEF OptionsInv, Safe, Usable
  <2>6. CASE OptionsTxt \notin cut
    <3>1. conf'[OptionsTxt] = conf[OptionsTxt] /\ latest' = latest  BY <1>1, <2>2, <2>3, <2>6
    <3> QED  BY <2>1, <2>3, <3>1 DEF OptionsInv, Safe, Usable
  <2> QED  BY <2>4, <2>5, <2>6
<1>13. CASE Change
  BY <1>13, OptionsChange
<1> QED
  BY <1>3, <1>4, <1>5, <1>6, <1>7, <1>8, <1>9, <1>10, <1>11, <1>12, <1>13 DEF Next, Launcher

LEMMA KeysStep == TypeOK /\ RunInv /\ KeysInv /\ [Next]_vars => KeysInv'
<1> SUFFICES ASSUME TypeOK, RunInv, KeysInv, [Next]_vars PROVE KeysInv'
  OBVIOUS
<1>1. ASSUME UNCHANGED keyVars, pc # "options" \/ pc' = pc PROVE KeysInv'
  BY <1>1 DEF KeysInv, keyVars
<1>2. CASE \/ Start \/ Check \/ Download \/ BundleLands \/ BundleCommits \/ BundleSettles \/ Rest \/ Fetched
           \/ FetchFails \/ Remove \/ ListOpens \/ ListWritten \/ Defaults \/ Finish \/ CheckFails \/ Publish
           \/ UNCHANGED vars
  <2>1. UNCHANGED keyVars /\ (pc # "options" \/ pc' = pc)
    BY <1>2 DEF Start, Check, Download, BundleLands, BundleCommits, BundleSettles, Rest, Fetched, FetchFails, Remove,
       ListOpens, ListWritten, Defaults, Finish, CheckFails, Publish, Settled, othersVars, optionsVars, vars, syncVars
  <2> QED  BY <1>1, <2>1
<1>3. CASE Personal \/ JarGone \/ CopyFails \/ Played \/ Capture \/ CaptureFails
  <2>1. UNCHANGED keyVars
    BY <1>3 DEF Personal, Watch, JarGone, CopyFails, PersonalFails, Played, Ended, Capture, Tick, LastCapture,
       CaptureFails, TickBreaks, LastBreaks, Broken, optionsVars
  <2>2. pc # "options" \/ pc' = pc
    BY <1>3 DEF Personal, JarGone, CopyFails, PersonalFails, Played, Capture, CaptureFails, RunInv, syncVars
  <2> QED  BY <1>1, <2>1, <2>2
<1>4. CASE Options
  <2>1. pc = "options"  BY <1>4 DEF Options
  <2>2. CASE Seed(want)
    <3>1. UNCHANGED keyVars /\ todo = {}  BY <2>2 DEF Seed, keyVars
    <3> QED  BY <3>1 DEF KeysInv, keyVars
  <2>3. ASSUME ~Seed(want) PROVE todo' # {} => pc' = "options"  BY <1>4, <2>3 DEF Options
  <2>4. CASE Restore(want) \/ SeedFails(want)
    <3>1. todo = {} /\ UNCHANGED <<settled, moved>> /\ todo' \in {{}, {"keys"}}
      BY <2>4 DEF Restore, SeedFails, KeysNext
    <3> QED  BY <2>2, <2>3, <3>1 DEF KeysInv
  <2>5. CASE KeysHere(want)
    <3>1. PICK k \in Choices(want) :
            /\ todo' = (IF k = keys["here"] THEN {} ELSE {"share"}) \cup (IF Settles(want, k) THEN {"settle"} ELSE {})
            /\ moved' = (moved \/ Settles(want, k))
      BY <2>5 DEF KeysHere
    <3>2. todo = {"keys"} /\ settled' = settled /\ "keys" \notin todo'  BY <2>5, <3>1 DEF KeysHere, KeysInv
    <3>3. moved' => settled' \/ "settle" \in todo'  BY <3>1, <3>2 DEF KeysInv
    <3> QED  BY <2>2, <2>3, <3>2, <3>3 DEF KeysInv
  <2>6. CASE KeysShared
    <3>1. todo' = todo \ {"share", "stale"} /\ UNCHANGED <<settled, moved>> /\ todo \cap {"share", "stale"} # {}
      BY <2>6 DEF KeysShared
    <3> QED  BY <2>2, <2>3, <3>1 DEF KeysInv
  <2>7. CASE KeysSettled \/ NoKeys \/ KeysFail
    <3>1. todo' = {}  BY <2>7 DEF KeysSettled, NoKeys, KeysFail
    <3>2. moved' => settled'  BY <2>7 DEF KeysSettled, NoKeys, KeysFail, KeysInv
    <3> QED  BY <3>1, <3>2 DEF KeysInv
  <2> QED  BY <1>4, <2>2, <2>4, <2>5, <2>6, <2>7 DEF Options
<1>5. CASE Crash
  <2>1. PICK cut : OptionsCrash(OptionsTxt \in cut, cut \subseteq Restoring)  BY <1>5 DEF Crash
  <2>2. todo' = {} /\ settled' = settled /\ (moved' <=> moved /\ "settle" \notin todo)  BY <2>1 DEF OptionsCrash
  <2> QED  BY <2>2 DEF KeysInv
<1>6. CASE Change
  <2>1. pc' = pc  BY <1>6 DEF Change
  <2>2. UNCHANGED keyVars \/ (Overtaken /\ UNCHANGED <<settled, moved>>)
    BY <1>6 DEF Change, Chosen, Deleted, PlayedElsewhere, othersVars, optionsVars
  <2>3. CASE Overtaken /\ UNCHANGED <<settled, moved>>
    <3>1. /\ todo' # {} => todo # {}
          /\ "keys" \in todo' => "keys" \in todo
          /\ "settle" \in todo => "settle" \in todo'
          /\ "share" \notin todo => todo' = todo
      BY <2>3 DEF Overtaken
    <3> QED  BY <2>1, <2>3, <3>1 DEF KeysInv
  <2> QED  BY <1>1, <2>1, <2>2, <2>3
<1> QED  BY <1>2, <1>3, <1>4, <1>5, <1>6 DEF Next, Launcher

LEMMA TornStep == TypeOK /\ RunInv /\ PassInv /\ TornInv /\ [Next]_vars => TornInv'
<1> SUFFICES ASSUME TypeOK, RunInv, PassInv, TornInv, [Next]_vars,
                    NEW s \in Setting \ {OptionsTxt}, conf'[s] = Torn
             PROVE  s \in adrift'
  BY DEF TornInv
<1>1. conf \in [Setting -> Shipped \cup {Own, Absent, Torn}] /\ adrift \subseteq Setting /\ want \in Version
  BY DEF TypeOK, DefaultsTypeOK, SyncTypeOK
<1>2. conf[s] = Torn => s \in adrift  BY DEF TornInv
<1>3. Torn \notin Shipped \cup {Own, Absent}  BY DefaultsAssumption
<1>4. CASE Quiet \/ Start \/ Halts
  BY <1>2, <1>4 DEF Quiet, Start, Plan, Halts
<1>5. CASE Crash
  <2>1. PICK cut \in SUBSET Setting :
          /\ conf' = [r \in Setting |-> IF r \in cut THEN Torn ELSE conf[r]]
          /\ adrift \cup cut \subseteq adrift'
    BY <1>5, CrashStep
  <2> QED  BY <1>2, <2>1
<1>6. CASE Applied
  <2>1. DefaultsTypeOK /\ DefaultsStep(want, Keyed) /\ pass.entries \subseteq DOMAIN Default(want)
    BY <1>6 DEF Applied, PassInv, TypeOK
  <2>2. CASE Open \/ Recorded  BY <1>2, <2>2 DEF Open, Recorded
  <2>3. CASE Stated(want)
    <3>1. conf' = conf /\ adrift' = adrift \ {r \in DOMAIN Default(want) : conf[r] = Default(want)[r] /\ record[r] = conf[r]}
      BY <2>3 DEF Stated
    <3>2. s \in DOMAIN Default(want) => conf[s] # Default(want)[s]  BY <1>1, <3>1, ShippedDefault
    <3> QED  BY <1>2, <3>1, <3>2
  <2>4. ASSUME NEW r \in Setting, Entry(want, r) PROVE s \in adrift'
    <3>1. CASE s = r
      <4>1. s \in DOMAIN Default(want)  BY <1>1, <2>1, <2>4, <3>1, EntryStep
      <4>2. Default(want)[s] # Torn  BY <1>1, <4>1, ShippedDefault
      <4> QED  BY <1>1, <1>2, <2>1, <2>4, <3>1, <4>2, EntryStep
    <3>2. CASE s # r
      BY <1>1, <1>2, <2>1, <2>4, <3>2, EntryStep
    <3> QED  BY <3>1, <3>2
  <2>5. CASE Drop(Keyed)
    BY <1>2, <1>3, <2>1, <2>5, DropStep
  <2> QED  BY <2>1, <2>2, <2>3, <2>4, <2>5 DEF DefaultsStep
<1>7. CASE Restored
  <2>1. conf'[s] = conf[s] /\ adrift' = adrift  BY <1>1, <1>7 DEF Restored
  <2> QED  BY <1>2, <2>1
<1>8. CASE Edited
  <2>1. PICK r \in Setting, c \in {Own, Absent} : SettingChanges(r, c)  BY <1>8 DEF Edited
  <2>2. conf' = [conf EXCEPT ![r] = c] /\ adrift' = adrift \ {r}  BY <2>1 DEF SettingChanges
  <2> QED  BY <1>1, <1>2, <1>3, <2>2
<1> QED  BY <1>4, <1>5, <1>6, <1>7, <1>8, DefaultsSteps

LEMMA SettingsFollowed == TypeOK /\ PassInv /\ OursInv /\ EntryInv /\ TornInv /\ OptionsInv => SettingsFollow
<1> SUFFICES ASSUME TypeOK, PassInv, OursInv, EntryInv, TornInv, OptionsInv, pc = "done"
             PROVE  Followed(want) /\ (OptionsTxt \in touched \/ OptionsFollow)
  BY DEF SettingsFollow
<1>1. OptionsTxt \in touched \/ OptionsFollow  BY DEF OptionsInv, OptionsFollow
<1>2. pass.pc = "none" /\ archive = want /\ pass.entries = {}  BY DEF PassInv
<1>3. conf \in [Setting -> Shipped \cup {Own, Absent, Torn}]  BY DEF TypeOK, DefaultsTypeOK
<1>4. ASSUME NEW s \in Setting \ ({OptionsTxt} \cup touched \cup adrift)
      PROVE  \/ conf[s] = Own
             \/ IF s \in DOMAIN Default(want) THEN conf[s] = Default(want)[s] ELSE conf[s] = Absent
  <2>1. CASE conf[s] \in Shipped
    <3>1. Ours(s)  BY <2>1 DEF Ours
    <3> QED  BY <1>2, <3>1 DEF OursInv
  <2>2. CASE conf[s] = Absent
    <3>1. s \notin DOMAIN Default(want)  BY <1>2, <2>2 DEF EntryInv
    <3> QED  BY <2>2, <3>1
  <2>3. conf[s] # Torn  BY DEF TornInv
  <2> QED  BY <1>3, <2>1, <2>2, <2>3
<1> QED  BY <1>1, <1>4 DEF Followed

\* The step of SettingsKept.
Kept ==
  count'.change = count.change =>
    /\ \A s \in Setting \ {OptionsTxt} : conf[s] = Own => conf'[s] = Own
    /\ OptionsOnly

\* A step that writes nothing.
LEMMA NothingWritten ==
  ASSUME conf' = conf, keys'["here"] = keys["here"]
  PROVE  Kept
BY DEF Kept, OptionsOnly

\* The steps of the launch that write options.txt.
LEMMA KeptLaunch ==
  ASSUME TypeOK, KeysInv, Options
  PROVE  Kept
<1>1. OptionsTxt \in Setting /\ conf \in [Setting -> Shipped \cup {Own, Absent, Torn}]
  BY DefaultsAssumption DEF TypeOK, DefaultsTypeOK
<1>2. keys \in [{"here", "shared"} -> Binding]  BY DEF TypeOK, OptionsTypeOK
<1>3. CASE Restore(want) /\ Usable
  <2>1. conf' = [conf EXCEPT ![OptionsTxt] = shared] /\ keys'["here"] = keys["shared"]
    BY <1>2, <1>3 DEF Restore
  <2>2. conf'[OptionsTxt] = shared /\ \A s \in Setting \ {OptionsTxt} : conf'[s] = conf[s]
    BY <1>1, <2>1
  <2> QED  BY <1>3, <2>1, <2>2 DEF Kept, OptionsOnly
<1>4. CASE KeysHere(want)
  <2>1. PICK k \in Choices(want) : KeyLine(k)  BY <1>4 DEF KeysHere
  <2>2. todo = {"keys"} /\ (moved => settled)  BY <1>4 DEF KeysHere, KeysInv
  <2>3. keys'["here"] = k  BY <1>2, <2>1 DEF KeyLine
  <2>4. k = keys["here"] \/ (k = "pack" /\ (keys["here"] = "none" \/ ~moved))
    BY <2>1, <2>2 DEF Choices
  <2>5. /\ \A s \in Setting \ {OptionsTxt} : conf'[s] = conf[s]
        /\ conf[OptionsTxt] \in {Torn, conf'[OptionsTxt]}
    BY <1>1, <2>1 DEF KeyLine
  <2> QED  BY <2>3, <2>4, <2>5 DEF Kept, OptionsOnly
<1>5. ASSUME ~(Restore(want) /\ Usable), ~KeysHere(want) PROVE conf' = conf /\ keys'["here"] = keys["here"]
  BY <1>2, <1>5 DEF Options, Seed, Restore, SeedFails, NoKeys, KeysShared, Captured, KeysSettled, KeysFail
<1> QED  BY <1>3, <1>4, <1>5, NothingWritten

LEMMA SettingsKeptStep == TypeOK /\ RunInv /\ PassInv /\ KeysInv /\ [Next]_vars => Kept
<1> SUFFICES ASSUME TypeOK, RunInv, PassInv, KeysInv, [Next]_vars PROVE Kept
  OBVIOUS
<1>1. OptionsTxt \in Setting /\ conf \in [Setting -> Shipped \cup {Own, Absent, Torn}]
  BY DefaultsAssumption DEF TypeOK, DefaultsTypeOK
<1>2. keys \in [{"here", "shared"} -> Binding]  BY DEF TypeOK, OptionsTypeOK
<1>3. Own # Absent /\ \A s \in Setting : LastWritten(s) # Own  BY DefaultsAssumption, LastWrittenNotOwn
<1>4. CASE Change
  <2>1. count \in [DOMAIN Bound -> Nat] /\ \A k \in DOMAIN Bound : count[k] <= Bound[k]
    BY DEF TypeOK, SyncTypeOK
  <2>2. "change" \in DOMAIN Bound /\ count["change"] \in Nat  BY <2>1, BoundDomain
  <2>3. count'["change"] = count["change"] + 1  BY <1>4, <2>1, <2>2, Counted DEF Change
  <2> QED  BY <2>2, <2>3 DEF Kept
<1>5. CASE Defaults
  <2>1. Applied /\ keys' = keys  BY <1>5 DEF Applied, Defaults, syncVars, optionsVars
  <2>2. \A s \in Setting : conf[s] = Own => conf'[s] = Own  BY <1>3, <2>1, AppliedSetting
  <2>3. conf[OptionsTxt] \in {Absent, conf'[OptionsTxt]}
        \/ (conf'[OptionsTxt] = Absent /\ conf[OptionsTxt] = LastWritten(OptionsTxt) /\ OptionsTxt \notin Keyed)
    BY <1>1, <2>1, AppliedSetting
  <2>4. OptionsTxt \notin Keyed => keys["here"] = "none"  BY DEF Keyed
  <2> QED  BY <2>1, <2>2, <2>3, <2>4 DEF Kept, OptionsOnly
<1>6. CASE Options
  BY <1>6, KeptLaunch
<1>7. CASE Crash
  <2>1. PICK cut \in SUBSET Setting :
          /\ conf' = [s \in Setting |-> IF s \in cut THEN Torn ELSE conf[s]]
          /\ OptionsCrash(OptionsTxt \in cut, cut \subseteq Restoring)
          /\ \A s \in cut : Follows(s) \/ (s = OptionsTxt /\ Usable)
    BY <1>7, CrashStep
  <2>2. keys' = IF OptionsTxt \in cut THEN [keys EXCEPT !["here"] = "none"] ELSE keys
    BY <2>1 DEF OptionsCrash
  <2>3. \A s \in Setting \ {OptionsTxt} : conf[s] = Own => conf'[s] = Own
    BY <1>3, <2>1 DEF Follows
  <2>4. CASE OptionsTxt \in cut
    <3>1. conf'[OptionsTxt] = Torn /\ keys'["here"] = "none"  BY <1>1, <1>2, <2>1, <2>2, <2>4
    <3>2. conf[OptionsTxt] = Absent \/ Usable  BY <2>1, <2>4 DEF Follows
    <3> QED  BY <2>3, <3>1, <3>2 DEF Kept, OptionsOnly
  <2>5. CASE OptionsTxt \notin cut
    <3>1. conf'[OptionsTxt] = conf[OptionsTxt] /\ keys' = keys  BY <1>1, <2>1, <2>2, <2>5
    <3> QED  BY <2>3, <3>1 DEF Kept, OptionsOnly
  <2> QED  BY <2>4, <2>5
<1>8. CASE Capture \/ CaptureFails
  <2>1. conf' = conf  BY <1>8 DEF Capture, CaptureFails, defaultsVars
  <2>2. keys'["here"] = keys["here"]
    BY <1>2, <1>8 DEF Capture, CaptureFails, Tick, LastCapture, Captured, TickBreaks, LastBreaks, Broken
  <2> QED  BY <2>1, <2>2, NothingWritten
<1>9. ASSUME [Next]_vars, ~Change, ~Defaults, ~Options, ~Crash, ~Capture, ~CaptureFails
      PROVE UNCHANGED <<conf, keys>>
  BY <1>9
  DEF Next, Launcher, Start, Plan, Check, Download, BundleLands, BundleCommits, BundleSettles, Rest, Fetched,
      FetchFails, Remove, ListOpens, ListWritten, Finish, Personal, Watch, JarGone, Played, Ended, CheckFails,
      CopyFails, PersonalFails, Publish, othersVars, defaultsVars, optionsVars, vars
<1> QED  BY <1>4, <1>5, <1>6, <1>7, <1>8, <1>9, NothingWritten

-----------------------------------------------------------------------------
\* The files: where a run is.
LEMMA RunFacts ==
  ASSUME TypeOK
  PROVE  /\ want \in Version /\ published \in Version /\ DOMAIN File(want) \subseteq Mod
         /\ mods \in [Mod -> Pinned \cup Jar \cup {Own, Absent}] /\ part \in [Mod -> Pinned \cup {Absent}]
         /\ stamp \in [Mod -> [hash : Pinned \cup Jar \cup {Own, Absent}, fresh : BOOLEAN]]
         /\ job \in [Mod -> {"none", "bundle", "commit", "rest", "fetch", "land", "stamp"}] /\ left \in [Mod -> 0..Tries]
         /\ managed \in (SUBSET Mod) \cup {Torn} /\ obsolete \subseteq Mod
         /\ user \in [pc : {"none", "out", "in", "list"}, out : SUBSET Mod, without : BOOLEAN,
                      in : SUBSET Jar, left : SUBSET Jar]
         /\ copied \subseteq Mod /\ changed \subseteq Mod /\ raced \subseteq Mod
<1>1. DOMAIN File(want) \subseteq Mod  BY PinnedFile DEF TypeOK, SyncTypeOK
<1> QED  BY <1>1, Zenon DEF TypeOK, SyncTypeOK, PersonalTypeOK

\* A run that ended has nothing on its way.
LEMMA AbandonRun ==
  ASSUME Abandon, want' = want, user' = NoUser \/ (pc # "personal" /\ UNCHANGED user /\ RunInv)
  PROVE  RunInv'
<1>1. pc' = "idle" /\ job' = [m \in Mod |-> "none"] /\ bundle' = "none" /\ obsolete' = {}
  BY DEF Abandon, NoJob
<1>2. user'.pc = "none" /\ user'.out = {} /\ user'.in = {} /\ user'.left = {}
  BY DEF NoUser, RunInv
<1>3. job' = NoJob' /\ \A m \in Mod : job'[m] = "none"  BY <1>1 DEF NoJob
<1> QED  BY <1>1, <1>2, <1>3 DEF RunInv

\* One file of the download: what its step does.
FileStep(m) ==
  \/ Arrives(m)
  \/ (Mixed(m) \/ Breaks(m) \/ Land(m) \/ LandFails(m) \/ Remember(m) \/ RememberFails(m)) /\ UNCHANGED raced

LEMMA DownloadStep ==
  ASSUME Download
  PROVE  /\ \E m \in Mod : FileStep(m)
         /\ UNCHANGED <<want, pc, managed, bundle, obsolete, changed, user, copied, displaced>>
         /\ unlisted' = unlisted \cup Landed
BY DEF Download, FileStep, othersVars, personalVars

LEMMA FileStepEffect ==
  ASSUME TypeOK, RunInv, NEW m \in Mod, FileStep(m)
  PROVE  /\ pc = "fetch" /\ m \in DOMAIN File(want) /\ job[m] \in {"fetch", "land", "stamp"}
         /\ \A n \in Mod \ {m} : /\ job'[n] = job[n] /\ mods'[n] = mods[n] /\ part'[n] = part[n]
                                 /\ stamp'[n] = stamp[n] /\ (n \in raced' <=> n \in raced)
         /\ \/ /\ job'[m] = "land" /\ part'[m] = File(want)[m] /\ mods'[m] = Absent /\ ~stamp'[m].fresh
               /\ UNCHANGED failed
            \/ /\ job[m] = "land" /\ job'[m] = "stamp" /\ mods'[m] = File(want)[m]
               /\ UNCHANGED <<stamp, failed, raced>>
            \/ /\ job[m] = "stamp" /\ job'[m] = "none" /\ UNCHANGED <<mods, failed, raced>>
               /\ stamp'[m].hash = File(want)[m]
            \/ job'[m] = "fetch" /\ UNCHANGED <<mods, stamp, failed, raced>>
            \/ job'[m] = "none" /\ UNCHANGED <<mods, stamp, raced>> /\ failed' = TRUE
<1> USE RunFacts
<1>1. pc = "fetch" /\ job[m] \in {"fetch", "land", "stamp"}
  BY DEF FileStep, Arrives, Mixed, Breaks, Land, LandFails, Remember, RememberFails, Fetching
<1>2. m \in DOMAIN File(want)  BY <1>1 DEF RunInv
<1>3. ASSUME Again(m)
      PROVE  /\ \A n \in Mod \ {m} : job'[n] = job[n]
             /\ \/ job'[m] = "fetch" /\ UNCHANGED failed
                \/ job'[m] = "none" /\ failed' = TRUE
  BY <1>3 DEF Again
<1>4. CASE Arrives(m)
  BY <1>1, <1>2, <1>4 DEF Arrives
<1>5. CASE Land(m) /\ UNCHANGED raced
  <2>1. part[m] = File(want)[m]  BY <1>5 DEF Land, RunInv
  <2> QED  BY <1>1, <1>2, <1>5, <2>1 DEF Land
<1>6. CASE (Mixed(m) \/ Breaks(m) \/ LandFails(m)) /\ UNCHANGED raced
  <2>1. Again(m) /\ UNCHANGED <<mods, stamp>>  BY <1>6 DEF Mixed, Breaks, LandFails
  <2>2. \A n \in Mod \ {m} : part'[n] = part[n]  BY <1>6 DEF Mixed, Breaks, LandFails
  <2> QED  BY <1>1, <1>2, <1>3, <1>6, <2>1, <2>2
<1>7. CASE Remember(m) /\ UNCHANGED raced
  <2>1. PICK fresh \in {TRUE, mods[m] = File(want)[m]} :
          stamp' = [stamp EXCEPT ![m] = [hash |-> File(want)[m], fresh |-> fresh]]
    BY <1>7 DEF Remember, Stamps
  <2>2. stamp'[m].hash = File(want)[m] /\ \A n \in Mod \ {m} : stamp'[n] = stamp[n]  BY <2>1
  <2>3. job[m] = "stamp" /\ job' = [job EXCEPT ![m] = "none"] /\ UNCHANGED <<mods, part, failed>>
    BY <1>7 DEF Remember
  <2> QED  BY <1>1, <1>2, <1>7, <2>2, <2>3
<1>8. CASE RememberFails(m) /\ UNCHANGED raced
  BY <1>1, <1>2, <1>8 DEF RememberFails
<1> QED  BY <1>4, <1>5, <1>6, <1>7, <1>8 DEF FileStep

LEMMA RunStep == TypeOK /\ RunInv /\ [Next]_vars => RunInv'
<1> SUFFICES ASSUME TypeOK, RunInv, [Next]_vars PROVE RunInv'
  OBVIOUS
<1> USE RunFacts
<1>1. NoJob' = NoJob /\ \A m \in Mod : NoJob[m] = "none"  BY DEF NoJob
<1>2. CASE Start
  BY <1>1, <1>2 DEF Start, RunInv, personalVars
<1>3. CASE Check
  <2>1. /\ pc = "check" /\ pc' = "fetch" /\ managed # Torn
        /\ UNCHANGED <<want, part, managed, obsolete, user, copied>>
    BY <1>3 DEF Check, othersVars, personalVars
  <2>2. PICK bundled \in {{}, {m \in DOMAIN File(want) : ~Matches(m)} \cap Pack[want].bundle} :
          /\ job' = [m \in Mod |-> IF m \in bundled THEN "bundle"
                                   ELSE IF m \in {n \in DOMAIN File(want) : ~Matches(n)} THEN "fetch" ELSE "none"]
          /\ bundle' = IF bundled = {} THEN "none" ELSE "open"
    BY <1>3, Zenon DEF Check
  <2>3. /\ \A m \in Mod : job'[m] # "none" => m \in DOMAIN File(want)
        /\ \A m \in Mod : job'[m] # "land"
        /\ bundle' # "open" => \A m \in Mod : job'[m] \notin {"bundle", "commit"}
    BY <2>2
  <2> QED  BY <2>1, <2>3 DEF RunInv
<1>4. CASE CheckFails \/ FetchFails \/ Played
  <2>1. pc # "personal" /\ UNCHANGED <<want, user>> /\ Abandon
    BY <1>4 DEF CheckFails, FetchFails, Played, Settled, personalVars
  <2> QED  BY <2>1, AbandonRun
<1>5. CASE JarGone \/ CopyFails \/ Crash
  BY <1>5, AbandonRun DEF JarGone, CopyFails, PersonalFails, Crash
<1>6. CASE Download
  <2>1. PICK m \in Mod : FileStep(m)  BY <1>6, DownloadStep
  <2>2. UNCHANGED <<want, pc, managed, bundle, obsolete, user, copied>>
    BY <1>6, DownloadStep
  <2>3. /\ pc = "fetch" /\ m \in DOMAIN File(want)
        /\ \A n \in Mod \ {m} : job'[n] = job[n] /\ part'[n] = part[n]
        /\ job'[m] \in {"land", "stamp", "fetch", "none"} /\ (job'[m] = "land" => part'[m] = File(want)[m])
    BY <2>1, FileStepEffect
  <2> QED  BY <2>2, <2>3 DEF RunInv
<1>7. CASE BundleLands \/ BundleCommits
  <2>1. UNCHANGED <<want, pc, part, managed, bundle, obsolete, user, copied>> /\ bundle = "open"
    BY <1>7 DEF BundleLands, BundleCommits, othersVars, personalVars
  <2>2. PICK m \in Mod, k \in {"commit", "rest"} : job[m] \in {"bundle", "commit"} /\ job' = [job EXCEPT ![m] = k]
    BY <1>7 DEF BundleLands, BundleCommits
  <2> QED  BY <2>1, <2>2 DEF RunInv
<1>8. CASE BundleSettles
  <2>1. /\ UNCHANGED <<want, pc, part, managed, obsolete, user, copied>>
        /\ bundle = "open" /\ bundle' = "settled"
    BY <1>8 DEF BundleSettles, othersVars, personalVars
  <2>2. \A m \in Mod : \/ job[m] \in {"bundle", "commit", "rest"} /\ job'[m] \in {"none", "rest"}
                       \/ job[m] \notin {"bundle", "commit", "rest"} /\ job'[m] = job[m]
    BY <1>8 DEF BundleSettles
  <2> QED  BY <2>1, <2>2 DEF RunInv
<1>9. CASE Rest
  <2>1. UNCHANGED <<want, pc, part, managed, bundle, obsolete, user, copied>> /\ pc = "fetch" /\ bundle # "open"
    BY <1>9 DEF Rest, Settled, othersVars, personalVars
  <2>2. \A m \in Mod : (job[m] = "rest" /\ job'[m] = "fetch") \/ job'[m] = "none"
    BY <1>9 DEF Rest
  <2> QED  BY <2>1, <2>2 DEF RunInv
<1>10. CASE Fetched
  <2>1. /\ UNCHANGED <<want, part, managed, job, bundle, user, copied>> /\ pc = "fetch" /\ pc' = "obsolete"
        /\ bundle # "open" /\ obsolete' = managed \ DOMAIN File(want) /\ \A m \in Mod : job[m] = "none"
    BY <1>10 DEF Fetched, Settled, othersVars, personalVars
  <2>2. job = NoJob  BY <2>1 DEF NoJob
  <2> QED  BY <1>1, <2>1, <2>2 DEF RunInv
<1>11. CASE Remove
  <2>1. PICK m \in obsolete : part' = [part EXCEPT ![m] = Absent] /\ obsolete' = obsolete \ {m}
    BY <1>11 DEF Remove
  <2>2. UNCHANGED <<want, pc, managed, job, bundle, user, copied>> /\ pc = "obsolete"
    BY <1>11 DEF Remove, othersVars, personalVars
  <2>3. \A n \in Mod : job[n] = "none"  BY <1>1, <2>2 DEF RunInv
  <2> QED  BY <1>1, <2>1, <2>2, <2>3 DEF RunInv
<1>12. CASE ListOpens \/ ListWritten \/ Finish \/ Options
  <2>1. /\ UNCHANGED <<want, part, job, bundle, obsolete, user, copied>> /\ pc # "personal"
        /\ pc \notin {"fetch"} /\ pc' \in {"list", "defaults", "options", "personal"}
        /\ (pc = "obsolete" => obsolete = {})
    BY <1>12 DEF ListOpens, ListWritten, Finish, Options, othersVars, personalVars
  <2> QED  BY <1>1, <2>1 DEF RunInv
<1>13. CASE Personal
  <2>1. UNCHANGED <<want, part, managed, job, bundle, obsolete>> /\ pc = "personal" /\ pc' \in {"personal", "done"}
    BY <1>13 DEF Personal
  <2>2. \/ pc' = pc /\ (Collect \/ TakeOut(want) \/ Admit(want) \/ CopyIn \/ CopiedOpens)
        \/ CopiedWritten
    BY <1>13 DEF Personal
  <2>3. /\ (pc' = "done" => user'.pc = "none")
        /\ user'.pc \in {"none", "in", "list"} => user'.out = {}
        /\ user'.pc \notin {"in", "list"} => user'.in = {}
        /\ user'.pc = "list" => copied' = {}
        /\ user'.left \subseteq user'.in /\ (user'.pc = "list" => user'.left = {})
    <3>1. /\ user.pc \in {"none", "in", "list"} => user.out = {}
          /\ user.pc \notin {"in", "list"} => user.in = {}
          /\ user.pc = "list" => copied = {}
          /\ user.left \subseteq user.in /\ (user.pc = "list" => user.left = {})
      BY DEF RunInv
    <3>2. CASE Collect /\ pc' = pc
      <4>1. user'.pc = "out" /\ user'.in = {} /\ user'.left = {}
        BY <3>2, Zenon DEF Collect, NoUser
      <4> QED  BY <2>1, <3>2, <4>1
    <3>3. CASE TakeOut(want) /\ pc' = pc
      <4>1. user.pc = "out" /\ user'.pc = "out" /\ user'.in = user.in /\ user'.left = user.left
        BY <3>3 DEF TakeOut
      <4> QED  BY <2>1, <3>1, <3>3, <4>1
    <3>4. CASE Admit(want) /\ pc' = pc
      <4>1. user'.pc = "in" /\ user'.in = user'.left /\ user'.out = user.out /\ user.out = {}
        BY <3>4 DEF Admit, Admitted
      <4> QED  BY <2>1, <3>1, <3>4, <4>1
    <3>5. CASE CopyIn /\ pc' = pc
      <4>1. user.pc = "in" /\ user'.pc = "in" /\ user'.in = user.in /\ user'.left \subseteq user.left
            /\ user'.out = user.out
        BY <3>5 DEF CopyIn
      <4> QED  BY <2>1, <3>1, <3>5, <4>1
    <3>6. CASE CopiedOpens /\ pc' = pc
      <4>1. user.pc = "in" /\ user'.pc = "list" /\ user'.in = user.in /\ user'.left = {} /\ user.left = {}
            /\ user'.out = user.out /\ copied' = {}
        BY <3>6 DEF CopiedOpens
      <4> QED  BY <2>1, <3>1, <3>6, <4>1
    <3>7. CASE CopiedWritten
      <4>1. user' = NoUser  BY <3>7 DEF CopiedWritten
      <4> QED  BY <4>1 DEF NoUser
    <3> QED  BY <2>2, <3>2, <3>3, <3>4, <3>5, <3>6, <3>7
  <2> QED  BY <1>1, <2>1, <2>3 DEF RunInv
<1>14. CASE Defaults \/ Capture \/ CaptureFails \/ Publish \/ Change \/ UNCHANGED vars
  <2>1. UNCHANGED <<want, pc, part, managed, job, bundle, obsolete, user, copied>>
    BY <1>14 DEF Defaults, Capture, CaptureFails, Publish, Change, syncVars, othersVars, personalVars, vars,
       FolderChanges
  <2> QED  BY <1>1, <2>1 DEF RunInv
<1> QED
  BY <1>2, <1>3, <1>4, <1>5, <1>6, <1>7, <1>8, <1>9, <1>10, <1>11, <1>12, <1>13, <1>14 DEF Next, Launcher

\* Personal, one name at a time.
LEMMA PersonalStamp ==
  ASSUME TypeOK, Personal, NEW m \in Mod
  PROVE  mods'[m] # mods[m] => ~stamp'[m].fresh
<1>1. stamp'[m] = IF mods'[m] = mods[m] THEN stamp[m] ELSE [stamp[m] EXCEPT !.fresh = FALSE]
  BY DEF Personal
<1>2. stamp[m] \in [hash : Pinned \cup Jar \cup {Own, Absent}, fresh : BOOLEAN]  BY RunFacts
<1> QED  BY <1>1, <1>2

LEMMA HashRead ==
  ASSUME TypeOK, StampInv, NEW m \in Mod \ raced
  PROVE  Hash(m) = mods[m]
BY DEF Hash, StampInv

\* A hash was kept for some files, and none of them is on its way.
LEMMA StampedStamp ==
  ASSUME TypeOK, StampInv, NEW S \in SUBSET Mod, stamp' = Stamped(S), UNCHANGED <<mods, want, raced>>,
         \A m \in Mod : \/ job'[m] = job[m] /\ m \notin S
                        \/ job'[m] \notin {"land", "stamp", "commit"}
  PROVE  StampInv'
<1> SUFFICES ASSUME NEW m \in Mod \ raced
             PROVE  /\ stamp'[m].fresh => mods[m] \in {Absent, stamp'[m].hash}
                    /\ job'[m] \in {"stamp", "commit"} => mods[m] \in {Absent, File(want)[m]}
                    /\ job'[m] = "land" => ~stamp'[m].fresh
  BY DEF StampInv, Here
<1>1. /\ stamp[m].fresh => mods[m] \in {Absent, stamp[m].hash}
      /\ job[m] \in {"stamp", "commit"} => mods[m] \in {Absent, File(want)[m]}
      /\ job[m] = "land" => ~stamp[m].fresh
  BY DEF StampInv, Here
<1>2. Hash(m) = mods[m]  BY HashRead
<1>3. \/ stamp'[m] = stamp[m]
      \/ stamp'[m] = [hash |-> Hash(m), fresh |-> TRUE] /\ m \in S
  BY DEF Stamped
<1> QED  BY <1>1, <1>2, <1>3

LEMMA StampStep == TypeOK /\ RunInv /\ StampInv /\ [Next]_vars => StampInv'
<1> SUFFICES ASSUME TypeOK, RunInv, StampInv, [Next]_vars PROVE StampInv'
  OBVIOUS
<1> USE RunFacts
<1> DEFINE Good(m) == /\ stamp'[m].fresh => mods'[m] \in {Absent, stamp'[m].hash}
                      /\ job'[m] \in {"stamp", "commit"} => mods'[m] \in {Absent, File(want')[m]}
                      /\ job'[m] = "land" => ~stamp'[m].fresh
<1>1. ASSUME \A m \in Mod : m \notin raced' => Good(m) PROVE StampInv'
  BY <1>1 DEF StampInv, Here
<1>2. \A m \in Mod : m \notin raced =>
        /\ stamp[m].fresh => mods[m] \in {Absent, stamp[m].hash}
        /\ job[m] \in {"stamp", "commit"} => mods[m] \in {Absent, File(want)[m]}
        /\ job[m] = "land" => ~stamp[m].fresh
  BY DEF StampInv, Here
<1>3. \A m \in Mod : NoJob[m] = "none"  BY DEF NoJob
<1>4. CASE Check
  <2>1. /\ stamp' = Stamped(DOMAIN File(want)) /\ UNCHANGED <<mods, want, raced>>
        /\ \A m \in Mod : job'[m] \in {"bundle", "fetch", "none"}
    BY <1>4 DEF Check
  <2> QED  BY <2>1, StampedStamp
<1>5. CASE BundleSettles
  <2>1. stamp' = Stamped({m \in Mod : job[m] \in {"bundle", "commit", "rest"}}) /\ UNCHANGED <<mods, want, raced>>
    BY <1>5 DEF BundleSettles
  <2>2. \A m \in Mod : IF job[m] \in {"bundle", "commit", "rest"} THEN job'[m] \in {"none", "rest"} ELSE job'[m] = job[m]
    BY <1>5 DEF BundleSettles
  <2> QED  BY <2>1, <2>2, StampedStamp
<1>6. CASE Download
  <2>1. PICK n \in Mod : FileStep(n)  BY <1>6, DownloadStep
  <2>2. want' = want  BY <1>6, DownloadStep
  <2>3. ASSUME NEW m \in Mod, m \notin raced', m # n PROVE Good(m)
    <3>1. mods'[m] = mods[m] /\ stamp'[m] = stamp[m] /\ job'[m] = job[m] /\ m \notin raced
      BY <2>1, <2>3, FileStepEffect
    <3> QED  BY <1>2, <2>2, <3>1
  <2>4. ASSUME n \notin raced' PROVE Good(n)
    <3>1. CASE job'[n] = "land" /\ mods'[n] = Absent /\ ~stamp'[n].fresh
      BY <3>1
    <3>2. CASE job[n] = "land" /\ job'[n] = "stamp" /\ mods'[n] = File(want)[n] /\ UNCHANGED <<stamp, raced>>
      BY <1>2, <2>2, <2>4, <3>2
    <3>3. CASE job[n] = "stamp" /\ job'[n] = "none" /\ UNCHANGED <<mods, raced>> /\ stamp'[n].hash = File(want)[n]
      BY <1>2, <2>4, <3>3
    <3>4. CASE job'[n] \in {"fetch", "none"} /\ UNCHANGED <<mods, stamp, raced>>
      BY <1>2, <2>4, <3>4
    <3> QED  BY <2>1, <3>1, <3>2, <3>3, <3>4, FileStepEffect
  <2> QED  BY <1>1, <2>3, <2>4
<1>7. CASE BundleLands
  <2>1. PICK n \in Mod : /\ mods' = [mods EXCEPT ![n] = File(want)[n]]
                         /\ job' = [job EXCEPT ![n] = "commit"] /\ raced' = raced \ {n}
                         /\ stamp' = [stamp EXCEPT ![n].fresh = FALSE]
    BY <1>7 DEF BundleLands
  <2>2. want' = want  BY <1>7 DEF BundleLands
  <2>3. ~stamp'[n].fresh /\ \A m \in Mod \ {n} : stamp'[m] = stamp[m]  BY <2>1
  <2> QED  BY <1>1, <1>2, <2>1, <2>2, <2>3
<1>8. CASE BundleCommits
  <2>1. PICK n \in Mod : job[n] = "commit" /\ Stamps(n) /\ job' = [job EXCEPT ![n] = "rest"]
    BY <1>8 DEF BundleCommits
  <2>2. UNCHANGED <<want, mods, raced>>  BY <1>8 DEF BundleCommits
  <2>3. PICK fresh \in {TRUE, mods[n] = File(want)[n]} :
          stamp' = [stamp EXCEPT ![n] = [hash |-> File(want)[n], fresh |-> fresh]]
    BY <2>1 DEF Stamps
  <2>4. stamp'[n].hash = File(want)[n] /\ \A m \in Mod \ {n} : stamp'[m] = stamp[m]  BY <2>3
  <2> QED  BY <1>1, <1>2, <2>1, <2>2, <2>4
<1>9. CASE Remove
  <2>1. PICK n \in obsolete : /\ mods' = [mods EXCEPT ![n] = Absent] /\ stamp' = [stamp EXCEPT ![n] = NoStamp]
                              /\ raced' = raced \ {n}
    BY <1>9 DEF Remove
  <2>2. UNCHANGED <<want, job>> /\ pc = "obsolete"  BY <1>9 DEF Remove
  <2>3. \A m \in Mod : job'[m] = "none"  BY <1>3, <2>2 DEF RunInv
  <2>4. ~stamp'[n].fresh /\ \A m \in Mod \ {n} : stamp'[m] = stamp[m]  BY <2>1 DEF NoStamp
  <2> QED  BY <1>1, <1>2, <2>1, <2>2, <2>3, <2>4
<1>10. CASE Personal
  <2>1. UNCHANGED <<want, job>> /\ pc = "personal"  BY <1>10 DEF Personal
  <2>2. \A m \in Mod : job'[m] = "none"  BY <1>3, <2>1 DEF RunInv
  <2>3. \A m \in Mod : \/ mods'[m] = mods[m] /\ stamp'[m] = stamp[m] /\ (m \in raced => m \in raced')
                       \/ ~stamp'[m].fresh
    BY <1>10, PersonalStamp DEF Personal
  <2> QED  BY <1>1, <1>2, <2>1, <2>2, <2>3
<1>11. CASE Crash
  <2>1. UNCHANGED <<mods, want, raced>> /\ (stamp' = stamp \/ stamp' = [n \in Mod |-> NoStamp]) /\ job' = NoJob
    BY <1>11 DEF Crash, Abandon
  <2>2. \A m \in Mod : stamp'[m] = stamp[m] \/ ~stamp'[m].fresh  BY <2>1 DEF NoStamp
  <2> QED  BY <1>1, <1>2, <1>3, <2>1, <2>2
<1>12. CASE Change
  <2>1. UNCHANGED <<want, job>>  BY <1>12 DEF Change
  <2>2. CASE UNCHANGED <<mods, stamp, raced>>
    BY <1>1, <1>2, <2>1, <2>2
  <2>3. CASE ~UNCHANGED <<mods, stamp, raced>>
    <3>1. PICK n \in Mod, c \in {Own, Absent} :
            /\ mods' = [mods EXCEPT ![n] = c] /\ stamp' = [stamp EXCEPT ![n].fresh = FALSE]
            /\ raced' = IF c = Own /\ job[n] \in {"stamp", "commit"} THEN raced \cup {n} ELSE raced \ {n}
      BY <1>12, <2>3, NamesMod DEF Change, FolderChanges
    <3>2. ~stamp'[n].fresh /\ \A m \in Mod \ {n} : stamp'[m] = stamp[m] /\ mods'[m] = mods[m]
      BY <3>1
    <3> QED  BY <1>1, <1>2, <2>1, <3>1, <3>2
  <2> QED  BY <2>2, <2>3
<1>13. ASSUME UNCHANGED <<mods, stamp, raced>>, (UNCHANGED <<want, job>>) \/ \A m \in Mod : job'[m] \in {"none", "fetch"}
       PROVE  StampInv'
  BY <1>1, <1>2, <1>13
<1>14. CASE \/ Start \/ Rest \/ Fetched \/ FetchFails \/ ListOpens \/ ListWritten \/ Defaults \/ Finish \/ Options
            \/ JarGone \/ Played \/ CheckFails \/ CopyFails \/ Capture \/ CaptureFails \/ Publish \/ UNCHANGED vars
  <2>1. UNCHANGED <<mods, stamp, raced>>
    BY <1>14
    DEF Start, Rest, Fetched, FetchFails, ListOpens, ListWritten, Defaults, Finish, Options,
        JarGone, Played, CheckFails, CopyFails, PersonalFails, Capture, CaptureFails, Publish, othersVars, syncVars, vars
  <2>2. (UNCHANGED <<want, job>>) \/ \A m \in Mod : job'[m] \in {"none", "fetch"}
    <3>1. CASE Start
      <4>1. job' = NoJob  BY <3>1 DEF Start, RunInv
      <4> QED  BY <1>3, <4>1
    <3>2. CASE Rest
      <4>1. \A m \in Mod : job'[m] \in {"none", "fetch"}  BY <3>2 DEF Rest
      <4> QED  BY <4>1
    <3>3. CASE FetchFails \/ CheckFails \/ JarGone \/ CopyFails \/ Played
      <4>1. job' = NoJob  BY <3>3 DEF FetchFails, CheckFails, JarGone, CopyFails, PersonalFails, Played, Abandon
      <4> QED  BY <1>3, <4>1
    <3>4. CASE \/ Fetched \/ ListOpens \/ ListWritten \/ Defaults \/ Finish \/ Options
               \/ Capture \/ CaptureFails \/ Publish \/ UNCHANGED vars
      BY <3>4
      DEF Fetched, ListOpens, ListWritten, Defaults, Finish, Options, Capture, CaptureFails, Publish, syncVars, vars
    <3> QED  BY <1>14, <3>1, <3>2, <3>3, <3>4
  <2> QED  BY <1>13, <2>1, <2>2
<1> QED
  BY <1>4, <1>5, <1>6, <1>7, <1>8, <1>9, <1>10, <1>11, <1>12, <1>14 DEF Next, Launcher

LEMMA RacedStep == TypeOK /\ RunInv /\ RacedInv /\ [Next]_vars => RacedInv'
<1> SUFFICES ASSUME TypeOK, RunInv, RacedInv, [Next]_vars PROVE RacedInv'
  OBVIOUS
<1> USE RunFacts
<1>1. \A m \in raced : mods[m] = Own /\ job[m] # "land"  BY DEF RacedInv
<1>2. \A m \in Mod : NoJob[m] = "none"  BY DEF NoJob
<1>3. ASSUME raced' \subseteq raced, \A m \in raced' : mods'[m] = mods[m] /\ job'[m] \in {job[m], "none", "fetch", "rest", "bundle"}
      PROVE  RacedInv'
  BY <1>1, <1>3 DEF RacedInv
<1>4. CASE Download
  <2>1. PICK m \in Mod : FileStep(m)  BY <1>4, DownloadStep
  <2>2. \A n \in Mod \ {m} : job'[n] = job[n] /\ mods'[n] = mods[n] /\ (n \in raced' => n \in raced)
    BY <2>1, FileStepEffect
  <2>3. m \in raced' => m \in raced /\ mods'[m] = mods[m] /\ job'[m] \in {"none", "fetch"}
    <3>1. CASE Arrives(m)  BY <3>1 DEF Arrives
    <3>2. CASE Land(m) /\ UNCHANGED raced  BY <1>1, <3>2 DEF Land
    <3>3. CASE (Mixed(m) \/ Breaks(m) \/ LandFails(m) \/ Remember(m) \/ RememberFails(m)) /\ UNCHANGED raced
      BY <3>3 DEF Mixed, Breaks, LandFails, Remember, RememberFails, Again
    <3> QED  BY <2>1, <3>1, <3>2, <3>3 DEF FileStep
  <2>4. raced' \subseteq Mod  BY <2>1 DEF FileStep, Arrives
  <2> QED  BY <1>3, <2>2, <2>3, <2>4
<1>5. CASE Check \/ BundleLands \/ BundleCommits \/ BundleSettles \/ Rest
  BY <1>3, <1>5 DEF Check, BundleLands, BundleCommits, BundleSettles, Rest
<1>6. CASE Remove \/ Personal
  <2>1. job' = job  BY <1>6 DEF Remove, Personal
  <2>2. raced' \subseteq raced /\ \A m \in raced' : mods'[m] = mods[m]
    BY <1>6 DEF Remove, Personal
  <2> QED  BY <1>3, <2>1, <2>2
<1>7. CASE Change
  <2>1. job' = job  BY <1>7 DEF Change
  <2>2. CASE UNCHANGED <<mods, raced>>  BY <1>3, <2>1, <2>2
  <2>3. CASE ~UNCHANGED <<mods, raced>>
    <3>1. PICK n \in Mod, c \in {Own, Absent} :
            /\ mods' = [mods EXCEPT ![n] = c]
            /\ raced' = IF c = Own /\ job[n] \in {"stamp", "commit"} THEN raced \cup {n} ELSE raced \ {n}
      BY <1>7, <2>3, NamesMod DEF Change, FolderChanges
    <3> QED  BY <1>1, <2>1, <3>1 DEF RacedInv
  <2> QED  BY <2>2, <2>3
<1>8. CASE Start \/ FetchFails \/ CheckFails \/ JarGone \/ CopyFails \/ Played \/ Crash
  <2>1. UNCHANGED <<mods, raced>>
    BY <1>8 DEF Start, FetchFails, CheckFails, JarGone, CopyFails, PersonalFails, Played, Crash
  <2>2. job' = job \/ job' = NoJob
    BY <1>8 DEF Start, FetchFails, CheckFails, JarGone, CopyFails, PersonalFails, Played, Crash, Abandon
  <2> QED  BY <1>2, <1>3, <2>1, <2>2
<1>9. CASE \/ Fetched \/ ListOpens \/ ListWritten \/ Defaults \/ Finish \/ Options
           \/ Capture \/ CaptureFails \/ Publish \/ UNCHANGED vars
  <2>1. UNCHANGED <<mods, raced, job>>
    BY <1>9
    DEF Fetched, ListOpens, ListWritten, Defaults, Finish, Options, Capture, CaptureFails, Publish, othersVars, syncVars, vars
  <2> QED  BY <1>3, <2>1
<1> QED
  BY <1>4, <1>5, <1>6, <1>7, <1>8, <1>9 DEF Next, Launcher

-----------------------------------------------------------------------------
\* The files of the manifest.
LEMMA NoEntering ==
  ASSUME user.in = {}
  PROVE  Entering = {}
BY DEF Entering

\* The steps of the player's own mods.
LEMMA PinPersonal == TypeOK /\ RunInv /\ RacedInv /\ PinInv /\ Personal => PinInv'
<1> SUFFICES ASSUME TypeOK, RunInv, RacedInv, PinInv, Personal PROVE PinInv'
  OBVIOUS
<1> USE RunFacts
<1>1. /\ pc = "personal" /\ UNCHANGED <<want, changed>> /\ Apart' \subseteq Apart
      /\ \A m \in Mod : mods'[m] = mods[m] => (m \in Apart' <=> m \in Apart)
  BY DEF Personal, Apart
<1>2. /\ user.pc = "none" => \A m \in DOMAIN File(want) \ Apart : mods[m] = File(want)[m]
      /\ user.pc # "none" => \A m \in DOMAIN File(want) \ (Apart \cup displaced) : mods[m] = File(want)[m]
      /\ Entering \cap DOMAIN File(want) \subseteq changed \cup displaced
      /\ user.pc \notin {"in", "list"} => user.in = {}
  BY <1>1 DEF PinInv, Here, RunInv
<1>3. ASSUME pc' \in {"personal", "done"}, user'.pc # "none" \/ pc' = "done",
             \A m \in DOMAIN File(want) \ (Apart' \cup displaced') : mods'[m] = File(want)[m],
             Entering' \cap DOMAIN File(want) \subseteq changed \cup displaced'
      PROVE  PinInv'
  BY <1>1, <1>3 DEF PinInv, Here
<1>4. CASE Collect /\ pc' = pc
  <2>1. user'.pc = "out" /\ user'.in = {} /\ user.pc = "none" /\ mods' = mods
    BY <1>4, Zenon DEF Collect, NoUser
  <2>2. Entering' = {}  BY <2>1 DEF Entering
  <2> QED  BY <1>1, <1>2, <1>3, <1>4, <2>1, <2>2
<1>5. CASE TakeOut(want) /\ pc' = pc
  <2>1. PICK m \in user.out : /\ mods' = [mods EXCEPT ![m] = Absent] /\ user' = [user EXCEPT !.out = @ \ {m}]
                              /\ displaced' = displaced \cup ({m} \cap DOMAIN File(want)) /\ user.pc = "out"
    BY <1>5 DEF TakeOut
  <2>2. user'.pc = "out" /\ user'.in = user.in /\ user.in = {}  BY <1>2, <2>1
  <2>3. Entering' = {}  BY <2>2 DEF Entering
  <2>4. \A n \in DOMAIN File(want) \ (Apart' \cup displaced') : mods'[n] = File(want)[n]
    <3> SUFFICES ASSUME NEW n \in DOMAIN File(want), n \notin Apart', n \notin displaced'
                 PROVE  mods'[n] = File(want)[n]
      OBVIOUS
    <3>1. n # m /\ n \notin displaced  BY <2>1
    <3>2. mods'[n] = mods[n]  BY <2>1, <3>1
    <3>3. n \notin Apart  BY <1>1, <3>2
    <3> QED  BY <1>2, <2>1, <3>1, <3>2, <3>3
  <2> QED  BY <1>1, <1>3, <1>5, <2>2, <2>3, <2>4
<1>6. CASE Admit(want) /\ pc' = pc
  <2>1. PICK in \in SUBSET Candidates(want) : user' = [user EXCEPT !.pc = "in", !.in = in, !.left = in]
    BY <1>6 DEF Admit, Admitted
  <2>2. user'.pc = "in" /\ user'.in = in /\ user.pc = "out" /\ UNCHANGED <<mods, displaced>>
    BY <1>6, <2>1 DEF Admit
  <2>3. \A j \in in : mods[JarName[j]] = Absent  BY DEF Candidates
  <2>4. \A m \in DOMAIN File(want) : File(want)[m] # Absent  BY PinnedFile
  <2>5. Entering' \cap DOMAIN File(want) \subseteq changed \cup displaced'
    <3> SUFFICES ASSUME NEW j \in in, JarName[j] \in DOMAIN File(want)
                 PROVE  JarName[j] \in changed \cup displaced
      BY <2>2 DEF Entering
    <3>1. JarName[j] \in Apart \cup displaced  BY <1>2, <2>2, <2>3, <2>4
    <3>2. JarName[j] \notin raced  BY <2>3, DefaultsAssumption DEF RacedInv
    <3> QED  BY <3>1, <3>2 DEF Apart
  <2> QED  BY <1>1, <1>2, <1>3, <1>6, <2>2, <2>5
<1>7. CASE CopyIn /\ pc' = pc
  <2>1. PICK j \in user.left : mods' = [mods EXCEPT ![JarName[j]] = j] /\ user' = [user EXCEPT !.left = @ \ {j}]
    BY <1>7 DEF CopyIn
  <2>2. user.pc = "in" /\ user'.pc = "in" /\ user'.in = user.in /\ displaced' = displaced
    BY <1>7, <2>1 DEF CopyIn
  <2>3. JarName[j] \in Entering  BY <2>1 DEF Entering, RunInv
  <2>4. Entering' = Entering  BY <2>2 DEF Entering
  <2>5. \A n \in DOMAIN File(want) \ (Apart' \cup displaced') : mods'[n] = File(want)[n]
    <3> SUFFICES ASSUME NEW n \in DOMAIN File(want), n \notin Apart', n \notin displaced'
                 PROVE  mods'[n] = File(want)[n]
      OBVIOUS
    <3>1. n \notin changed  BY <1>1 DEF Apart
    <3>2. n # JarName[j]  BY <1>2, <2>2, <2>3, <3>1
    <3>3. mods'[n] = mods[n]  BY <2>1, <3>2
    <3>4. n \notin Apart  BY <1>1, <3>3
    <3> QED  BY <1>2, <2>2, <3>3, <3>4
  <2> QED  BY <1>1, <1>2, <1>3, <1>7, <2>2, <2>4, <2>5
<1>8. CASE CopiedOpens /\ pc' = pc
  <2>1. user.pc = "in" /\ user'.pc = "list" /\ user'.in = user.in /\ UNCHANGED <<mods, displaced>>
    BY <1>8 DEF CopiedOpens
  <2>2. Entering' = Entering  BY <2>1 DEF Entering
  <2> QED  BY <1>1, <1>2, <1>3, <1>8, <2>1, <2>2
<1>9. CASE CopiedWritten /\ pc' = "done"
  <2>1. user.pc = "list" /\ user'.in = {} /\ UNCHANGED <<mods, displaced>>
    BY <1>9 DEF CopiedWritten, NoUser
  <2>2. Entering' = {}  BY <2>1 DEF Entering
  <2> QED  BY <1>1, <1>2, <1>3, <1>9, <2>1, <2>2
<1> QED  BY <1>4, <1>5, <1>6, <1>7, <1>8, <1>9 DEF Personal

LEMMA PinStep == TypeOK /\ RunInv /\ StampInv /\ RacedInv /\ PinInv /\ [Next]_vars => PinInv'
<1> SUFFICES ASSUME TypeOK, RunInv, StampInv, RacedInv, PinInv, [Next]_vars PROVE PinInv'
  OBVIOUS
<1> USE RunFacts
<1>1. \A m \in Mod \ raced : Hash(m) = mods[m]  BY HashRead
<1>2. pc # "personal" => Entering = {} /\ user.pc = "none"
  BY NoEntering DEF RunInv
<1>4. ASSUME UNCHANGED user, pc # "personal", pc' \in {"check", "idle"} PROVE PinInv'
  BY <1>2, <1>4 DEF PinInv, Entering
<1>5. ASSUME user' = NoUser, pc' = "idle" PROVE PinInv'
  BY <1>5 DEF PinInv, Entering, NoUser
<1>6. CASE Start \/ CheckFails \/ FetchFails \/ Played
  <2>1. UNCHANGED user /\ pc # "personal" /\ pc' \in {"check", "idle"}
    BY <1>6 DEF Start, CheckFails, FetchFails, Played, Abandon, Settled, personalVars
  <2> QED  BY <1>4, <2>1
<1>7. CASE JarGone \/ CopyFails \/ Crash
  BY <1>5, <1>7 DEF JarGone, CopyFails, Crash, PersonalFails, Abandon
<1>8. ASSUME UNCHANGED <<want, user>>, pc = "fetch", pc' = "fetch",
             ~failed' => \A m \in DOMAIN File(want) \ Apart' : job'[m] = "none" => mods'[m] = File(want)[m]
      PROVE  PinInv'
  BY <1>2, <1>8 DEF PinInv, Here, Entering
<1>9. CASE Check
  <2>1. /\ pc = "check" /\ pc' = "fetch" /\ UNCHANGED <<want, user, mods, displaced, changed, raced>>
    BY <1>9 DEF Check, othersVars, personalVars
  <2>2. \A m \in DOMAIN File(want) : job'[m] = "none" => Matches(m)  BY <1>9 DEF Check
  <2> QED  BY <1>1, <1>2, <2>1, <2>2 DEF Matches, PinInv, Here, Entering, Apart
<1>10. CASE Download
  <2>1. PICK m \in Mod : FileStep(m)  BY <1>10, DownloadStep
  <2>2. UNCHANGED <<want, pc, changed, user>>  BY <1>10, DownloadStep
  <2>3. /\ pc = "fetch"
        /\ \A n \in Mod \ {m} : job'[n] = job[n] /\ mods'[n] = mods[n] /\ (n \in raced' <=> n \in raced)
        /\ \/ job'[m] # "none" /\ UNCHANGED failed
           \/ job'[m] = "none" /\ job[m] = "stamp" /\ UNCHANGED <<mods, raced, failed>>
           \/ failed' = TRUE
    BY <2>1, FileStepEffect
  <2>4. CASE failed' = TRUE
    BY <1>8, <2>2, <2>3, <2>4
  <2>5. CASE failed' # TRUE
    <3>1. job'[m] = "none" => m \in raced \/ Here(m)
      <4>1. job[m] = "stamp" /\ m \notin raced => mods[m] = Absent \/ Here(m)  BY DEF StampInv
      <4>2. Remember(m) => mods[m] # Absent  BY DEF Remember
      <4>3. job'[m] = "none" => Remember(m)
        BY <2>1, <2>5 DEF FileStep, Arrives, Mixed, Breaks, Land, LandFails, RememberFails, Again
      <4>4. job'[m] = "none" => job[m] = "stamp"  BY <2>3, <2>5
      <4> QED  BY <4>1, <4>2, <4>3, <4>4
    <3> QED  BY <1>8, <2>2, <2>3, <2>5, <3>1 DEF PinInv, Here, Apart
  <2> QED  BY <2>4, <2>5
<1>11. CASE BundleLands \/ BundleCommits
  <2>1. UNCHANGED <<want, pc, failed, changed, user>> /\ pc = "fetch"
    BY <1>11 DEF BundleLands, BundleCommits, othersVars, personalVars, RunInv
  <2>2. PICK m \in Mod :
          /\ \A n \in Mod \ {m} : job'[n] = job[n] /\ mods'[n] = mods[n] /\ (n \in raced' <=> n \in raced)
          /\ job'[m] # "none"
    BY <1>11 DEF BundleLands, BundleCommits
  <2> QED  BY <1>8, <2>1, <2>2 DEF PinInv, Here, Apart
<1>12. CASE BundleSettles
  <2>1. UNCHANGED <<want, pc, mods, failed, changed, raced, user>> /\ pc = "fetch"
    BY <1>12 DEF BundleSettles, othersVars, personalVars, RunInv
  <2>2. \A m \in Mod : job'[m] = "none" => job[m] = "none" \/ Matches(m)
    BY <1>12 DEF BundleSettles
  <2> QED  BY <1>1, <1>8, <2>1, <2>2 DEF PinInv, Here, Matches, Apart
<1>13. CASE Rest
  <2>1. UNCHANGED <<want, pc, mods, failed, changed, raced, user>> /\ pc = "fetch" /\ bundle # "open"
    BY <1>13 DEF Rest, Settled, othersVars, personalVars
  <2>2. \A m \in Mod : job'[m] = "none" => job[m] = "none"
    BY <1>13, <2>1 DEF Rest, Settled, RunInv
  <2> QED  BY <1>8, <2>1, <2>2 DEF PinInv, Here, Apart
<1>14. CASE Fetched
  <2>1. /\ UNCHANGED <<want, mods, changed, raced, user, displaced>> /\ pc = "fetch" /\ pc' = "obsolete"
        /\ ~failed /\ \A m \in Mod : job[m] = "none"
    BY <1>14 DEF Fetched, Settled, othersVars, personalVars
  <2> QED  BY <1>2, <2>1 DEF PinInv, Here, Entering, Apart
<1>15. CASE Remove
  <2>1. PICK m \in obsolete : mods' = [mods EXCEPT ![m] = Absent] /\ raced' = raced \ {m}
    BY <1>15 DEF Remove
  <2>2. UNCHANGED <<want, pc, changed, user, displaced>> /\ pc = "obsolete"
    BY <1>15 DEF Remove, othersVars, personalVars
  <2>3. m \notin DOMAIN File(want)  BY DEF RunInv
  <2> QED  BY <1>2, <2>1, <2>2, <2>3 DEF PinInv, Here, Entering, Apart
<1>16. CASE ListOpens \/ ListWritten \/ Finish \/ Options
  <2>1. /\ UNCHANGED <<want, mods, changed, raced, user, displaced>>
        /\ pc \in {"obsolete", "list", "defaults", "options"}
        /\ pc' \in {"obsolete", "list", "defaults", "options", "personal"}
    BY <1>16 DEF ListOpens, ListWritten, Finish, Options, othersVars, personalVars
  <2> QED  BY <1>2, <2>1 DEF PinInv, Here, Entering, Apart
<1>17. ASSUME UNCHANGED <<want, pc, job, failed, user, displaced>>, changed \subseteq changed', Apart \subseteq Apart',
              \A m \in Mod \ Apart' : mods'[m] = mods[m]
       PROVE  PinInv'
  <2>1. Entering' = Entering  BY <1>17 DEF Entering
  <2> QED  BY <1>17, <2>1 DEF PinInv, Here
<1>18. CASE Defaults \/ Capture \/ CaptureFails \/ Publish \/ UNCHANGED vars
  <2>1. UNCHANGED <<want, pc, job, failed, user, displaced, mods, changed, raced>>
    BY <1>18 DEF Defaults, Capture, CaptureFails, Publish, syncVars, othersVars, personalVars, vars
  <2> QED  BY <1>17, <2>1 DEF Apart
<1>19. CASE Change
  <2>1. UNCHANGED <<want, pc, job, failed, user, displaced>>
    BY <1>19 DEF Change, FolderChanges, PlayedElsewhere, othersVars, personalVars
  <2>2. \/ UNCHANGED <<mods, changed, raced>>
        \/ \E m \in Names, c \in {Own, Absent} : /\ mods' = [mods EXCEPT ![m] = c] /\ changed' = changed \cup {m}
                                                 /\ raced \subseteq raced' \cup {m}
    BY <1>19 DEF Change, FolderChanges
  <2> QED  BY <1>17, <2>1, <2>2 DEF Apart
<1> QED
  BY <1>6, <1>7, <1>9, <1>10, <1>11, <1>12, <1>13, <1>14, <1>15, <1>16, <1>18, <1>19, PinPersonal DEF Next, Launcher

-----------------------------------------------------------------------------
\* What is beside the files of the manifest.
LEMMA NoShare ==
  ASSUME NEW c, NEW d \in {Own, Absent}
  PROVE  ~Share(c, d)
<1>1. d \notin DOMAIN Provides  BY PersonalAssumption
<1> QED  BY <1>1 DEF Share, Ids

LEMMA JarApart == \A x \in Jar : x \notin Pinned \cup {Own, Absent}
BY PersonalAssumption

LEMMA OutsidePersonal ==
  ASSUME RunInv, pc # "personal"
  PROVE  user.pc = "none" /\ user.in = {} /\ Entering = {}
BY DEF RunInv, Entering

\* The lists of one step of a run: no file, no name and no list changes but by a rule.
LEMMA ListKept ==
  ASSUME TypeOK, ListInv, UNCHANGED <<want, managed, obsolete, user>>, pc' \in {pc, "idle"},
         \A m \in Mod : mods'[m] \in Pinned => mods[m] \in Pinned /\ (m \in unlisted => m \in unlisted'),
         UNCHANGED copied
  PROVE  ListInv'
<1> USE RunFacts
<1>1. \A m \in Mod : mods'[m] \in Pinned => mods[m] \in Pinned /\ (m \in unlisted => m \in unlisted')
  OBVIOUS
<1>2. managed = Torn \/ \A m \in Mod : mods'[m] \in Pinned => m \in managed \cup unlisted' \cup copied
  BY <1>1 DEF ListInv
<1>3. pc' = "obsolete" => \A m \in Mod : mods'[m] \in Pinned =>
                             m \in DOMAIN File(want) \cup obsolete \cup unlisted' \cup copied
  BY <1>1 DEF ListInv
<1>4. pc' \in {"list", "defaults", "options", "personal", "done"} =>
        \A m \in Mod : mods'[m] \in Pinned => m \in DOMAIN File(want) \cup unlisted' \cup copied
  BY <1>1 DEF ListInv
<1>5. pc' = "done" => \A m \in Mod : mods'[m] \in Pinned => m \in DOMAIN File(want) \cup unlisted'
  BY <1>1 DEF ListInv
<1>6. user.pc # "none" => \A m \in Mod : mods'[m] \in Pinned =>
                             m \in DOMAIN File(want) \cup user.out \cup (unlisted' \ copied)
  BY <1>1 DEF ListInv
<1> QED  BY <1>2, <1>3, <1>4, <1>5, <1>6 DEF ListInv

LEMMA JarKept ==
  ASSUME TypeOK, JarInv, UNCHANGED <<want, user, copied>>,
         \A m \in Mod : \/ /\ mods'[m] = mods[m] /\ (m \in unlisted => m \in unlisted')
                           /\ (m \in changed' => m \in changed)
                        \/ mods'[m] \in {Own, Absent} /\ m \in changed',
         changed \subseteq changed',
         pc' \in {"check", "fetch", "obsolete", "list"} => pc \in {"check", "fetch", "obsolete", "list"},
         changed' \subseteq Mod
  PROVE  JarInv'
<1> USE RunFacts
<1>1. Entering' = Entering  BY DEF Entering
<1>2. \A m \in Mod : mods'[m] \in Jar => mods'[m] = mods[m] /\ (m \in unlisted => m \in unlisted')
  BY JarApart
<1>3. \A j \in user.in : JarName[j] \in Mod  BY PersonalAssumption
<1>4. Own \notin Pinned /\ Absent \notin Pinned /\ Own \notin Jar /\ Absent \notin Jar  BY PersonalAssumption
<1>5. \A m \in Mod : mods'[m] \in Jar => m \in copied \cup unlisted'  BY <1>2 DEF JarInv
<1>6. user.pc # "none" => \A m \in Mod : mods'[m] \in Jar => m \in user.out \cup Entering \cup (unlisted' \ copied)
  BY <1>2 DEF JarInv
<1>7. \A j \in user.in : mods'[JarName[j]] \notin Pinned  BY <1>3, <1>4 DEF JarInv
<1>8. \A j \in user.in : \A n \in Mod : n # JarName[j] => ~Share(j, mods'[n])
  BY NoShare DEF JarInv
<1>9. \A j \in user.in \ user.left : mods'[JarName[j]] = j \/ JarName[j] \in changed'
  BY <1>3 DEF JarInv
<1>10. \A j, k \in user.in : Share(j, k) => j = k  BY DEF JarInv
<1>11. pc' \in {"check", "fetch", "obsolete", "list"} => \A m \in changed' : mods'[m] \notin Jar
  <2> SUFFICES ASSUME pc' \in {"check", "fetch", "obsolete", "list"}, NEW m \in changed' PROVE mods'[m] \notin Jar
    OBVIOUS
  <2> QED  BY <1>4 DEF JarInv
<1> QED  BY <1>1, <1>5, <1>6, <1>7, <1>8, <1>9, <1>10, <1>11 DEF JarInv

\* The steps of the player's own mods.
LEMMA PersonalFrame ==
  ASSUME TypeOK, ListInv, Personal
  PROVE  /\ pc = "personal" /\ UNCHANGED <<want, managed, obsolete, changed>> /\ managed = DOMAIN File(want)
         /\ \/ /\ pc' = pc /\ (Collect \/ TakeOut(want) \/ Admit(want) \/ CopyIn \/ CopiedOpens)
               /\ unlisted' = (unlisted \ copied) \cup {m \in Entering \ copied' : mods'[m] \in Jar}
            \/ pc' = "done" /\ CopiedWritten /\ unlisted' = unlisted \ Entering
<1>1. pc = "personal" /\ UNCHANGED <<want, managed, obsolete, changed>>  BY DEF Personal
<1> QED  BY <1>1 DEF Personal, ListInv

LEMMA ListPersonal == TypeOK /\ RunInv /\ ListInv /\ JarInv /\ Personal => ListInv'
<1> SUFFICES ASSUME TypeOK, RunInv, ListInv, JarInv, Personal PROVE ListInv'
  OBVIOUS
<1> USE RunFacts
<1>1. pc = "personal" /\ UNCHANGED <<want, managed, obsolete, changed>> /\ managed = DOMAIN File(want)
  BY PersonalFrame
<1>2. \A m \in Mod : mods[m] \in Pinned => m \in DOMAIN File(want) \cup unlisted \cup copied
  BY <1>1 DEF ListInv
<1>3. user.pc # "none" => \A m \in Mod : mods[m] \in Pinned =>
                             m \in DOMAIN File(want) \cup user.out \cup (unlisted \ copied)
  BY DEF ListInv
<1>4. user.pc \in {"in", "list"} => user.out = {}  BY DEF RunInv
<1>5. ASSUME pc' = "personal",
             \A m \in Mod : mods'[m] \in Pinned => m \in DOMAIN File(want) \cup unlisted' \cup copied',
             user'.pc # "none" => \A m \in Mod : mods'[m] \in Pinned =>
                                     m \in DOMAIN File(want) \cup user'.out \cup (unlisted' \ copied')
      PROVE  ListInv'
  BY <1>1, <1>5 DEF ListInv
<1>6. CASE /\ pc' = pc /\ (Collect \/ TakeOut(want) \/ Admit(want) \/ CopyIn \/ CopiedOpens)
           /\ unlisted' = (unlisted \ copied) \cup {m \in Entering \ copied' : mods'[m] \in Jar}
  <2>1. unlisted \ copied \subseteq unlisted'  BY <1>6
  <2>2. CASE Collect
    <3>1. user'.out = copied /\ UNCHANGED <<mods, copied>>  BY <2>2, Zenon DEF Collect, NoUser
    <3> QED  BY <1>1, <1>2, <1>5, <1>6, <2>1, <3>1
  <2>3. CASE TakeOut(want)
    <3>1. PICK m \in user.out : mods' = [mods EXCEPT ![m] = Absent] /\ user' = [user EXCEPT !.out = @ \ {m}]
      BY <2>3 DEF TakeOut
    <3>2. user.pc = "out" /\ user'.out = user.out \ {m} /\ copied' = copied  BY <2>3, <3>1 DEF TakeOut
    <3>3. Absent \notin Pinned  BY PersonalAssumption
    <3>4. \A n \in Mod : mods'[n] \in Pinned => mods[n] \in Pinned /\ n # m  BY <3>1, <3>3
    <3> QED  BY <1>1, <1>2, <1>3, <1>5, <1>6, <2>1, <3>2, <3>4
  <2>4. CASE Admit(want)
    <3>1. user'.out = user.out /\ user.pc = "out" /\ UNCHANGED <<mods, copied>>
      BY <2>4 DEF Admit, Admitted
    <3> QED  BY <1>1, <1>2, <1>3, <1>5, <1>6, <2>1, <3>1
  <2>5. CASE CopyIn
    <3>1. PICK j \in user.left : mods' = [mods EXCEPT ![JarName[j]] = j] /\ user' = [user EXCEPT !.left = @ \ {j}]
      BY <2>5 DEF CopyIn
    <3>2. user.pc = "in" /\ user'.out = user.out /\ copied' = copied  BY <2>5, <3>1 DEF CopyIn
    <3>3. j \notin Pinned  BY JarApart
    <3>4. \A n \in Mod : mods'[n] \in Pinned => mods[n] \in Pinned  BY <3>1, <3>3
    <3> QED  BY <1>1, <1>2, <1>3, <1>5, <1>6, <2>1, <3>2, <3>4
  <2>6. CASE CopiedOpens
    <3>1. user.pc = "in" /\ user'.out = user.out /\ copied' = {} /\ mods' = mods
      BY <2>6 DEF CopiedOpens
    <3> QED  BY <1>1, <1>3, <1>4, <1>5, <1>6, <2>1, <3>1
  <2> QED  BY <1>6, <2>2, <2>3, <2>4, <2>5, <2>6
<1>7. CASE pc' = "done" /\ CopiedWritten /\ unlisted' = unlisted \ Entering
  <2>1. user.pc = "list" /\ copied' = Entering /\ user' = NoUser /\ mods' = mods  BY <1>7 DEF CopiedWritten
  <2>2. copied = {}  BY <2>1 DEF RunInv
  <2>3. \A m \in Entering : mods[m] \notin Pinned  BY DEF Entering, JarInv
  <2>4. \A m \in Mod : mods'[m] \in Pinned => m \in DOMAIN File(want) \cup unlisted'
    BY <1>3, <1>4, <1>7, <2>1, <2>2, <2>3
  <2>5. user'.pc = "none"  BY <2>1 DEF NoUser
  <2> QED  BY <1>1, <1>7, <2>1, <2>4, <2>5 DEF ListInv
<1> QED  BY <1>6, <1>7, PersonalFrame

LEMMA JarPersonal == TypeOK /\ RunInv /\ ListInv /\ JarInv /\ Personal => JarInv'
<1> SUFFICES ASSUME TypeOK, RunInv, ListInv, JarInv, Personal PROVE JarInv'
  OBVIOUS
<1> USE RunFacts
<1>1. pc = "personal" /\ UNCHANGED <<want, managed, obsolete, changed>> /\ pc' \in {"personal", "done"}
  BY PersonalFrame
<1>2. /\ \A m \in Mod : mods[m] \in Jar => m \in copied \cup unlisted
      /\ user.pc # "none" => \A m \in Mod : mods[m] \in Jar =>
                                m \in user.out \cup Entering \cup (unlisted \ copied)
      /\ \A j, k \in user.in : Share(j, k) => j = k
      /\ \A j \in user.in : mods[JarName[j]] \notin Pinned
      /\ \A j \in user.in : \A n \in Mod : n # JarName[j] => ~Share(j, mods[n])
      /\ \A j \in user.in \ user.left : mods[JarName[j]] = j \/ JarName[j] \in changed
  BY DEF JarInv
<1>3. /\ user.pc \in {"in", "list"} => user.out = {}
      /\ user.pc \notin {"in", "list"} => user.in = {}
      /\ user.left \subseteq user.in
  BY DEF RunInv
<1>4. \A j \in Jar : JarName[j] \in Mod  BY PersonalAssumption
<1>5. user.in = {} => Entering = {}  BY DEF Entering
<1>6. CASE /\ pc' = pc /\ (Collect \/ TakeOut(want) \/ Admit(want) \/ CopyIn \/ CopiedOpens)
           /\ unlisted' = (unlisted \ copied) \cup {m \in Entering \ copied' : mods'[m] \in Jar}
  <2>1. unlisted \ copied \subseteq unlisted' /\ \A m \in Entering \ copied' : mods'[m] \in Jar => m \in unlisted'
    BY <1>6
  <2>2. CASE Collect
    <3>1. user'.out = copied /\ user'.in = {} /\ UNCHANGED <<mods, copied>>  BY <2>2, Zenon DEF Collect, NoUser
    <3> QED  BY <1>1, <1>2, <1>6, <2>1, <3>1 DEF JarInv
  <2>3. CASE TakeOut(want)
    <3>1. PICK m \in user.out : mods' = [mods EXCEPT ![m] = Absent] /\ user' = [user EXCEPT !.out = @ \ {m}]
      BY <2>3 DEF TakeOut
    <3>2. user.pc = "out" /\ user'.out = user.out \ {m} /\ user'.in = {} /\ copied' = copied
      BY <1>3, <2>3, <3>1 DEF TakeOut
    <3>3. Absent \notin Jar  BY PersonalAssumption
    <3>4. \A n \in Mod : mods'[n] \in Jar => mods[n] \in Jar /\ n # m  BY <3>1, <3>3
    <3> QED  BY <1>1, <1>2, <1>3, <1>5, <1>6, <2>1, <3>2, <3>4 DEF JarInv
  <2>4. CASE Admit(want)
    <3>1. PICK in \in SUBSET Candidates(want) :
            (\A j, k \in in : Share(j, k) => j = k) /\ user' = [user EXCEPT !.pc = "in", !.in = in, !.left = in]
      BY <2>4 DEF Admit, Admitted
    <3>2. user'.in = in /\ user'.left = in /\ user.pc = "out" /\ user.out = {} /\ user'.out = {}
          /\ UNCHANGED <<mods, copied>>
      BY <2>4, <3>1 DEF Admit
    <3>3. \A j \in in : mods[JarName[j]] = Absent /\ \A m \in Mod : ~Share(j, mods[m])
      BY DEF Candidates
    <3>4. Absent \notin Pinned  BY PersonalAssumption
    <3>5. \A m \in Mod : mods'[m] \in Jar => m \in copied' \cup unlisted'  BY <1>2, <2>1, <3>2
    <3>6. \A m \in Mod : mods'[m] \in Jar => m \in unlisted' \ copied'
      BY <1>2, <1>3, <1>5, <2>1, <3>2
    <3> QED  BY <1>1, <1>6, <3>1, <3>2, <3>3, <3>4, <3>5, <3>6 DEF JarInv
  <2>5. CASE CopyIn
    <3>1. PICK j \in user.left : mods' = [mods EXCEPT ![JarName[j]] = j] /\ user' = [user EXCEPT !.left = @ \ {j}]
      BY <2>5 DEF CopyIn
    <3>2. user.pc = "in" /\ user'.out = user.out /\ user'.in = user.in /\ user'.left = user.left \ {j}
          /\ copied' = copied /\ Entering' = Entering
      BY <2>5, <3>1 DEF CopyIn, Entering
    <3>3. j \notin Pinned /\ j \in user.in /\ j \in Jar /\ JarName[j] \in Mod /\ JarName[j] \in Entering
      BY <1>3, <1>4, JarApart DEF Entering
    <3>4. mods'[JarName[j]] = j /\ \A n \in Mod : n # JarName[j] => mods'[n] = mods[n]
      BY <3>1, <3>3
    <3>5. \A k \in user.in : JarName[k] = JarName[j] => k = j  BY <3>3, PersonalAssumption
    <3>6. \A m \in Mod : mods'[m] \in Jar => m \in copied' \cup unlisted'
      BY <1>2, <2>1, <3>2, <3>3, <3>4
    <3>7. \A m \in Mod : mods'[m] \in Jar => m \in user'.out \cup Entering' \cup (unlisted' \ copied')
      BY <1>2, <2>1, <3>2, <3>3, <3>4
    <3>8. \A k \in user'.in : mods'[JarName[k]] \notin Pinned
      BY <1>2, <1>4, <3>2, <3>3, <3>4
    <3>9. \A k \in user'.in : \A n \in Mod : n # JarName[k] => ~Share(k, mods'[n])
      BY <1>2, <3>2, <3>3, <3>4
    <3>10. \A k \in user'.in \ user'.left : mods'[JarName[k]] = k \/ JarName[k] \in changed'
      BY <1>1, <1>2, <1>4, <3>2, <3>4, <3>5
    <3> QED  BY <1>1, <1>2, <1>6, <3>2, <3>6, <3>7, <3>8, <3>9, <3>10 DEF JarInv
  <2>6. CASE CopiedOpens
    <3>1. user.pc = "in" /\ user'.out = user.out /\ user'.in = user.in /\ user'.left = user.left
          /\ copied' = {} /\ mods' = mods /\ Entering' = Entering
      BY <2>6 DEF CopiedOpens, Entering
    <3>2. \A m \in Mod : mods'[m] \in Jar => m \in unlisted'
      BY <1>2, <1>3, <2>1, <3>1
    <3> QED  BY <1>1, <1>2, <1>6, <3>1, <3>2 DEF JarInv
  <2> QED  BY <1>6, <2>2, <2>3, <2>4, <2>5, <2>6
<1>7. CASE pc' = "done" /\ CopiedWritten /\ unlisted' = unlisted \ Entering
  <2>1. user.pc = "list" /\ copied' = Entering /\ user'.in = {} /\ user'.pc = "none" /\ mods' = mods
    BY <1>7 DEF CopiedWritten, NoUser
  <2>2. \A m \in Mod : mods'[m] \in Jar => m \in copied' \cup unlisted'
    BY <1>2, <1>3, <1>7, <2>1
  <2> QED  BY <1>1, <1>7, <2>1, <2>2 DEF JarInv
<1> QED  BY <1>6, <1>7, PersonalFrame

\* The steps that are neither the player's mods nor a change by others, for the lists.
LEMMA ListStep == TypeOK /\ RunInv /\ ListInv /\ JarInv /\ [Next]_vars => ListInv'
<1> SUFFICES ASSUME TypeOK, RunInv, ListInv, JarInv, [Next]_vars PROVE ListInv'
  OBVIOUS
<1> USE RunFacts
<1>1. Absent \notin Pinned /\ Own \notin Pinned  BY PersonalAssumption
<1>2. pc # "personal" => user.pc = "none"  BY DEF RunInv
<1>3. managed = Torn \/ \A m \in Mod : mods[m] \in Pinned => m \in managed \cup unlisted \cup copied
  BY DEF ListInv
<1>4. ASSUME UNCHANGED <<mods, managed, unlisted, copied>>, user'.pc = "none", pc' \in {"idle", "check", "fetch"}
      PROVE  ListInv'
  BY <1>3, <1>4 DEF ListInv
<1>5. CASE Start \/ Check \/ CheckFails \/ FetchFails \/ Played \/ BundleCommits \/ BundleSettles \/ Rest
  <2>1. UNCHANGED <<mods, managed, unlisted, copied, user>> /\ pc # "personal" /\ pc' \in {"idle", "check", "fetch"}
    BY <1>5 DEF Start, Check, CheckFails, FetchFails, Played, BundleCommits, BundleSettles, Rest, Abandon, Settled, othersVars,
       personalVars, RunInv
  <2> QED  BY <1>2, <1>4, <2>1
<1>6. CASE JarGone \/ CopyFails \/ Crash
  <2>1. UNCHANGED <<mods, managed, unlisted, copied>> /\ user'.pc = "none" /\ pc' = "idle"
    BY <1>6 DEF JarGone, CopyFails, Crash, PersonalFails, Abandon, NoUser
  <2> QED  BY <1>4, <2>1
<1>7. CASE Download \/ BundleLands
  <2>1. /\ UNCHANGED <<want, pc, managed, obsolete, user, copied>> /\ pc = "fetch" /\ unlisted' = unlisted \cup Landed
    <3>1. CASE Download  BY <3>1, DownloadStep, FileStepEffect
    <3>2. CASE BundleLands  BY <3>2 DEF BundleLands, othersVars, personalVars, RunInv
    <3> QED  BY <1>7, <3>1, <3>2
  <2>2. \A m \in Mod : mods'[m] = mods[m] \/ mods'[m] = Absent \/ mods'[m] = File(want)[m]
    <3>1. CASE Download
      <4>1. PICK m \in Mod : FileStep(m)  BY <3>1, DownloadStep
      <4>2. /\ \A n \in Mod \ {m} : mods'[n] = mods[n]
            /\ mods'[m] = Absent \/ mods'[m] = File(want)[m] \/ UNCHANGED mods
        BY <4>1, FileStepEffect
      <4> QED  BY <4>2
    <3>2. CASE BundleLands  BY <3>2 DEF BundleLands
    <3> QED  BY <1>7, <3>1, <3>2
  <2>3. managed # Torn  BY <2>1 DEF RunInv
  <2>4. \A m \in Mod : mods'[m] \in Pinned => m \in managed \cup unlisted' \cup copied
    BY <1>1, <1>3, <2>1, <2>2, <2>3 DEF Landed
  <2> QED  BY <1>2, <2>1, <2>4 DEF ListInv
<1>8. CASE Fetched
  <2>1. UNCHANGED <<want, mods, managed, unlisted, user, copied>> /\ pc = "fetch" /\ pc' = "obsolete"
        /\ obsolete' = managed \ DOMAIN File(want)
    BY <1>8 DEF Fetched, Settled, othersVars, personalVars
  <2>2. managed # Torn  BY <2>1 DEF RunInv
  <2> QED  BY <1>2, <1>3, <2>1, <2>2 DEF ListInv
<1>9. CASE Remove
  <2>1. PICK m \in obsolete : mods' = [mods EXCEPT ![m] = Absent] /\ obsolete' = obsolete \ {m}
                              /\ unlisted' = unlisted \ {m}
    BY <1>9 DEF Remove
  <2>2. UNCHANGED <<want, pc, managed, user, copied>> /\ pc = "obsolete"
    BY <1>9 DEF Remove, othersVars, personalVars
  <2>3. \A n \in Mod : mods'[n] \in Pinned => mods[n] \in Pinned /\ n # m  BY <1>1, <2>1
  <2>4. \A n \in Mod : mods[n] \in Pinned => n \in DOMAIN File(want) \cup obsolete \cup unlisted \cup copied
    BY <2>2 DEF ListInv
  <2> QED  BY <1>2, <1>3, <2>1, <2>2, <2>3, <2>4 DEF ListInv
<1>10. CASE ListOpens
  <2>1. UNCHANGED <<want, mods, unlisted, user, copied>> /\ pc = "obsolete" /\ pc' = "list" /\ obsolete = {}
        /\ managed' = Torn
    BY <1>10 DEF ListOpens, othersVars, personalVars
  <2> QED  BY <1>2, <2>1 DEF ListInv
<1>11. CASE ListWritten
  <2>1. UNCHANGED <<want, mods, user, copied>> /\ pc = "list" /\ pc' = "defaults"
        /\ managed' = DOMAIN File(want) /\ unlisted' = unlisted \ DOMAIN File(want)
    BY <1>11 DEF ListWritten, othersVars, personalVars
  <2> QED  BY <1>2, <2>1 DEF ListInv
<1>12. CASE Finish \/ Options
  <2>1. UNCHANGED <<want, mods, managed, unlisted, user, copied>> /\ pc \in {"defaults", "options"}
        /\ pc' \in {"options", "personal"}
    BY <1>12 DEF Finish, Options, othersVars, personalVars
  <2> QED  BY <1>2, <2>1 DEF ListInv
<1>13. CASE Defaults \/ Capture \/ CaptureFails \/ Publish \/ UNCHANGED vars
  <2>1. UNCHANGED <<want, pc, mods, managed, obsolete, unlisted, user, copied>>
    BY <1>13 DEF Defaults, Capture, CaptureFails, Publish, syncVars, othersVars, personalVars, vars
  <2> QED  BY <2>1, ListKept
<1>14. CASE Change
  <2>1. UNCHANGED <<want, pc, managed, obsolete, user, copied>>
    BY <1>14 DEF Change, FolderChanges, PlayedElsewhere, othersVars, personalVars
  <2>2. \/ UNCHANGED <<mods, unlisted>>
        \/ \E m \in Names, c \in {Own, Absent} : mods' = [mods EXCEPT ![m] = c] /\ unlisted' = unlisted \ {m}
    BY <1>14 DEF Change, FolderChanges
  <2>3. \A m \in Mod : mods'[m] \in Pinned => mods[m] \in Pinned /\ (m \in unlisted => m \in unlisted')
    BY <1>1, <2>2, NamesMod
  <2> QED  BY <2>1, <2>3, ListKept
<1> QED
  BY <1>5, <1>6, <1>7, <1>8, <1>9, <1>10, <1>11, <1>12, <1>13, <1>14, ListPersonal DEF Next, Launcher

LEMMA JarStep == TypeOK /\ RunInv /\ RacedInv /\ PinInv /\ ListInv /\ JarInv /\ [Next]_vars => JarInv'
<1> SUFFICES ASSUME TypeOK, RunInv, RacedInv, PinInv, ListInv, JarInv, [Next]_vars PROVE JarInv'
  OBVIOUS
<1> USE RunFacts
<1>1. Absent \notin Jar /\ Own \notin Jar /\ \A m \in DOMAIN File(want) : File(want)[m] \notin Jar
  BY PersonalAssumption, PinnedFile
<1>2. pc # "personal" => user.pc = "none" /\ user.in = {}  BY DEF RunInv
<1>3. /\ \A m \in Mod : mods[m] \in Jar => m \in copied \cup unlisted
      /\ pc \in {"check", "fetch", "obsolete", "list"} => \A m \in changed : mods[m] \notin Jar
  BY DEF JarInv
<1>4. ASSUME user'.pc = "none", user'.in = {},
             \A m \in Mod : mods'[m] \in Jar => m \in copied' \cup unlisted',
             pc' \in {"check", "fetch", "obsolete", "list"} => \A m \in changed' : mods'[m] \notin Jar
      PROVE  JarInv'
  BY <1>4 DEF JarInv
<1>5. CASE Start
  <2>1. UNCHANGED <<mods, unlisted, copied, user>> /\ pc = "idle" /\ changed' = {}
    BY <1>5 DEF Start, personalVars
  <2> QED  BY <1>2, <1>3, <1>4, <2>1
<1>6. CASE Check \/ BundleCommits \/ BundleSettles \/ Rest \/ Fetched \/ ListOpens
  <2>1. UNCHANGED <<mods, unlisted, copied, user, changed>> /\ pc \in {"check", "fetch", "obsolete"}
    BY <1>6 DEF Check, BundleCommits, BundleSettles, Rest, Fetched, ListOpens, Settled, othersVars, personalVars, RunInv
  <2> QED  BY <1>2, <1>3, <1>4, <2>1
<1>7. CASE CheckFails \/ FetchFails \/ Played \/ Finish \/ Options
  <2>1. UNCHANGED <<mods, unlisted, copied, user>> /\ pc # "personal" /\ pc' \in {"idle", "options", "personal"}
    BY <1>7 DEF CheckFails, FetchFails, Played, Finish, Options, Abandon, Settled, othersVars, personalVars
  <2> QED  BY <1>2, <1>3, <1>4, <2>1
<1>8. CASE JarGone \/ CopyFails \/ Crash
  <2>1. UNCHANGED <<mods, unlisted, copied>> /\ user'.pc = "none" /\ user'.in = {} /\ pc' = "idle"
    BY <1>8 DEF JarGone, CopyFails, Crash, PersonalFails, Abandon, NoUser
  <2> QED  BY <1>3, <1>4, <2>1
<1>9. CASE Download \/ BundleLands
  <2>1. UNCHANGED <<want, pc, user, copied, changed>> /\ pc = "fetch" /\ unlisted' = unlisted \cup Landed
    <3>1. CASE Download  BY <3>1, DownloadStep, FileStepEffect
    <3>2. CASE BundleLands  BY <3>2 DEF BundleLands, othersVars, personalVars, RunInv
    <3> QED  BY <1>9, <3>1, <3>2
  <2>2. \A m \in Mod : mods'[m] = mods[m] \/ mods'[m] \notin Jar
    <3>1. CASE Download
      <4>1. PICK m \in Mod : FileStep(m)  BY <3>1, DownloadStep
      <4>2. /\ \A n \in Mod \ {m} : mods'[n] = mods[n]
            /\ m \in DOMAIN File(want)
            /\ mods'[m] = Absent \/ mods'[m] = File(want)[m] \/ UNCHANGED mods
        BY <4>1, FileStepEffect
      <4> QED  BY <1>1, <4>2
    <3>2. CASE BundleLands
      <4>1. PICK m \in Mod : job[m] = "bundle" /\ mods' = [mods EXCEPT ![m] = File(want)[m]]
        BY <3>2 DEF BundleLands
      <4>2. m \in DOMAIN File(want)  BY <4>1 DEF RunInv
      <4> QED  BY <1>1, <4>1, <4>2
    <3> QED  BY <1>9, <3>1, <3>2
  <2>3. changed \subseteq Mod  BY DEF TypeOK, SyncTypeOK
  <2> QED  BY <1>2, <1>3, <1>4, <2>1, <2>2, <2>3
<1>10. CASE Remove
  <2>1. PICK m \in obsolete : mods' = [mods EXCEPT ![m] = Absent] /\ unlisted' = unlisted \ {m}
    BY <1>10 DEF Remove
  <2>2. UNCHANGED <<pc, user, copied, changed>> /\ pc = "obsolete"
    BY <1>10 DEF Remove, othersVars, personalVars
  <2>3. changed \subseteq Mod  BY DEF TypeOK, SyncTypeOK
  <2> QED  BY <1>1, <1>2, <1>3, <1>4, <2>1, <2>2, <2>3
<1>11. CASE ListWritten
  <2>1. UNCHANGED <<want, mods, user, copied>> /\ pc = "list" /\ pc' = "defaults"
        /\ unlisted' = unlisted \ DOMAIN File(want)
    BY <1>11 DEF ListWritten, othersVars, personalVars
  <2>2. \A m \in DOMAIN File(want) : mods[m] \notin Jar
    BY <1>1, <1>3, <2>1 DEF PinInv, Here, Apart, RacedInv
  <2> QED  BY <1>2, <1>3, <1>4, <2>1, <2>2
<1>12. CASE Defaults \/ Capture \/ CaptureFails \/ Publish \/ UNCHANGED vars
  <2>1. UNCHANGED <<want, pc, mods, unlisted, changed, user, copied>>
    BY <1>12 DEF Defaults, Capture, CaptureFails, Publish, syncVars, othersVars, personalVars, vars
  <2>2. Entering' = Entering  BY <2>1 DEF Entering
  <2> QED  BY <2>1, <2>2 DEF JarInv
<1>13. CASE Change
  <2>1. UNCHANGED <<want, pc, user, copied>>
    BY <1>13 DEF Change, FolderChanges, PlayedElsewhere, othersVars, personalVars
  <2>2. \/ UNCHANGED <<mods, unlisted, changed>>
        \/ \E m \in Names, c \in {Own, Absent} : /\ mods' = [mods EXCEPT ![m] = c] /\ unlisted' = unlisted \ {m}
                                                 /\ changed' = changed \cup {m}
    BY <1>13 DEF Change, FolderChanges
  <2>3. changed \subseteq Mod  BY DEF TypeOK, SyncTypeOK
  <2>4. /\ \A m \in Mod : \/ /\ mods'[m] = mods[m] /\ (m \in unlisted => m \in unlisted')
                             /\ (m \in changed' => m \in changed)
                          \/ mods'[m] \in {Own, Absent} /\ m \in changed'
        /\ changed \subseteq changed' /\ changed' \subseteq Mod
    BY <2>2, <2>3, NamesMod
  <2> QED  BY <2>1, <2>4, JarKept
<1> QED
  BY <1>5, <1>6, <1>7, <1>8, <1>9, <1>10, <1>11, <1>12, <1>13, JarPersonal DEF Next, Launcher

LEMMA StaleStep == TypeOK /\ RunInv /\ PinInv /\ ListInv /\ JarInv /\ NothingStale /\ [Next]_vars => NothingStale'
<1> SUFFICES ASSUME TypeOK, RunInv, PinInv, ListInv, JarInv, NothingStale, [Next]_vars, pc' = "done",
                    NEW m \in Mod, m \notin (DOMAIN File(want))' \cup changed' \cup unlisted'
             PROVE  NothingElse(m)'
  BY DEF NothingStale
<1> USE RunFacts
<1>1. CASE Personal
  <2>1. pc = "personal" /\ UNCHANGED <<want, changed>> /\ CopiedWritten /\ unlisted' = unlisted \ Entering
    BY <1>1, PersonalFrame
  <2>2. user.pc = "list" /\ copied' = Entering /\ mods' = mods  BY <2>1 DEF CopiedWritten
  <2>3. user.out = {} /\ user.left = {} /\ copied = {}  BY <2>2 DEF RunInv
  <2>4. CASE mods[m] \in Pinned
    <3>1. m \in DOMAIN File(want) \cup unlisted  BY <2>2, <2>3, <2>4 DEF ListInv
    <3>2. m \notin Entering  BY <2>4 DEF JarInv, Entering
    <3> QED  BY <2>1, <3>1, <3>2
  <2>5. CASE mods[m] \in Jar
    <3>1. m \in Entering \cup unlisted  BY <2>2, <2>3, <2>5 DEF JarInv
    <3>2. PICK j \in user.in : m = JarName[j]  BY <2>1, <3>1 DEF Entering
    <3>3. mods[m] = j  BY <2>1, <2>3, <3>2 DEF JarInv
    <3>4. \A n \in Mod \ {m} : ~Share(mods[m], mods[n])  BY <3>2, <3>3 DEF JarInv
    <3>5. m \in Entering  BY <3>2 DEF Entering
    <3> QED  BY <2>2, <2>5, <3>4, <3>5 DEF NothingElse
  <2> QED  BY <2>2, <2>4, <2>5 DEF NothingElse
<1>2. CASE Defaults \/ Capture \/ CaptureFails \/ Publish \/ UNCHANGED vars
  <2>1. UNCHANGED <<want, pc, mods, unlisted, changed, copied>>
    BY <1>2 DEF Defaults, Capture, CaptureFails, Publish, syncVars, othersVars, personalVars, vars
  <2>2. NothingElse(m)  BY <2>1 DEF NothingStale
  <2> QED  BY <2>1, <2>2 DEF NothingElse
<1>3. CASE Change
  <2>1. UNCHANGED <<want, pc, copied>>
    BY <1>3 DEF Change, FolderChanges, PlayedElsewhere, othersVars, personalVars
  <2>2. CASE UNCHANGED <<mods, unlisted, changed>>
    <3>1. NothingElse(m)  BY <2>1, <2>2 DEF NothingStale
    <3> QED  BY <2>1, <2>2, <3>1 DEF NothingElse
  <2>3. CASE ~UNCHANGED <<mods, unlisted, changed>>
    <3>1. PICK n \in Names, c \in {Own, Absent} : /\ mods' = [mods EXCEPT ![n] = c] /\ unlisted' = unlisted \ {n}
                                                  /\ changed' = changed \cup {n}
      BY <1>3, <2>3 DEF Change, FolderChanges
    <3>2. n # m /\ NothingElse(m)  BY <2>1, <3>1 DEF NothingStale
    <3>3. mods'[m] = mods[m]  BY <3>1, <3>2
    <3>4. \A k \in Mod \ {m} : ~Share(mods[m], mods[k]) => ~Share(mods'[m], mods'[k])
      BY <3>1, <3>3, NoShare
    <3> QED  BY <2>1, <3>2, <3>3, <3>4 DEF NothingElse
  <2> QED  BY <2>2, <2>3
<1>4. ASSUME Next, ~Personal, ~Defaults, ~Capture, ~CaptureFails, ~Publish, ~Change PROVE FALSE
  BY <1>4
  DEF Next, Launcher, Start, Check, Download, BundleLands, BundleCommits, BundleSettles, Rest, Fetched, FetchFails,
      Remove, ListOpens, ListWritten, Finish, Options, JarGone, Played, CheckFails, CopyFails, PersonalFails, Crash,
      Abandon, Arrives, Mixed, Land, Remember, RememberFails, Breaks, LandFails, Fetching, Settled, RunInv
<1> QED  BY <1>1, <1>2, <1>3, <1>4

-----------------------------------------------------------------------------
\* The inductive invariant.
Inv ==
  /\ TypeOK /\ RunInv /\ StampInv /\ RacedInv
  /\ PinInv /\ ListInv /\ JarInv /\ NothingStale
  /\ PassInv /\ OursInv /\ EntryInv /\ TornInv
  /\ KeysInv /\ OptionsInv

LEMMA InitTypes == Init => TypeOK
<1> SUFFICES ASSUME Init PROVE TypeOK
  OBVIOUS
<1>1. /\ published \in Version /\ want = published /\ pc = "idle"
      /\ part = [m \in Mod |-> Absent]
      /\ stamp = [m \in Mod |-> NoStamp] /\ managed = {}
      /\ job = NoJob /\ left = [m \in Mod |-> 0] /\ bundle = "none" /\ obsolete = {}
      /\ failed = FALSE /\ changed = {} /\ unlisted = {} /\ raced = {}
      /\ count = [k \in DOMAIN Bound |-> 0]
      /\ DefaultsInit /\ PersonalInit(Fitting) /\ OptionsInit(published)
  BY DEF Init
<1>2. stamp \in [Mod -> [hash : Pinned \cup Jar \cup {Own, Absent}, fresh : BOOLEAN]]
  <2>1. NoStamp \in [hash : Pinned \cup Jar \cup {Own, Absent}, fresh : BOOLEAN]  BY DEF NoStamp
  <2> QED  BY <1>1, <2>1
<1>3. count \in [DOMAIN Bound -> Nat] /\ \A k \in DOMAIN Bound : count[k] <= Bound[k]
  BY <1>1, SyncAssumption DEF Bound
<1>4. left \in [Mod -> 0..Tries]  BY <1>1, SyncAssumption
<1>5. SyncTypeOK  BY <1>1, <1>2, <1>3, <1>4 DEF SyncTypeOK, NoJob
<1>6. DefaultsTypeOK
  <2>1. conf \in [Setting -> Shipped \cup {Own, Absent, Torn}] /\ record \in Records
        /\ archive \in Version \cup {NoArchive} /\ touched \subseteq Setting /\ adrift \subseteq Setting
    BY <1>1 DEF DefaultsInit, Records
  <2>2. pass \in [pc : {"none", "planned", "entries", "record", "state"}, repair : BOOLEAN,
                  entries : SUBSET Setting, next : Records]
    BY <1>1, NoPassTyped DEF DefaultsInit
  <2> QED  BY <2>1, <2>2 DEF DefaultsTypeOK
<1>7. PersonalTypeOK  BY <1>1, NamesMod, NoUserTyped DEF PersonalInit, PersonalTypeOK
<1>8. OptionsTypeOK
  <2>1. elsewhere \in BOOLEAN  BY <1>1, OptionsAssumption DEF OptionsInit
  <2>2. shared \in {Own, Absent} /\ latest \subseteq {"here", "shared", "elsewhere"}
    BY <1>1 DEF OptionsInit
  <2>3. keys \in [{"here", "shared"} -> Binding]
    <3>1. "none" \in Binding /\ Bindings(published) \subseteq Binding  BY DEF Binding, Bindings
    <3> QED  BY <1>1, <3>1 DEF OptionsInit
  <2>4. /\ settled = FALSE /\ todo = {} /\ seen = FALSE /\ pending = FALSE
        /\ young = FALSE /\ behind = FALSE /\ moved = FALSE
    BY <1>1 DEF OptionsInit
  <2> QED  BY <2>1, <2>2, <2>3, <2>4, Zenon DEF OptionsTypeOK
<1> QED  BY <1>5, <1>6, <1>7, <1>8 DEF TypeOK

LEMMA InitInv == Init => Inv
<1> SUFFICES ASSUME Init PROVE Inv
  OBVIOUS
<1>1. TypeOK  BY InitTypes
<1>2. /\ pc = "idle" /\ job = NoJob /\ bundle = "none" /\ obsolete = {} /\ managed = {}
      /\ \A m \in Mod : mods[m] = Absent /\ ~stamp[m].fresh
      /\ pass = NoPass /\ record = [s \in Setting |-> Absent]
      /\ \A s \in Setting : conf[s] = Absent
      /\ user = NoUser
      /\ raced = {} /\ pending = FALSE /\ young = FALSE /\ behind = FALSE /\ todo = {} /\ moved = FALSE
  BY DEF Init, DefaultsInit, PersonalInit, OptionsInit, NoStamp
<1>3. user.pc = "none" /\ user.in = {} /\ user.out = {} /\ user.left = {}  BY <1>2 DEF NoUser
<1>4. pass.pc = "none" /\ pass.entries = {} /\ ~pass.repair  BY <1>2 DEF NoPass
<1>5. \A m \in Mod : mods[m] \notin Pinned \cup Jar  BY <1>2, PersonalAssumption
<1>6. RunInv  BY <1>2, <1>3 DEF RunInv, NoJob
<1>7. StampInv  BY <1>2 DEF StampInv, NoJob
<1>8. PinInv  BY <1>2, <1>3 DEF PinInv, Entering
<1>9. ListInv  BY <1>2, <1>3, <1>5 DEF ListInv
<1>10. JarInv  BY <1>2, <1>3, <1>5 DEF JarInv
<1>11. NothingStale  BY <1>2 DEF NothingStale
<1>12. PassInv  BY <1>2, <1>4 DEF PassInv
<1>13. \A s \in Setting : ~Ours(s)  BY <1>2, DefaultsAssumption DEF Ours
<1>14. OursInv  BY <1>13 DEF OursInv
<1>15. EntryInv  BY <1>2, <1>4 DEF EntryInv
<1>16. OptionsTxt \in Setting  BY DefaultsAssumption
<1>17. OptionsInv
  <2>1. \/ shared = Absent /\ elsewhere /\ latest = {"elsewhere"}
        \/ ~elsewhere /\ latest = {"here", "shared"}
        \/ shared = Own /\ latest = {"shared", "elsewhere"} /\ elsewhere
    BY DEF Init, OptionsInit
  <2>2. Own \notin {Absent, Torn}  BY DefaultsAssumption
  <2> QED  BY <1>2, <1>16, <2>1, <2>2 DEF OptionsInv, Safe, Usable
<1>18. TornInv  BY <1>2, DefaultsAssumption DEF TornInv
<1>19. KeysInv  BY <1>2 DEF KeysInv
<1>20. RacedInv  BY <1>2 DEF RacedInv
<1> QED
  BY <1>1, <1>6, <1>7, <1>8, <1>9, <1>10, <1>11, <1>12, <1>14, <1>15, <1>17, <1>18, <1>19,
     <1>20 DEF Inv

LEMMA InvStep == Inv /\ [Next]_vars => Inv'
<1> SUFFICES ASSUME Inv, [Next]_vars PROVE Inv'
  OBVIOUS
<1>1. /\ TypeOK /\ RunInv /\ StampInv /\ RacedInv /\ PinInv /\ ListInv /\ JarInv /\ NothingStale
      /\ PassInv /\ OursInv /\ EntryInv /\ TornInv /\ KeysInv /\ OptionsInv
  BY DEF Inv
<1>2. SyncTypeOK'  BY <1>1, SyncTypes
<1>3. DefaultsTypeOK'  BY <1>1, DefaultsTypes
<1>4. PersonalTypeOK'  BY <1>1, PersonalTypes
<1>5. OptionsTypeOK'  BY <1>1, OptionsTypes
<1>6. TypeOK'  BY <1>2, <1>3, <1>4, <1>5 DEF TypeOK
<1>7. RunInv'  BY <1>1, RunStep
<1>8. StampInv'  BY <1>1, StampStep
<1>9. PinInv'  BY <1>1, PinStep
<1>10. ListInv'  BY <1>1, ListStep
<1>11. JarInv'  BY <1>1, JarStep
<1>12. NothingStale'  BY <1>1, StaleStep
<1>13. PassInv'  BY <1>1, PassInvStep
<1>14. OursInv'  BY <1>1, OursStep
<1>15. PassEntries' /\ GoneEntered'  BY <1>1, PassEntriesStep, GoneEnteredStep
<1>16. EntryInv'  BY <1>15 DEF EntryInv, PassEntries, GoneEntered
<1>17. OptionsInv'  BY <1>1, OptionsStep
<1>18. KeysInv'  BY <1>1, KeysStep
<1>19. TornInv'  BY <1>1, TornStep
<1>20. RacedInv'  BY <1>1, RacedStep
<1> QED
  BY <1>6, <1>7, <1>8, <1>9, <1>10, <1>11, <1>12, <1>13, <1>14, <1>16, <1>17, <1>18, <1>19,
     <1>20 DEF Inv

LEMMA SpecInv == Spec => []Inv
BY InitInv, InvStep, PTL DEF Spec

-----------------------------------------------------------------------------

(***************************************************************************)
(* The folder, the files beside it that say what is managed, the defaults  *)
(* and the shared options are always of their kinds, whatever is killed,   *)
(* fails or is changed by others.                                          *)
(***************************************************************************)
THEOREM TypeCorrect == Spec => []TypeOK
<1>1. Inv => TypeOK  BY DEF Inv
<1> QED  BY <1>1, SpecInv, PTL

(***************************************************************************)
(* A game that starts has the files of its manifest with the pinned        *)
(* content, for any packs and any jars of the player's, whatever the check *)
(* by hash, the parts that are continued, the bundle and the retries of    *)
(* syncModpack went through before.  Three kinds of file are not covered:  *)
(* one somebody changed after this run had checked it, one changed between *)
(* its rename and the stat of its times (HashCache.remember), in this run  *)
(* or an earlier one, and one whose name a jar of the player's had in the  *)
(* last launch, which prepareUserContent removes.                          *)
(***************************************************************************)
THEOREM FilesPinned == Spec => []InstalledAsPinned
<1>1. Inv => InstalledAsPinned
  <2> SUFFICES ASSUME Inv, pc = "done", NEW m \in DOMAIN File(want) \ (changed \cup raced \cup displaced)
               PROVE  mods[m] = File(want)[m]
    BY DEF InstalledAsPinned
  <2>1. Here(m)  BY DEF Inv, PinInv, Apart
  <2> QED  BY <2>1 DEF Here
<1> QED  BY <1>1, SpecInv, PTL

(***************************************************************************)
(* And beside them no file of another version, no jar this launch did not  *)
(* let in and no second copy of a mod.  Two kinds of file are not covered: *)
(* one somebody put there after the check, and what a run put there that   *)
(* ended before it wrote the list that would name it (managed-files.json   *)
(* of the pack, the list of the player's jars).                            *)
(***************************************************************************)
THEOREM NothingLeft == Spec => []NothingStale
<1>1. Inv => NothingStale  BY DEF Inv
<1> QED  BY <1>1, SpecInv, PTL

(***************************************************************************)
(* The defaults a game starts with are those of its version wherever they  *)
(* are not the player's, however many versions, repairs and broken passes  *)
(* of applyOverrides lie behind; but for the ones a pass wrote and did not *)
(* record, and the ones changed since the synchronisation started.  Its    *)
(* options.txt is what the player chose last, but for the choices that     *)
(* OptionsFollow lists, which no copy was made of in time.                 *)
(***************************************************************************)
THEOREM DefaultsFollow == Spec => []SettingsFollow
<1>1. Inv => SettingsFollow  BY SettingsFollowed DEF Inv
<1> QED  BY <1>1, SpecInv, PTL

(***************************************************************************)
(* No step of the launcher replaces or removes a setting the player wrote, *)
(* options.txt aside.  That file gives way to a shared copy with lines in  *)
(* it, an older one included, or goes as a default nobody touched; its     *)
(* keys are otherwise only filled in, or moved to the pack's choice, once: *)
(* never again after a launch that recorded the move (applyKeyDefaults),   *)
(* but again after one that ended, or failed, before its record.           *)
(***************************************************************************)
THEOREM PlayersSettings == Spec => SettingsKept
<1>1. Inv /\ [Next]_vars => Kept  BY SettingsKeptStep DEF Inv
<1> QED  BY <1>1, SpecInv, PTL DEF Spec, SettingsKept, Kept

=============================================================================
