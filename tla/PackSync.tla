------------------------------ MODULE PackSync ------------------------------
(***************************************************************************)
(* Bringing an instance to the published version of the pack: every file   *)
(* is checked by hash, the wrong ones are downloaded (most of a first      *)
(* install from one bundle), files the pack dropped are removed, the list  *)
(* of managed files is written, then the default settings are applied.     *)
(* The launcher may be killed, and a download may fail, at any step.       *)
(***************************************************************************)
EXTENDS PersonalContent, SharedOptions

CONSTANTS
  Tries,        \* attempts per file
  MaxPublish, MaxChanges, MaxFaults, MaxCrashes  \* bounds

ASSUME SyncAssumption ==
  /\ \A v \in Version : Pack[v].bundle \subseteq DOMAIN File(v)
  /\ Tries \in Nat \ {0} /\ {MaxPublish, MaxChanges, MaxFaults, MaxCrashes} \subseteq Nat

VARIABLES
  published,  \* the version the catalogue names
  want,       \* the version this synchronisation read
  pc,         \* where syncModpack is
  part,       \* what each <target>.part holds the beginning or all of
  stamp,      \* file-hashes.json: the hash kept, and whether the file's times still match
  managed,    \* managed-files.json
  job,        \* each file of this run: nothing to do, bundled, waiting for the bundle, ...
  left,       \* attempts left for each file
  bundle,     \* the bundle of this run: none, open or settled
  obsolete,   \* managed files still to remove
  failed,     \* an error waits for the other downloads to settle
  changed,    \* history: pack files others changed since this synchronisation started
  unlisted,   \* history: files that landed in a run that never wrote its list
  raced,      \* history: files changed after they landed and before their times were read
  count       \* counters of the bounds

syncVars == <<published, want, pc, part, stamp, managed, job, left, bundle, obsolete,
              failed, changed, unlisted, raced, count>>
othersVars == <<defaultsVars, personalVars, optionsVars>>
vars == <<syncVars, mods, othersVars>>

Bound == [publish |-> MaxPublish, change |-> MaxChanges, fault |-> MaxFaults, crash |-> MaxCrashes]
Counts(k) == count[k] < Bound[k] /\ count' = [count EXCEPT ![k] = @ + 1]

NoStamp == [hash |-> Absent, fresh |-> FALSE]
NoJob == [m \in Mod |-> "none"]

\* The player's jars, the names and the settings some version of this pack may use, and options.txt
\* if it is shared with other servers: others change nothing, or nothing that is not seen there.
Versions == {v \in Version : Pack[v].id = Pack[published].id}
Fitting == UNION {Pack[v].fits : v \in Versions}
Names == (UNION {DOMAIN File(v) : v \in Versions}) \cup {JarName[j] : j \in Fitting}
Paths == (UNION {DOMAIN Default(v) : v \in Versions}) \cup (IF Roams(published) THEN {OptionsTxt} ELSE {})

SyncTypeOK ==
  /\ published \in Version /\ want \in Version
  /\ pc \in {"idle", "check", "fetch", "obsolete", "list", "defaults", "options", "personal", "done"}
  /\ part \in [Mod -> Pinned \cup {Absent}]
  /\ stamp \in [Mod -> [hash : Pinned \cup Jar \cup {Own, Absent}, fresh : BOOLEAN]]
  /\ managed \in (SUBSET Mod) \cup {Torn}
  /\ job \in [Mod -> {"none", "bundle", "commit", "rest", "fetch", "land", "stamp"}]
  /\ left \in [Mod -> 0..Tries]
  /\ bundle \in {"none", "open", "settled"} /\ obsolete \subseteq Mod /\ failed \in BOOLEAN
  /\ changed \subseteq Mod /\ unlisted \subseteq Mod /\ raced \subseteq Mod
  /\ count \in [DOMAIN Bound -> Nat] /\ \A k \in DOMAIN Bound : count[k] <= Bound[k]

TypeOK == SyncTypeOK /\ DefaultsTypeOK /\ PersonalTypeOK /\ OptionsTypeOK

Init ==
  /\ published \in Version /\ want = published /\ pc = "idle"
  /\ part = [m \in Mod |-> Absent]
  /\ stamp = [m \in Mod |-> NoStamp] /\ managed = {}
  /\ job = NoJob /\ left = [m \in Mod |-> 0] /\ bundle = "none" /\ obsolete = {}
  /\ failed = FALSE /\ changed = {} /\ unlisted = {} /\ raced = {}
  /\ count = [k \in DOMAIN Bound |-> 0]
  /\ DefaultsInit /\ PersonalInit(Fitting) /\ OptionsInit(published)

-----------------------------------------------------------------------------

\* syncModpack begins: the manifest is fixed, and what the defaults need is settled.
Start ==
  /\ pc = "idle" /\ pc' = "check" /\ want' = published
  /\ Plan(published) /\ touched' = {} /\ changed' = {}
  /\ UNCHANGED <<published, mods, part, stamp, managed, job, left, bundle, obsolete, failed,
                 unlisted, raced, count, personalVars, optionsVars>>

\* The run is over: with an error, or because the launcher was killed.
Abandon ==
  /\ pc' = "idle" /\ job' = NoJob /\ left' = [m \in Mod |-> 0] /\ bundle' = "none"
  /\ obsolete' = {} /\ failed' = FALSE

\* The hash of a file: the one kept with its times, or the one read now.
Hash(m) == IF mods[m] = Absent THEN Absent ELSE IF stamp[m].fresh THEN stamp[m].hash ELSE mods[m]

Matches(m) == Hash(m) = File(want)[m]
Stamped(set) == [m \in Mod |-> IF m \in set /\ mods[m] # Absent
                               THEN [hash |-> Hash(m), fresh |-> TRUE] ELSE stamp[m]]

\* Every file of the manifest is checked.  A list that does not parse ends it here.
Check ==
  LET needed == {m \in DOMAIN File(want) : ~Matches(m)}
  IN /\ pc = "check" /\ managed # Torn
     /\ stamp' = Stamped(DOMAIN File(want))
     /\ \E bundled \in {{}, needed \cap Pack[want].bundle} :
          /\ left' = [m \in Mod |-> IF m \in needed \ bundled THEN Tries ELSE 0]
          /\ job' = [m \in Mod |-> IF m \in bundled THEN "bundle"
                                   ELSE IF m \in needed THEN "fetch" ELSE "none"]
          /\ bundle' = IF bundled = {} THEN "none" ELSE "open"
     /\ pc' = "fetch"
     /\ UNCHANGED <<published, want, mods, part, managed, obsolete, failed, changed, unlisted, raced, count,
                    othersVars>>

\* No room, no archive, or a list that does not parse: nothing has been changed yet.
CheckFails ==
  /\ pc = "check" /\ Abandon
  /\ IF managed = Torn THEN UNCHANGED count ELSE Counts("fault")
  /\ pass' = NoPass
  /\ UNCHANGED <<published, want, mods, part, stamp, managed, changed, unlisted, raced, conf, record, archive,
                 touched, adrift, personalVars, optionsVars>>

\* An attempt failed: another one, or the error that ends the run once the others settle.
Again(m) ==
  IF left[m] > 1
  THEN /\ left' = [left EXCEPT ![m] = @ - 1] /\ job' = [job EXCEPT ![m] = "fetch"]
       /\ UNCHANGED failed
  ELSE /\ left' = [left EXCEPT ![m] = 0] /\ job' = [job EXCEPT ![m] = "none"] /\ failed' = TRUE

\* What a .part becomes the beginning of once an answer comes in: a server that continues it
\* leaves its old beginning, one that sends the whole file starts it over.
Received(m) == {File(want)[m]} \cup ({part[m]} \ {Absent})

Fetching(m) == pc = "fetch" /\ job[m] = "fetch"

\* The whole part is there and has the right hash: the old file goes, then the part takes its name.
Arrives(m) ==
  /\ Fetching(m)
  /\ part' = [part EXCEPT ![m] = File(want)[m]]
  /\ mods' = [mods EXCEPT ![m] = Absent] /\ job' = [job EXCEPT ![m] = "land"]
  /\ stamp' = [stamp EXCEPT ![m].fresh = FALSE] /\ raced' = raced \ {m}
  /\ UNCHANGED <<left, failed>>

\* Mutant: a part that failed its hash is kept, to be continued.
MixedKept(m) == Fetching(m) /\ part[m] \notin {Absent, File(want)[m]} /\ Again(m) /\ UNCHANGED <<mods, part, stamp>>

\* A part of another version was continued: the hash fails and the part goes.
Mixed(m) ==
  /\ Fetching(m) /\ part[m] \notin {Absent, File(want)[m]}
  /\ part' = [part EXCEPT ![m] = Absent] /\ Again(m)
  /\ UNCHANGED <<mods, stamp>>

\* The connection breaks (the part is kept) or the bytes were wrong (the part goes).
Breaks(m) ==
  /\ Fetching(m) /\ Counts("fault")
  /\ \E got \in Received(m) \cup {Absent} : part' = [part EXCEPT ![m] = got]
  /\ Again(m) /\ UNCHANGED <<mods, stamp>>

\* The rename.
Land(m) ==
  /\ pc = "fetch" /\ job[m] = "land"
  /\ mods' = [mods EXCEPT ![m] = part[m]] /\ part' = [part EXCEPT ![m] = Absent]
  /\ job' = [job EXCEPT ![m] = "stamp"] /\ UNCHANGED <<stamp, left, failed>>

\* The times of a file that just landed are kept with the hash it had then; a file of another
\* size never matches.
Stamps(m) ==
  \E fresh \in {TRUE, mods[m] = File(want)[m]} :
    stamp' = [stamp EXCEPT ![m] = [hash |-> File(want)[m], fresh |-> fresh]]

Remember(m) ==
  /\ pc = "fetch" /\ job[m] = "stamp" /\ mods[m] # Absent /\ Stamps(m)
  /\ job' = [job EXCEPT ![m] = "none"] /\ left' = [left EXCEPT ![m] = 0]
  /\ UNCHANGED <<mods, part, failed>>

\* Its file is gone again: there are no times to keep, and no other attempt.
RememberFails(m) ==
  /\ pc = "fetch" /\ job[m] = "stamp" /\ mods[m] = Absent
  /\ job' = [job EXCEPT ![m] = "none"] /\ left' = [left EXCEPT ![m] = 0] /\ failed' = TRUE
  /\ UNCHANGED <<mods, part, stamp>>

\* Another program holds the file: the rename fails and counts as an attempt.
LandFails(m) ==
  /\ pc = "fetch" /\ job[m] = "land" /\ Counts("fault") /\ Again(m)
  /\ UNCHANGED <<mods, part, stamp>>

\* Files of the pack that just landed and that the list of managed files does not name.
Landed == {m \in Mod \ managed : mods'[m] # mods[m] /\ mods'[m] = File(want)[m]}

Download ==
  /\ \E m \in Mod :
       /\ \/ Arrives(m) /\ UNCHANGED count
          \/ (Mixed(m) \/ Land(m) \/ Remember(m) \/ RememberFails(m)) /\ UNCHANGED <<raced, count>>
          \/ (Breaks(m) \/ LandFails(m)) /\ UNCHANGED raced
       /\ unlisted' = unlisted \cup Landed
  /\ UNCHANGED <<published, want, pc, managed, bundle, obsolete, changed, othersVars>>

\* A file of the bundle, verified with all the others of it, is renamed over its target,
BundleLands ==
  /\ bundle = "open"
  /\ \E m \in Mod :
       /\ job[m] = "bundle" /\ mods' = [mods EXCEPT ![m] = File(want)[m]]
       /\ job' = [job EXCEPT ![m] = "commit"] /\ raced' = raced \ {m}
       /\ stamp' = [stamp EXCEPT ![m].fresh = FALSE]
  /\ unlisted' = unlisted \cup Landed
  /\ UNCHANGED <<published, want, pc, part, managed, left, bundle, obsolete, failed, changed, count,
                 othersVars>>

\* and its times are kept.
BundleCommits ==
  /\ bundle = "open"
  /\ \E m \in Mod : /\ job[m] = "commit" /\ mods[m] # Absent /\ Stamps(m)
                    /\ job' = [job EXCEPT ![m] = "rest"]
  /\ UNCHANGED <<published, want, pc, mods, part, managed, left, bundle, obsolete, failed, changed,
                 unlisted, raced, count, othersVars>>

\* All of it landed; a file that did is gone again; or another step failed.
BundleEnds ==
  \/ (\A m \in Mod : job[m] \notin {"bundle", "commit"}) /\ UNCHANGED count
  \/ (\E m \in Mod : job[m] = "commit" /\ mods[m] = Absent) /\ UNCHANGED count
  \/ Counts("fault")

\* Mutant: what the bundle was asked for is taken as installed.
BundleTrusted ==
  /\ bundle = "open" /\ bundle' = "settled" /\ BundleEnds
  /\ job' = [m \in Mod |-> IF job[m] \in {"bundle", "commit", "rest"} THEN "none" ELSE job[m]]
  /\ UNCHANGED <<published, want, pc, mods, part, stamp, managed, left, obsolete, failed, changed, unlisted, raced,
                 othersVars>>

\* The bundle is installed, or a step of it failed: its files are checked once more, and the
\* ones that are still wrong are left to be downloaded on their own.
BundleSettles ==
  LET ofBundle == {m \in Mod : job[m] \in {"bundle", "commit", "rest"}}
  IN /\ bundle = "open" /\ bundle' = "settled" /\ BundleEnds
     /\ stamp' = Stamped(ofBundle)
     /\ job' = [m \in Mod |-> IF m \in ofBundle THEN (IF Matches(m) THEN "none" ELSE "rest") ELSE job[m]]
     /\ UNCHANGED <<published, want, pc, mods, part, managed, left, obsolete, failed, changed, unlisted, raced,
                    othersVars>>

Settled == pc = "fetch" /\ bundle # "open" /\ \A m \in Mod : job[m] \notin {"fetch", "land", "stamp"}

\* Both branches are over without an error: the rest of the bundle, then the files to remove.
Rest ==
  LET rest == {m \in Mod : job[m] = "rest"}
  IN /\ Settled /\ ~failed /\ rest # {}
     /\ job' = [m \in Mod |-> IF m \in rest THEN "fetch" ELSE "none"]
     /\ left' = [m \in Mod |-> IF m \in rest THEN Tries ELSE 0]
     /\ UNCHANGED <<published, want, pc, mods, part, stamp, managed, bundle, obsolete, failed,
                    changed, unlisted, raced, count, othersVars>>

Fetched ==
  /\ Settled /\ ~failed /\ \A m \in Mod : job[m] = "none"
  /\ pc' = "obsolete" /\ obsolete' = managed \ DOMAIN File(want)
  /\ UNCHANGED <<published, want, mods, part, stamp, managed, job, left, bundle, failed, changed, unlisted, raced,
                 count, othersVars>>

FetchFails ==
  /\ Settled /\ failed /\ Abandon /\ pass' = NoPass
  /\ UNCHANGED <<published, want, mods, part, stamp, managed, changed, unlisted, raced, count, conf, record,
                 archive, touched, adrift, personalVars, optionsVars>>

Remove ==
  /\ pc = "obsolete" /\ obsolete # {}
  /\ \E m \in obsolete :
       /\ mods' = [mods EXCEPT ![m] = Absent] /\ part' = [part EXCEPT ![m] = Absent]
       /\ stamp' = [stamp EXCEPT ![m] = NoStamp] /\ obsolete' = obsolete \ {m}
       /\ unlisted' = unlisted \ {m} /\ raced' = raced \ {m}
  /\ UNCHANGED <<published, want, pc, managed, job, left, bundle, failed, changed, count, othersVars>>

\* The list is written in place: it is empty until the new one is there.
ListOpens ==
  /\ pc = "obsolete" /\ obsolete = {} /\ pc' = "list" /\ managed' = Torn
  /\ UNCHANGED <<published, want, mods, part, stamp, job, left, bundle, obsolete, failed, changed, unlisted, raced,
                 count, othersVars>>

ListWritten ==
  /\ pc = "list" /\ pc' = "defaults"
  /\ managed' = DOMAIN File(want) /\ unlisted' = unlisted \ DOMAIN File(want)
  /\ UNCHANGED <<published, want, mods, part, stamp, job, left, bundle, obsolete, failed, changed, raced,
                 count, othersVars>>

\* options.txt with a key of the launcher's in it is no default any more.
Keyed == IF keys["here"] = "none" THEN {} ELSE {OptionsTxt}

Defaults ==
  /\ pc = "defaults" /\ DefaultsStep(want, Keyed)
  /\ UNCHANGED <<syncVars, mods, personalVars, optionsVars>>

Finish ==
  /\ pc = "defaults" /\ pass.pc = "none" /\ pc' = "options"
  /\ UNCHANGED <<published, want, mods, part, stamp, managed, job, left, bundle, obsolete, failed, changed,
                 unlisted, raced, count, othersVars>>

\* The player's settings come before their mods; no error of theirs ends the launch.
Options ==
  /\ pc = "options"
  /\ \/ Seed(want) /\ UNCHANGED <<pc, count>>
     \/ /\ \/ /\ Restore(want) \/ KeysHere(want) \/ NoKeys \/ KeysShared \/ KeysSettled
              /\ UNCHANGED count
           \/ (SeedFails(want) \/ KeysFail) /\ Counts("fault")
        /\ pc' = IF todo' = {} THEN "personal" ELSE "options"
  /\ UNCHANGED <<published, want, mods, part, stamp, managed, job, left, bundle, obsolete, failed, changed,
                 unlisted, raced, record, archive, pass, touched, adrift, personalVars>>

\* The player's jars.  A file that changes has no hash kept, and a jar no list names is a leftover
\* until the list of this launch is there.
Personal ==
  /\ pc = "personal"
  /\ \/ /\ Collect \/ TakeOut(want) \/ Admit(want) \/ CopyIn \/ CopiedOpens
        /\ unlisted' = (unlisted \ copied) \cup {m \in Entering \ copied' : mods'[m] \in Jar}
        /\ UNCHANGED <<pc, optionsVars>>
     \/ CopiedWritten /\ unlisted' = unlisted \ Entering /\ pc' = "done" /\ Watch
  /\ stamp' = [m \in Mod |-> IF mods'[m] = mods[m] THEN stamp[m] ELSE [stamp[m] EXCEPT !.fresh = FALSE]]
  /\ raced' = {m \in raced : mods'[m] = mods[m]}
  /\ UNCHANGED <<published, want, part, managed, job, left, bundle, obsolete, failed, changed, count, defaultsVars>>

\* A jar cannot be removed or copied, or the list not be written: the launch fails, and what was
\* copied stays without a list.
PersonalFails ==
  /\ pc = "personal" /\ user.pc # "none" /\ Abandon /\ user' = NoUser
  /\ UNCHANGED <<published, want, mods, part, stamp, managed, changed, unlisted, raced, defaultsVars, folder,
                 copied, displaced, optionsVars>>

CopyFails == PersonalFails /\ Counts("fault")
JarGone == PersonalFails /\ user.pc = "in" /\ ~(user.left \subseteq folder) /\ UNCHANGED count

\* The game runs and ends; the copy of its settings, if it has any, begins.
Played ==
  /\ pc = "done" /\ Abandon /\ Ended
  /\ UNCHANGED <<published, want, mods, part, stamp, managed, changed, unlisted, raced, count, defaultsVars,
                 personalVars>>

Capture ==
  /\ (pc = "done" /\ Tick) \/ LastCapture
  /\ UNCHANGED <<syncVars, mods, defaultsVars, personalVars>>

CaptureFails ==
  /\ (pc = "done" /\ TickBreaks) \/ LastBreaks
  /\ Counts("fault")
  /\ UNCHANGED <<published, want, pc, mods, part, stamp, managed, job, left, bundle, obsolete, failed,
                 changed, unlisted, raced, defaultsVars, personalVars>>

-----------------------------------------------------------------------------

\* What the launcher was copying over the instance's files when it was killed.
Restoring == IF pc = "options" /\ todo = {} /\ Usable THEN {OptionsTxt} ELSE {}

\* The launcher is killed.  The hashes kept since the last save are lost, and a file it was writing
\* in place may end early.
Crash ==
  /\ (pc # "idle" \/ pending) /\ Counts("crash") /\ Abandon
  /\ stamp' \in {stamp, [m \in Mod |-> NoStamp]}
  /\ pass' = NoPass /\ user' = NoUser
  /\ \E cut \in {{}} \cup {{s} : s \in Halved \cup Restoring} :
       /\ conf' = [s \in Setting |-> IF s \in cut THEN Torn ELSE conf[s]]
       /\ OptionsCrash(OptionsTxt \in cut, cut \subseteq Restoring)
       /\ adrift' = adrift \cup cut \cup
                      (IF pass.pc = "record" THEN {s \in Setting : conf[s] \in Shipped} ELSE {})
  /\ UNCHANGED <<published, want, mods, part, managed, changed, unlisted, raced, record, archive, touched,
                 folder, copied, displaced>>

\* The administrator publishes another version of this pack, an earlier one included.
Publish ==
  /\ Counts("publish")
  /\ published' \in Versions \ {published}
  /\ UNCHANGED <<want, pc, mods, part, stamp, managed, job, left, bundle, obsolete, failed, changed,
                 unlisted, raced, othersVars>>

\* The player, the game or a virus scanner changes a file, at any time.
Change ==
  /\ Counts("change")
  /\ \/ \E m \in Names, c \in {Own, Absent} :
          /\ mods[m] # c /\ mods' = [mods EXCEPT ![m] = c]
          /\ stamp' = [stamp EXCEPT ![m].fresh = FALSE]
          /\ changed' = changed \cup {m} /\ unlisted' = unlisted \ {m}
          /\ raced' = IF c = Own /\ job[m] \in {"stamp", "commit"} THEN raced \cup {m} ELSE raced \ {m}
          /\ UNCHANGED othersVars
     \/ /\ \E s \in Paths, c \in {Own, Absent} :
             /\ SettingChanges(s, c)
             /\ IF s # OptionsTxt THEN UNCHANGED optionsVars
                ELSE IF c = Own THEN Chosen(published, pc = "done") ELSE Deleted
        /\ UNCHANGED <<mods, stamp, changed, unlisted, raced, personalVars>>
     \/ /\ \E j \in Fitting : FolderChanges(j)
        /\ UNCHANGED <<stamp, changed, unlisted, raced, defaultsVars, optionsVars>>
     \/ /\ pc = "idle" /\ PlayedElsewhere(published)
        /\ UNCHANGED <<mods, stamp, changed, unlisted, raced, defaultsVars, personalVars>>
  /\ UNCHANGED <<published, want, pc, part, managed, job, left, bundle, obsolete, failed>>

Launcher ==
  \/ Start \/ Check \/ Download \/ BundleLands \/ BundleCommits \/ BundleSettles \/ Rest
  \/ Fetched \/ FetchFails
  \/ Remove \/ ListOpens \/ ListWritten \/ Defaults \/ Finish \/ Options \/ Personal \/ JarGone \/ Played

Next == Launcher \/ CheckFails \/ CopyFails \/ Capture \/ CaptureFails \/ Crash \/ Publish \/ Change

Spec == Init /\ [][Next]_vars

\* The player keeps pressing the button, and a synchronisation that can go on does.
FairSpec == Spec /\ WF_vars(Launcher)

-----------------------------------------------------------------------------

(***************************************************************************)
(* When the game starts, every file the manifest names is there with its   *)
(* pinned content, however it got there: kept, resumed, bundled or         *)
(* downloaded, after any number of interrupted runs, and whatever the      *)
(* player's own mods are called.  Left out: a file somebody changed after  *)
(* it was checked, one changed just before the times that vouch for it     *)
(* were read, and one whose name the last launch had given to a jar of     *)
(* the player's.                                                           *)
(***************************************************************************)
InstalledAsPinned ==
  pc = "done" => \A m \in DOMAIN File(want) \ (changed \cup raced \cup displaced) : mods[m] = File(want)[m]

(***************************************************************************)
(* Beside them there is nothing of another version, and of the player's    *)
(* jars only what this launch let in, each mod once; except what a run     *)
(* left there that never got to write its list.                            *)
(***************************************************************************)
NothingStale ==
  pc = "done" => \A m \in Mod \ (DOMAIN File(want) \cup changed \cup unlisted) : NothingElse(m)

\* options.txt gets the shared copy, or the beginning of it if the launcher is killed, the pack's
\* key, or goes as the default nobody touched.
OptionsOnly ==
  /\ conf[OptionsTxt] \notin {Absent, Torn, conf'[OptionsTxt]}
       => \/ Usable /\ conf'[OptionsTxt] \in {shared, Torn}
          \/ /\ conf'[OptionsTxt] = Absent /\ keys["here"] = "none"
             /\ conf[OptionsTxt] = LastWritten(OptionsTxt)
  /\ keys'["here"] # keys["here"]
       => \/ Usable /\ conf'[OptionsTxt] = shared /\ keys'["here"] = keys["shared"]
          \/ keys'["here"] = "none" /\ conf'[OptionsTxt] = Torn
          \/ /\ keys'["here"] = "pack" /\ (keys["here"] = "none" \/ ~moved)
             /\ conf[OptionsTxt] \in {Torn, conf'[OptionsTxt]}

(***************************************************************************)
(* The player's settings are the player's.  The launcher never replaces or *)
(* removes one somebody wrote.  In options.txt it puts only what the       *)
(* shared copy has and the pack's key, and a key it has once put right is  *)
(* not moved again by any later launch, whatever the player bound it to    *)
(* since; unless the launch that did it ended before that was recorded.    *)
(***************************************************************************)
SettingsKept ==
  [][count'.change = count.change =>
       /\ \A s \in Setting \ {OptionsTxt} : conf[s] = Own => conf'[s] = Own
       /\ OptionsOnly]_vars

(***************************************************************************)
(* When the game starts, the pack's defaults are those of the version that *)
(* was synchronised (see Followed) and options.txt is the player's last    *)
(* (see OptionsFollow), except where somebody changed it meanwhile.        *)
(***************************************************************************)
SettingsFollow ==
  pc = "done" => Followed(want) /\ (OptionsTxt \in touched \/ OptionsFollow)

(***************************************************************************)
(* Whatever was interrupted, the next presses of the button get through    *)
(* once the faults end, unless the launcher was killed while the list of   *)
(* managed files was empty.                                                *)
(***************************************************************************)
Resumes == <>[](managed = Torn) \/ []<>(pc = "done")

=============================================================================
