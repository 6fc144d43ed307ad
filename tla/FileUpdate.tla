----------------------------- MODULE FileUpdate -----------------------------
(***************************************************************************)
(* How the launcher on Windows replaces itself: the check of its channel,  *)
(* the files it stages, the five seconds of notice, the hand-off to the    *)
(* helper, which waits for the launcher to be gone, replaces file by file  *)
(* or puts everything back, and starts the launcher again; or, below       *)
(* Program Files, to the installer that Windows asks the player about.     *)
(*                                                                         *)
(* Everything between two awaits of the main process is one step.          *)
(***************************************************************************)
EXTENDS Naturals, FiniteSets

CONSTANTS
  Version,     \* builds, a newer one is a greater number
  File,
  Absent,      \* a build that does not have the file
  Build,       \* the files of each build
  Offer,       \* what a channel points to: Offer[TRUE] is the testers' one
  NoManifest,
  NoCheck,
  NotStaged,
  MaxHelpers,  \* bound: helpers at a time
  MaxChecks,   \* bound: manifests fetched by one run of the launcher
  MaxTorn,     \* bound: the same once the files are torn
  MaxFlips,    \* bound: changes of who is signed in
  MaxFaults    \* bound: operations of helpers that fail, kills, and starts beside a helper

ASSUME UpdateAssumption ==
  /\ Version \subseteq Nat \ {0} /\ "app" \in File
  /\ Build \in [Version -> [File -> Version \cup {Absent}]]
  /\ \A v \in Version : Build[v]["app"] = v
  /\ Offer \in [BOOLEAN -> Version]
  /\ Absent \notin Version
  /\ {MaxHelpers, MaxChecks, MaxTorn, MaxFlips, MaxFaults} \subseteq Nat

VARIABLES
  protected,   \* the launcher is installed where only administrators write
  alive,       \* the launcher runs
  image,       \* the files it was started from
  game,        \* gameStatus: idle, busy, or idle with a crash on the screen
  audience,    \* a tester or an administrator is signed in
  status,      \* LauncherUpdateStatus.state
  current,     \* currentManifest
  changed,     \* the staged files that differ from the installed ones, if staged
  check,       \* the check under way
  scheduled,   \* installScheduled
  timers,      \* notices on the screen
  hands,       \* hand-offs under way
  declined,    \* declinedVersion, 0 before
  helpers,     \* helpers and installers that were started
  disk,        \* the installed files
  torn,        \* history: a rollback failed or a kill left a mixture, or a helper met
               \* another helper or a launcher started beside it; until a start finds one build
  killed,      \* history: a helper was killed since the launcher last started
  made, flips, faults  \* counters of the bounds

processVars == <<game, audience, status, current, changed, check, scheduled, timers,
                 hands, declined, made>>
ends == <<torn, killed>>
diskVars == <<helpers, disk, faults, ends>>
vars == <<protected, alive, image, processVars, diskVars, flips>>

\* The objects of two checks are two manifests even when they say the same.
Manifest == [v : Version, tester : BOOLEAN, id : 1..MaxChecks]

State == {"checking", "current", "available", "downloading", "ready", "installing", "error"}

Check ==
  [tester : BOOLEAN, pc : {"fetch"}, m : {NoManifest}, aborted : {FALSE}] \cup
  [tester : BOOLEAN, pc : {"prepare"}, m : Manifest, aborted : BOOLEAN]
Notice == [m : Manifest, asked : BOOLEAN, files : SUBSET File]
HandOff == [m : Manifest, asked : BOOLEAN, files : SUBSET File]

\* todo: changed and removed files not done; kept: the backup, as far as applied.
Helper == [v : Version, pc : {"wait", "apply", "back", "restart", "installer"},
           todo : SUBSET File, gone : SUBSET File, kept : [File -> Version \cup {Absent}],
           applied : SUBSET File, parent : BOOLEAN, id : Manifest]

TypeOK ==
  /\ {protected, alive, audience, scheduled, torn, killed} \subseteq BOOLEAN
  /\ image \in [File -> Version \cup {Absent}] /\ disk \in [File -> Version \cup {Absent}]
  /\ game \in {"idle", "busy", "crashed"}
  /\ status \in State
  /\ current \in Manifest \cup {NoManifest}
  /\ changed \in (SUBSET File) \cup {NotStaged}
  /\ check \in Check \cup {NoCheck}
  /\ timers \subseteq Notice /\ hands \subseteq HandOff /\ helpers \subseteq Helper
  /\ declined \in Version \cup {0}
  /\ made \in 0..MaxChecks /\ flips \in 0..MaxFlips /\ faults \in 0..MaxFaults

Init ==
  /\ protected \in BOOLEAN
  /\ alive = TRUE
  /\ disk \in {Build[v] : v \in Version}
  /\ image = disk
  /\ game = "idle" /\ audience = FALSE /\ status = "checking" /\ current = NoManifest
  /\ changed = NotStaged /\ check = NoCheck /\ scheduled = FALSE /\ timers = {} /\ hands = {}
  /\ declined = 0 /\ made = 0
  /\ helpers = {} /\ torn = FALSE /\ killed = FALSE /\ flips = 0 /\ faults = 0

-----------------------------------------------------------------------------
NewerThanRunning(v) == v > image["app"]

\* mayRestartForUpdate: no game, and a crash stays on the screen until the player asks.
MayRestart(asked, g) == g = "idle" \/ (asked /\ g = "crashed")

\* installFileUpdate, called with the status and the game that hold by then.
TryInstall(asked, st, g) ==
  IF /\ st = "ready" /\ ~scheduled /\ MayRestart(asked, g)
     /\ current # NoManifest /\ changed # NotStaged
     /\ asked \/ declined # current.v
  THEN /\ status' = "installing" /\ scheduled' = TRUE
       /\ timers' = timers \cup {[m |-> current, asked |-> asked, files |-> changed]}
  ELSE status' = st /\ UNCHANGED <<scheduled, timers>>

GameStarts ==
  /\ alive /\ game # "busy"
  /\ game' = "busy"
  /\ UNCHANGED <<protected, alive, image, audience, status, current, changed, check, scheduled,
                 timers, hands, declined, made, diskVars, flips>>

\* Mutant: the end of a game does not bring the update.
GameEndsAlone(g) ==
  /\ alive /\ game = "busy" /\ g # "busy"
  /\ game' = g
  /\ UNCHANGED <<protected, alive, image, audience, status, current, changed, check, scheduled,
                 timers, hands, declined, made, diskVars, flips>>

\* setGameStatus: the update waits for exactly this moment.
GameEnds(g) ==
  /\ alive /\ game = "busy" /\ g # "busy"
  /\ game' = g
  /\ TryInstall(FALSE, status, g)
  /\ UNCHANGED <<protected, alive, image, audience, current, changed, check, hands, declined,
                 made, diskVars, flips>>

PlayerAsks ==
  /\ alive
  /\ TryInstall(TRUE, status, game)
  /\ UNCHANGED <<protected, alive, image, game, audience, current, changed, check, hands,
                 declined, made, diskVars, flips>>

-----------------------------------------------------------------------------
NewCheck(tester) == [tester |-> tester, pc |-> "fetch", m |-> NoManifest, aborted |-> FALSE]

\* checkFileUpdates does nothing while one is under way or its result is on the screen.
MayCheck(st) == check = NoCheck /\ st \notin {"downloading", "ready", "installing"}

\* The timer of a minute.
StartCheck ==
  /\ alive /\ MayCheck(status)
  /\ check' = NewCheck(audience)
  /\ UNCHANGED <<protected, alive, image, game, audience, status, current, changed, scheduled,
                 timers, hands, declined, made, diskVars, flips>>

\* The finally of a check: one of the other channel follows when somebody else is signed in.
CheckEnds(st) ==
  check' = IF audience # check.tester /\ st \notin {"downloading", "ready", "installing"}
           THEN NewCheck(audience) ELSE NoCheck

\* The channel's file arrives, or does not.
Fetched ==
  /\ alive /\ check # NoCheck /\ check.pc = "fetch"
  /\ LET v == Offer[check.tester]
         m == [v |-> v, tester |-> check.tester, id |-> made + 1] IN
     \/ /\ status' = IF audience = check.tester THEN "error" ELSE status
        /\ CheckEnds(status')
        /\ UNCHANGED <<current, made>>
     \/ /\ audience # check.tester \/ ~NewerThanRunning(v)
        /\ status' = IF audience = check.tester THEN "current" ELSE status
        /\ CheckEnds(status')
        /\ UNCHANGED <<current, made>>
     \/ /\ audience = check.tester /\ NewerThanRunning(v)
        /\ made < MaxChecks /\ (torn => made < MaxTorn)
        /\ status' = "available" /\ current' = m /\ made' = made + 1
        /\ check' = [check EXCEPT !.pc = "prepare", !.m = m]
  /\ UNCHANGED <<protected, alive, image, game, audience, changed, scheduled, timers, hands,
                 declined, diskVars, flips>>

\* Progress is shown before the next look at the signal, so also after an abort.
Progress ==
  /\ alive /\ check # NoCheck /\ check.pc = "prepare"
  /\ status' = "downloading"
  /\ UNCHANGED <<protected, alive, image, game, audience, current, changed, check, scheduled,
                 timers, hands, declined, made, diskVars, flips>>

Differing(v) == {f \in File : Build[v][f] # Absent /\ disk[f] # Build[v][f]}

\* The files are staged, the check fails, or it notices the abort.
Prepared ==
  /\ alive /\ check # NoCheck /\ check.pc = "prepare"
  /\ \/ /\ changed' = IF protected THEN {} ELSE Differing(check.m.v)
        /\ IF audience # check.tester \/ current # check.m
           THEN UNCHANGED <<status, scheduled, timers>>
           ELSE IF /\ ~scheduled /\ MayRestart(FALSE, game) /\ declined # current.v
           THEN /\ status' = "installing" /\ scheduled' = TRUE
                /\ timers' = timers \cup {[m |-> current, asked |-> FALSE, files |-> changed']}
           ELSE status' = "ready" /\ UNCHANGED <<scheduled, timers>>
     \/ /\ status' = IF audience # check.tester \/ check.aborted THEN status ELSE "error"
        /\ UNCHANGED <<changed, scheduled, timers>>
  /\ CheckEnds(status')
  /\ UNCHANGED <<protected, alive, image, game, audience, current, hands, declined, made,
                 diskVars, flips>>

\* setFileUpdateAudience: whoever signed in or out, nothing of the other channel is kept.
Flip ==
  /\ alive /\ flips < MaxFlips
  /\ flips' = flips + 1
  /\ audience' = ~audience
  /\ current' = NoManifest /\ changed' = NotStaged /\ scheduled' = FALSE
  /\ status' = "checking"
  /\ check' = IF check = NoCheck THEN NewCheck(~audience)
              ELSE [check EXCEPT !.aborted = check.pc = "prepare"]
  /\ UNCHANGED <<protected, alive, image, game, timers, hands, declined, made, diskVars>>

-----------------------------------------------------------------------------
\* The five seconds pass: the launcher looks again at the game and at the manifest.
NoticeEnds(t) ==
  /\ alive /\ t \in timers
  /\ timers' = timers \ {t}
  /\ IF MayRestart(t.asked, game) /\ current = t.m
     THEN /\ hands' = hands \cup {[m |-> t.m, asked |-> t.asked, files |-> t.files]}
          /\ UNCHANGED <<status, scheduled>>
     ELSE /\ status' = IF current = t.m THEN "ready" ELSE "current"
          /\ scheduled' = FALSE
          /\ UNCHANGED hands
  /\ UNCHANGED <<protected, alive, image, game, audience, current, changed, check, declined,
                 made, diskVars, flips>>

HandOffFails(h) ==
  /\ alive /\ h \in hands
  /\ hands' = hands \ {h}
  /\ status' = "error" /\ scheduled' = FALSE
  /\ UNCHANGED <<protected, alive, image, game, audience, current, changed, check, timers,
                 declined, made, diskVars, flips>>

\* Windows asks, and the player says no.
Declines(h) ==
  /\ alive /\ protected /\ h \in hands
  /\ hands' = hands \ {h}
  /\ declined' = h.m.v /\ scheduled' = FALSE /\ status' = "ready"
  /\ UNCHANGED <<protected, alive, image, game, audience, current, changed, check, timers,
                 made, diskVars, flips>>

\* Files of the installed build that the next one does not have.
Removed(v) == {f \in File : Build[disk["app"]][f] # Absent /\ Build[v][f] = Absent}

HelperFor(h) ==
  [v |-> h.m.v, pc |-> IF protected THEN "installer" ELSE "wait", todo |-> h.files,
   gone |-> IF protected THEN {} ELSE Removed(h.m.v), kept |-> disk, applied |-> {},
   parent |-> TRUE, id |-> h.m]

Fails == faults < MaxFaults /\ faults' = faults + 1

\* The run of the launcher ends: its helpers see their parent gone.
Closed(hs) ==
  /\ alive' = FALSE
  /\ helpers' = {[h EXCEPT !.parent = FALSE] : h \in hs}
  /\ game' = "idle" /\ audience' = FALSE /\ status' = "checking" /\ current' = NoManifest
  /\ changed' = NotStaged /\ check' = NoCheck /\ scheduled' = FALSE /\ timers' = {} /\ hands' = {}
  /\ declined' = 0 /\ made' = 0

\* Nothing keeps a second helper from starting while a first one waits or works.
Meets == torn' = (torn \/ helpers # {})

\* The helper, or the installer, is known to run: the launcher quits.
HandsOver(h) ==
  /\ alive /\ h \in hands /\ Cardinality(helpers) < MaxHelpers
  /\ Closed(helpers \cup {HelperFor(h)})
  /\ Meets
  /\ UNCHANGED <<protected, image, disk, killed, faults, flips>>

\* The helper runs, but its broker was given up after thirty seconds.
HelperUnnoticed(h) ==
  /\ alive /\ ~protected /\ h \in hands /\ Cardinality(helpers) < MaxHelpers
  /\ hands' = hands \ {h}
  /\ helpers' = helpers \cup {HelperFor(h)}
  /\ status' = "error" /\ scheduled' = FALSE
  /\ Meets
  /\ UNCHANGED <<protected, alive, image, game, audience, current, changed, check, timers,
                 declined, made, disk, killed, faults, flips>>

PlayerQuits ==
  /\ alive
  /\ Closed(helpers)
  /\ UNCHANGED <<protected, image, disk, faults, ends, flips>>

Whole(files) == \E v \in Version : files = Build[v]

\* Started by hand or by a helper, while the helpers hs are there; a second instance gives
\* way to the first.
Started(hs) ==
  IF alive THEN UNCHANGED <<alive, image, ends>>
  ELSE /\ alive' = TRUE /\ image' = disk
       /\ torn' = (hs # {} \/ (torn /\ ~Whole(disk))) /\ killed' = FALSE

PlayerStarts ==
  /\ ~alive
  /\ Started(helpers)
  /\ IF helpers = {} THEN UNCHANGED faults ELSE Fails
  /\ UNCHANGED <<protected, processVars, helpers, disk, flips>>

-----------------------------------------------------------------------------
Becomes(h, g) == helpers' = (helpers \ {h}) \cup {g}

\* Mutant: a staged file that lost its hash ends the helper.
HelperBeginsOrStops(h) ==
  /\ h.pc = "wait"
  /\ \/ ~h.parent /\ Becomes(h, [h EXCEPT !.pc = "apply"]) /\ UNCHANGED faults
     \/ ~h.parent /\ Fails /\ helpers' = helpers \ {h}
     \/ h.parent /\ Becomes(h, [h EXCEPT !.pc = "restart"]) /\ UNCHANGED faults
  /\ UNCHANGED <<protected, alive, image, processVars, disk, ends, flips>>

\* The launcher is gone, and every staged file still has its hash.
HelperBegins(h) ==
  /\ h.pc = "wait"
  /\ \/ ~h.parent /\ Becomes(h, [h EXCEPT !.pc = "apply"]) /\ UNCHANGED faults
     \/ ~h.parent /\ Fails /\ Becomes(h, [h EXCEPT !.pc = "restart"])
     \/ h.parent /\ Becomes(h, [h EXCEPT !.pc = "restart"]) /\ UNCHANGED faults
  /\ UNCHANGED <<protected, alive, image, processVars, disk, ends, flips>>

\* One changed file is replaced, or, when they all are, one obsolete file moved away.
HelperApplies(h, f) ==
  /\ h.pc = "apply"
  /\ f \in IF h.todo # {} THEN h.todo ELSE h.gone
  /\ disk' = [disk EXCEPT ![f] = Build[h.v][f]]
  /\ Becomes(h, [h EXCEPT !.todo = @ \ {f}, !.gone = @ \ {f}, !.kept[f] = disk[f],
       !.applied = @ \cup {f}])
  /\ UNCHANGED <<protected, alive, image, processVars, faults, ends, flips>>

\* Any of these operations may fail, and so may the start of the new launcher.
HelperFails(h) ==
  /\ h.pc = "apply"
  /\ Fails
  /\ Becomes(h, [h EXCEPT !.pc = "back"])
  /\ UNCHANGED <<protected, alive, image, processVars, disk, ends, flips>>

\* Mutant: only the replaced files come back, the new ones stay.
HelperRestoresSome(h, f) ==
  /\ h.pc = "back" /\ f \in h.applied
  /\ disk' = [disk EXCEPT ![f] = IF h.kept[f] = Absent THEN @ ELSE h.kept[f]]
  /\ Becomes(h, [h EXCEPT !.applied = @ \ {f}])
  /\ UNCHANGED <<protected, alive, image, processVars, faults, ends, flips>>

\* What was replaced comes back from the backup, and what was new goes.
HelperRestores(h, f) ==
  /\ h.pc = "back" /\ f \in h.applied
  /\ disk' = [disk EXCEPT ![f] = h.kept[f]]
  /\ Becomes(h, [h EXCEPT !.applied = @ \ {f}])
  /\ UNCHANGED <<protected, alive, image, processVars, faults, ends, flips>>

\* A file does not come back: the rollback stops there, and the launcher is started anyway.
HelperRestoreFails(h) ==
  /\ h.pc = "back" /\ h.applied # {}
  /\ Fails
  /\ Becomes(h, [h EXCEPT !.pc = "restart"])
  /\ torn' = (torn \/ ~Whole(disk))
  /\ UNCHANGED <<protected, alive, image, processVars, disk, killed, flips>>

\* Killed anywhere, by the end of the session or the machine: nothing goes on.
HelperKilled(h) ==
  /\ h.pc # "installer"
  /\ Fails
  /\ helpers' = helpers \ {h}
  /\ torn' = (torn \/ ~Whole(disk)) /\ killed' = TRUE
  /\ UNCHANGED <<protected, alive, image, processVars, disk, flips>>

\* The new launcher starts, the restored one, or whatever the files are.
HelperEnds(h) ==
  /\ \/ h.pc = "apply" /\ h.todo \cup h.gone = {}
     \/ h.pc = "back" /\ h.applied = {}
     \/ h.pc = "restart"
  /\ Started(helpers \ {h})
  /\ helpers' = helpers \ {h}
  /\ UNCHANGED <<protected, processVars, disk, faults, flips>>

\* The signed installer does all of it, once the launcher is closed.
InstallerRuns(h) ==
  /\ h.pc = "installer" /\ ~alive
  /\ disk' = Build[h.v]
  /\ alive' = TRUE /\ image' = disk'
  /\ helpers' = helpers \ {h}
  /\ torn' = (helpers # {h}) /\ killed' = FALSE
  /\ UNCHANGED <<protected, processVars, faults, flips>>

\* Or it ends after some of the files and starts nothing.
InstallerFails(h) ==
  /\ h.pc = "installer" /\ ~alive
  /\ Fails
  /\ \E done \in SUBSET File :
       disk' = [f \in File |-> IF f \in done THEN Build[h.v][f] ELSE disk[f]]
  /\ helpers' = helpers \ {h}
  /\ torn' = (torn \/ ~Whole(disk')) /\ killed' = TRUE
  /\ UNCHANGED <<protected, alive, image, processVars, flips>>

HelperStep(h) ==
  \/ HelperBegins(h) \/ HelperEnds(h) \/ HelperFails(h) \/ HelperRestoreFails(h)
  \/ HelperKilled(h) \/ InstallerRuns(h) \/ InstallerFails(h)
  \/ \E f \in File : HelperApplies(h, f) \/ HelperRestores(h, f)

LauncherStep ==
  \/ StartCheck \/ Fetched \/ Progress \/ Prepared
  \/ \E t \in timers : NoticeEnds(t)
  \/ \E h \in hands : HandOffFails(h) \/ Declines(h) \/ HandsOver(h) \/ HelperUnnoticed(h)

Next ==
  \/ LauncherStep
  \/ GameStarts \/ GameEnds("idle") \/ GameEnds("crashed") \/ PlayerAsks
  \/ Flip \/ PlayerQuits \/ PlayerStarts
  \/ \E h \in helpers : HelperStep(h)

Spec == Init /\ [][Next]_vars

\* Helpers are processes of their own: they go on whatever the launcher does.
FairSpec == Spec /\ WF_vars(\E h \in helpers : HelperStep(h))

-----------------------------------------------------------------------------
\* The build that a set of files is, 0 for a mixture.
BuildOf(files) ==
  IF \E v \in Version : Build[v] = files THEN CHOOSE v \in Version : Build[v] = files ELSE 0

\* Whatever fails and is put back, the launcher that starts is one build, and never an
\* older one; except when a rollback fails as well or a kill leaves a mixture, and when a
\* helper meets another one or a launcher that the player starts meanwhile.  The next start
\* from one build, with no helper about, ends the exception (file-update-helper.ps1 as the
\* launcher uses it).
Update == INSTANCE AtomicUpdate WITH build <- BuildOf(image)
UpdatesAtomically == Update!AbsSpec

\* An update that is ready waits for a reason: a game, a crash on the screen, the
\* player's no, or what is already on the way.  No end of a game and no check goes by without installing it.
ReadyWaits ==
  status = "ready" /\ alive /\ current # NoManifest /\ changed # NotStaged =>
    \/ ~MayRestart(FALSE, game) \/ declined # 0
    \/ hands \cup timers # {}

\* The player who watched the launcher close for an update gets it back, whatever fails
\* in the helper, unless the helper or the installer is killed.
ComesBack == (helpers # {} /\ ~alive) ~> (alive \/ killed)

=============================================================================
