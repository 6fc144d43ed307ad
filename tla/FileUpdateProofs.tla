-------------------------- MODULE FileUpdateProofs --------------------------
(***************************************************************************)
(* What an update of the launcher promises, for any builds, files and      *)
(* channels and any number of checks, sign-ins and failing operations.     *)
(***************************************************************************)
EXTENDS FileUpdate, FiniteSetTheorems, TLAPS

\* A closed launcher keeps nothing of what it had begun.
ClosedInv ==
  ~alive => /\ status = "checking" /\ current = NoManifest /\ changed = NotStaged
            /\ check = NoCheck /\ ~scheduled /\ timers = {} /\ hands = {}

\* The manifest of a check that prepares its files is the current one, or none is.
CheckInv ==
  check # NoCheck /\ check.pc = "prepare" /\ current # NoManifest =>
    current = check.m /\ audience = check.tester

NoticeInv == scheduled => hands \cup timers # {}

WaitInv == TypeOK /\ ClosedInv /\ CheckInv /\ NoticeInv /\ ReadyWaits

-----------------------------------------------------------------------------
\* The files an update to v replaces, those it takes away, and both.
Staged(v) == {f \in File : Build[v][f] # Absent /\ image[f] # Build[v][f]}
Obsolete(v) == {f \in File : image[f] # Absent /\ Build[v][f] = Absent}
Changes(v) == {f \in File : image[f] # Build[v][f]}

\* A manifest this run of the launcher fetched, of a build newer than its own.
Fetchable(m) == m.id <= made /\ m.v > image["app"]

\* What is about to be installed is newer than what runs, and its files are those it changes.
StagedInv ==
  /\ current # NoManifest => Fetchable(current)
  /\ check # NoCheck /\ check.pc = "prepare" => Fetchable(check.m)
  /\ \A t \in timers \cup hands :
       /\ Fetchable(t.m)
       /\ ~protected => t.files = Staged(t.m.v)
       /\ ~protected /\ current # NoManifest /\ current = t.m => changed = Staged(t.m.v)
  /\ ~protected /\ status = "ready" /\ current # NoManifest /\ changed # NotStaged =>
       changed = Staged(current.v)

\* What a helper has replaced so far is of the new build, all else of the one that ran.
Mixed(h) == [f \in File |-> IF f \in h.applied THEN Build[h.v][f] ELSE image[f]]

HelperInv(h) ==
  /\ h.v > image["app"] /\ h.kept = image /\ disk = Mixed(h)
  /\ h.parent <=> alive
  /\ h.pc \in {"apply", "back", "installer"} => ~alive
  /\ h.pc \in {"wait", "installer"} => h.applied = {}
  /\ h.pc = "restart" => disk = image \/ (~alive /\ disk = Build[h.v])
  /\ h.pc \in {"wait", "apply"} => /\ h.todo \cup h.gone \cup h.applied = Changes(h.v)
                                   /\ (h.todo \cup h.gone) \cap h.applied = {}

\* The launcher was started from one build.  Only a helper makes the installed files differ,
\* or one that had done everything when it was killed.
DiskInv ==
  /\ \E v \in Version : image = Build[v]
  /\ \/ helpers = {} /\ disk = image
     \/ helpers = {} /\ ~alive /\ \E w \in Version : disk = Build[w] /\ w >= image["app"]
     \/ \E h \in Helper : helpers = {h} /\ HelperInv(h)

\* What holds until the files are torn, and again when the launcher starts from one build.
Inv == WaitInv /\ StagedInv /\ DiskInv

UntornInv == WaitInv /\ (~torn => StagedInv /\ DiskInv)

-----------------------------------------------------------------------------
LEMMA BoundTypes ==
  /\ MaxHelpers \in Nat /\ MaxChecks \in Nat /\ MaxFlips \in Nat /\ MaxFaults \in Nat
<1>1. {MaxHelpers, MaxChecks, MaxTorn, MaxFlips, MaxFaults} \subseteq Nat
  BY UpdateAssumption
<1> QED BY <1>1

LEMMA NoticeTypes ==
  ASSUME NEW m \in Manifest, NEW asked \in BOOLEAN, NEW files \in SUBSET File
  PROVE  [m |-> m, asked |-> asked, files |-> files] \in Notice \cap HandOff
BY Zenon DEF Notice, HandOff

LEMMA NoticeFields ==
  ASSUME NEW t \in Notice \cup HandOff
  PROVE  t.m \in Manifest /\ t.asked \in BOOLEAN /\ t.files \in SUBSET File
BY DEF Notice, HandOff

LEMMA ManifestFields ==
  ASSUME NEW m \in Manifest
  PROVE  /\ m.v \in Version /\ m.v \in Nat /\ m.v # 0 /\ m.tester \in BOOLEAN
         /\ m.id \in 1..MaxChecks
BY UpdateAssumption DEF Manifest

LEMMA CheckTypes ==
  ASSUME NEW tester \in BOOLEAN, NEW m \in Manifest, NEW aborted \in BOOLEAN
  PROVE  /\ NewCheck(tester) \in Check
         /\ [tester |-> tester, pc |-> "prepare", m |-> m, aborted |-> aborted] \in Check
<1>1. NewCheck(tester) \in [tester : BOOLEAN, pc : {"fetch"}, m : {NoManifest}, aborted : {FALSE}]
  BY Zenon DEF NewCheck
<1>2. [tester |-> tester, pc |-> "prepare", m |-> m, aborted |-> aborted]
        \in [tester : BOOLEAN, pc : {"prepare"}, m : Manifest, aborted : BOOLEAN]
  BY Zenon
<1> QED BY Zenon, <1>1, <1>2 DEF Check

LEMMA CheckFields ==
  ASSUME NEW c \in Check
  PROVE  /\ c.tester \in BOOLEAN
         /\ \/ c.pc = "fetch" /\ c.m = NoManifest
               /\ c = [tester |-> c.tester, pc |-> "fetch", m |-> NoManifest, aborted |-> FALSE]
            \/ /\ c.pc = "prepare" /\ c.m \in Manifest /\ c.aborted \in BOOLEAN
               /\ c = [tester |-> c.tester, pc |-> "prepare", m |-> c.m, aborted |-> c.aborted]
<1>1. CASE c \in [tester : BOOLEAN, pc : {"fetch"}, m : {NoManifest}, aborted : {FALSE}]
  BY Zenon, <1>1
<1>2. CASE c \in [tester : BOOLEAN, pc : {"prepare"}, m : Manifest, aborted : BOOLEAN]
  BY Zenon, <1>2
<1> QED BY <1>1, <1>2 DEF Check

AnyCheck ==
  [tester : BOOLEAN, pc : {"fetch", "prepare"}, m : Manifest \cup {NoManifest}, aborted : BOOLEAN]

LEMMA AnyCheckFields ==
  ASSUME NEW c \in AnyCheck
  PROVE  /\ c.tester \in BOOLEAN /\ c.aborted \in BOOLEAN
         /\ c = [tester |-> c.tester, pc |-> c.pc, m |-> c.m, aborted |-> c.aborted]
BY Zenon DEF AnyCheck

LEMMA CheckIsAny == Check \subseteq AnyCheck
<1>1. \A c \in [tester : BOOLEAN, pc : {"fetch"}, m : {NoManifest}, aborted : {FALSE}] :
        c \in AnyCheck
  <2> SUFFICES ASSUME NEW c \in [tester : BOOLEAN, pc : {"fetch"}, m : {NoManifest},
                                 aborted : {FALSE}]
               PROVE  c \in AnyCheck
    OBVIOUS
  <2>1. c.tester \in BOOLEAN /\ c.aborted \in BOOLEAN /\ c.pc = "fetch" /\ c.m = NoManifest
    BY Zenon
  <2>2. c.pc \in {"fetch", "prepare"} /\ c.m \in Manifest \cup {NoManifest}
    BY <2>1
  <2> QED BY Zenon, <2>1, <2>2 DEF AnyCheck
<1>2. \A c \in [tester : BOOLEAN, pc : {"prepare"}, m : Manifest, aborted : BOOLEAN] :
        c \in AnyCheck
  BY DEF AnyCheck
<1> QED BY <1>1, <1>2 DEF Check

LEMMA CheckPrepares ==
  ASSUME NEW c \in Check, c.pc = "fetch", NEW m \in Manifest
  PROVE  LET d == [c EXCEPT !.pc = "prepare", !.m = m] IN
         d \in Check /\ d.pc = "prepare" /\ d.m = m /\ d.tester = c.tester
<1> DEFINE d == [c EXCEPT !.pc = "prepare", !.m = m]
<1>1. d \in AnyCheck /\ d.pc = "prepare" /\ d.m = m /\ d.tester = c.tester
  BY CheckIsAny DEF AnyCheck
<1> HIDE DEF d
<1>2. d = [tester |-> d.tester, pc |-> "prepare", m |-> m, aborted |-> d.aborted]
  BY Zenon, <1>1, AnyCheckFields
<1>3. d \in [tester : BOOLEAN, pc : {"prepare"}, m : Manifest, aborted : BOOLEAN]
  BY Zenon, <1>1, <1>2, AnyCheckFields
<1>4. d \in Check
  BY Zenon, <1>3 DEF Check
<1> QED BY Zenon, <1>1, <1>4 DEF d

LEMMA CheckAborts ==
  ASSUME NEW c \in Check, NEW b \in BOOLEAN, b => c.pc = "prepare"
  PROVE  LET d == [c EXCEPT !.aborted = b] IN
         d \in Check /\ d.pc = c.pc /\ d.m = c.m
<1> DEFINE d == [c EXCEPT !.aborted = b]
<1>1. d \in AnyCheck /\ d.pc = c.pc /\ d.m = c.m /\ c \in AnyCheck
  BY CheckIsAny DEF AnyCheck
<1>2. d.aborted = b
  BY Zenon, <1>1 DEF AnyCheck
<1> HIDE DEF d
<1>3. d = [tester |-> d.tester, pc |-> c.pc, m |-> c.m, aborted |-> b] /\ d.tester \in BOOLEAN
  BY Zenon, <1>1, <1>2, AnyCheckFields
<1>4. CASE c.pc = "fetch"
  <2>1. c.m = NoManifest /\ b = FALSE
    <3>1. c.pc # "prepare"
      BY <1>4
    <3> QED BY Zenon, <3>1, CheckFields
  <2>2. d = [tester |-> d.tester, pc |-> "fetch", m |-> NoManifest, aborted |-> FALSE]
    <3>1. c.pc = "fetch"
      BY <1>4
    <3> QED BY Zenon, <1>3, <2>1, <3>1
  <2>3. [tester |-> d.tester, pc |-> "fetch", m |-> NoManifest, aborted |-> FALSE] \in Check
    <3>1. [tester |-> d.tester, pc |-> "fetch", m |-> NoManifest, aborted |-> FALSE]
            \in [tester : BOOLEAN, pc : {"fetch"}, m : {NoManifest}, aborted : {FALSE}]
      BY Zenon, <1>3
    <3> QED BY Zenon, <3>1 DEF Check
  <2> QED BY Zenon, <1>1, <2>2, <2>3 DEF d
<1>5. CASE c.pc = "prepare"
  <2>1. c.m \in Manifest
    <3>1. c.pc # "fetch"
      BY <1>5
    <3> QED BY Zenon, <3>1, CheckFields
  <2>2. d = [tester |-> d.tester, pc |-> "prepare", m |-> c.m, aborted |-> b]
    <3>1. c.pc = "prepare"
      BY <1>5
    <3> QED BY Zenon, <1>3, <3>1
  <2>3. [tester |-> d.tester, pc |-> "prepare", m |-> c.m, aborted |-> b] \in Check
    BY Zenon, <1>3, <2>1, CheckTypes
  <2> QED BY Zenon, <1>1, <2>2, <2>3 DEF d
<1> QED BY Zenon, <1>4, <1>5, CheckFields

\* The check that follows a check, if one does, begins with the manifest.
LEMMA CheckEndsType ==
  ASSUME TypeOK, NEW st, CheckEnds(st)
  PROVE  check' \in Check \cup {NoCheck} /\ (check' # NoCheck => check'.pc = "fetch")
<1>1. audience \in BOOLEAN
  BY DEF TypeOK
<1>2. NewCheck(audience) \in Check /\ NewCheck(audience).pc = "fetch"
  <2>1. NewCheck(audience) \in [tester : BOOLEAN, pc : {"fetch"}, m : {NoManifest}, aborted : {FALSE}]
    BY Zenon, <1>1 DEF NewCheck
  <2> QED BY Zenon, <2>1 DEF Check
<1>3. check' = NewCheck(audience) \/ check' = NoCheck
  BY Zenon DEF CheckEnds
<1> QED BY <1>2, <1>3

LEMMA LauncherTypes ==
  TypeOK => /\ protected \in BOOLEAN /\ alive \in BOOLEAN /\ audience \in BOOLEAN
            /\ scheduled \in BOOLEAN /\ torn \in BOOLEAN /\ killed \in BOOLEAN
BY DEF TypeOK

-----------------------------------------------------------------------------
(* A try to install either puts up a notice or leaves an update that is ready *)
(* to something else it waits for.                                            *)
LEMMA TryInstallWaits ==
  ASSUME WaitInv, alive, NEW asked \in BOOLEAN, TryInstall(asked, status, game'),
         ~asked \/ game' = game,
         UNCHANGED <<alive, current, changed, declined, hands>>
  PROVE  /\ status' \in State /\ scheduled' \in BOOLEAN /\ timers' \subseteq Notice
         /\ NoticeInv' /\ ReadyWaits'
<1>1. CASE /\ status = "ready" /\ ~scheduled /\ MayRestart(asked, game')
           /\ current # NoManifest /\ changed # NotStaged
           /\ asked \/ declined # current.v
  <2>1. /\ status' = "installing" /\ scheduled' = TRUE
        /\ timers' = timers \cup {[m |-> current, asked |-> asked, files |-> changed]}
    BY Zenon, <1>1 DEF TryInstall
  <2>2. scheduled' \in BOOLEAN
    BY Zenon, <2>1
  <2>3. current \in Manifest /\ changed \in SUBSET File /\ timers \subseteq Notice
    <3>1. current # NoManifest /\ changed # NotStaged
      BY Zenon, <1>1
    <3> QED BY <3>1 DEF WaitInv, TypeOK
  <2>4. timers' \subseteq Notice
    BY <2>1, <2>3, NoticeTypes
  <2>5. status' = "installing" /\ timers' # {}
    BY <2>1
  <2>6. NoticeInv' /\ ReadyWaits'
    BY Zenon, <2>5 DEF NoticeInv, ReadyWaits
  <2> QED BY <2>2, <2>4, <2>5, <2>6 DEF State
<1>2. CASE ~(/\ status = "ready" /\ ~scheduled /\ MayRestart(asked, game')
             /\ current # NoManifest /\ changed # NotStaged
             /\ asked \/ declined # current.v)
  <2>1. status' = status /\ UNCHANGED <<scheduled, timers>>
    BY Zenon, <1>2 DEF TryInstall
  <2>2. NoticeInv'
    BY <2>1 DEF WaitInv, NoticeInv
  <2>3. ReadyWaits'
    <3> SUFFICES ASSUME status' = "ready", current' # NoManifest, changed' # NotStaged
                 PROVE  ~MayRestart(FALSE, game') \/ declined' # 0 \/ hands' \cup timers' # {}
      BY DEF ReadyWaits
    <3>1. CASE asked
      BY <2>1, <3>1 DEF WaitInv, ReadyWaits
    <3>2. CASE ~asked /\ ~scheduled
      <4>1. ~MayRestart(asked, game') \/ declined = current.v
        BY <1>2, <2>1, <3>2
      <4>2. current.v # 0
        BY ManifestFields DEF WaitInv, TypeOK
      <4>3. MayRestart(asked, game') <=> MayRestart(FALSE, game')
        BY Zenon, <3>2 DEF MayRestart
      <4> QED BY <4>1, <4>2, <4>3
    <3>3. CASE scheduled
      BY <2>1, <3>3 DEF WaitInv, NoticeInv
    <3> QED BY <3>1, <3>2, <3>3
  <2> QED BY <2>1, <2>2, <2>3, LauncherTypes DEF WaitInv, TypeOK
<1> QED BY <1>1, <1>2

LEMMA GameWaits ==
  ASSUME WaitInv, GameStarts \/ GameEnds("idle") \/ GameEnds("crashed") \/ PlayerAsks
  PROVE  WaitInv'
<1>1. /\ alive
      /\ UNCHANGED <<protected, alive, image, audience, current, changed, check, hands,
                     declined, made, helpers, disk, faults, torn, killed, flips>>
      /\ game' \in {"idle", "busy", "crashed"}
  BY DEF GameStarts, GameEnds, PlayerAsks, diskVars, ends, WaitInv, TypeOK
<1>2. CASE GameStarts
  <2>1. game' = "busy" /\ UNCHANGED <<status, scheduled, timers>>
    BY <1>2 DEF GameStarts
  <2> QED BY <1>1, <2>1 DEF WaitInv, TypeOK, ClosedInv, CheckInv, NoticeInv, ReadyWaits, MayRestart
<1>3. CASE GameEnds("idle") \/ GameEnds("crashed") \/ PlayerAsks
  <2>1. /\ status' \in State /\ scheduled' \in BOOLEAN /\ timers' \subseteq Notice
        /\ NoticeInv' /\ ReadyWaits'
    <3>1. CASE GameEnds("idle") \/ GameEnds("crashed")
      <4>1. TryInstall(FALSE, status, game')
        BY <3>1 DEF GameEnds
      <4> QED BY <1>1, <4>1, TryInstallWaits
    <3>2. CASE PlayerAsks
      <4>1. TryInstall(TRUE, status, game') /\ game' = game
        BY <3>2 DEF PlayerAsks
      <4> QED BY <1>1, <4>1, TryInstallWaits
    <3> QED BY <1>3, <3>1, <3>2
  <2>2. TypeOK'
    BY <1>1, <2>1 DEF WaitInv, TypeOK
  <2> QED BY <1>1, <2>1, <2>2 DEF WaitInv, ClosedInv, CheckInv
<1> QED BY <1>2, <1>3

-----------------------------------------------------------------------------
LEMMA StartCheckWaits == WaitInv /\ StartCheck => WaitInv'
<1> SUFFICES ASSUME WaitInv, StartCheck PROVE WaitInv'
  OBVIOUS
<1>1. /\ alive /\ check' = NewCheck(audience)
      /\ UNCHANGED <<protected, alive, image, game, audience, status, current, changed, scheduled,
                     timers, hands, declined, made, helpers, disk, faults, torn, killed, flips>>
  BY DEF StartCheck, diskVars, ends
<1>2. audience \in BOOLEAN
  BY LauncherTypes DEF WaitInv
<1>3. check' \in Check /\ check'.pc = "fetch"
  <2>1. check'.pc = "fetch"
    BY <1>1 DEF NewCheck
  <2>2. check' \in [tester : BOOLEAN, pc : {"fetch"}, m : {NoManifest}, aborted : {FALSE}]
    BY Zenon, <1>1, <1>2 DEF NewCheck
  <2> QED BY Zenon, <2>1, <2>2 DEF Check
<1> QED BY <1>1, <1>3 DEF WaitInv, TypeOK, ClosedInv, CheckInv, NoticeInv, ReadyWaits

LEMMA FetchedWaits == WaitInv /\ Fetched => WaitInv'
<1> SUFFICES ASSUME WaitInv, Fetched PROVE WaitInv'
  OBVIOUS
<1>1. /\ alive /\ check # NoCheck /\ check.pc = "fetch"
      /\ UNCHANGED <<protected, alive, image, game, audience, changed, scheduled, timers, hands,
                     declined, helpers, disk, faults, torn, killed, flips>>
  BY DEF Fetched, diskVars, ends
<1>2. check \in Check
  BY <1>1 DEF WaitInv, TypeOK
<1>3. CASE /\ status' \in {"error", "current", status}
           /\ CheckEnds(status')
           /\ UNCHANGED <<current, made>>
  <2>1. check' \in Check \cup {NoCheck} /\ (check' # NoCheck => check'.pc = "fetch")
    BY <1>3, CheckEndsType DEF WaitInv
  <2>2. TypeOK'
    BY <1>1, <1>3, <2>1 DEF WaitInv, TypeOK, State
  <2>3. ClosedInv' /\ NoticeInv'
    BY <1>1 DEF WaitInv, ClosedInv, NoticeInv
  <2>4. CheckInv' /\ ReadyWaits'
    BY <1>1, <1>3, <2>1 DEF WaitInv, CheckInv, ReadyWaits
  <2> QED BY <2>2, <2>3, <2>4 DEF WaitInv
<1>4. CASE /\ audience = check.tester
           /\ made < MaxChecks
           /\ status' = "available" /\ made' = made + 1
           /\ current' = [v |-> Offer[check.tester], tester |-> check.tester, id |-> made + 1]
           /\ check' = [check EXCEPT !.pc = "prepare", !.m = current']
  <2>1. check.tester \in BOOLEAN /\ audience = check.tester
    BY Zenon, <1>2, <1>4, CheckFields
  <2>2. current' \in Manifest
    <3>1. Offer[check.tester] \in Version
      BY <2>1, UpdateAssumption
    <3>2. made + 1 \in 1..MaxChecks
      BY <1>4, BoundTypes DEF WaitInv, TypeOK
    <3> QED BY Zenon, <1>4, <2>1, <3>1, <3>2 DEF Manifest
  <2>3. /\ check' \in Check /\ check'.pc = "prepare"
        /\ check'.m = current' /\ check'.tester = check.tester
    BY Zenon, <1>1, <1>2, <1>4, <2>2, CheckPrepares
  <2>6. made' \in 0..MaxChecks
    BY <1>4, BoundTypes DEF WaitInv, TypeOK
  <2>7. TypeOK'
    <3>1. status' = "available"
      BY <1>4
    <3> QED BY <1>1, <2>2, <2>3, <2>6, <3>1 DEF WaitInv, TypeOK, State
  <2>8. CheckInv'
    BY Zenon, <1>1, <2>1, <2>3 DEF CheckInv
  <2>9. status' = "available"
    BY <1>4
  <2> QED BY <1>1, <2>7, <2>8, <2>9 DEF WaitInv, ClosedInv, NoticeInv, ReadyWaits
<1> QED BY <1>3, <1>4 DEF Fetched

LEMMA ProgressWaits == WaitInv /\ Progress => WaitInv'
<1> SUFFICES ASSUME WaitInv, Progress PROVE WaitInv'
  OBVIOUS
<1>1. /\ alive /\ status' = "downloading"
      /\ UNCHANGED <<protected, alive, image, game, audience, current, changed, check, scheduled,
                     timers, hands, declined, made, helpers, disk, faults, torn, killed, flips>>
  BY DEF Progress, diskVars, ends
<1> QED BY <1>1 DEF WaitInv, TypeOK, State, ClosedInv, CheckInv, NoticeInv, ReadyWaits

(* Files staged for a manifest that is no longer the current one are never    *)
(* ready: then there is none.                                                 *)
LEMMA PreparedWaits == WaitInv /\ Prepared => WaitInv'
<1> SUFFICES ASSUME WaitInv, Prepared PROVE WaitInv'
  OBVIOUS
<1>1. /\ alive /\ check # NoCheck /\ check.pc = "prepare" /\ CheckEnds(status')
      /\ UNCHANGED <<protected, alive, image, game, audience, current, hands, declined, made,
                     helpers, disk, faults, torn, killed, flips>>
  BY DEF Prepared, diskVars, ends
<1>2. check' \in Check \cup {NoCheck} /\ (check' # NoCheck => check'.pc = "fetch")
  BY <1>1, CheckEndsType DEF WaitInv
<1>3. ClosedInv' /\ CheckInv'
  BY <1>1, <1>2 DEF ClosedInv, CheckInv
<1>4. \/ changed' = changed
      \/ changed' \in SUBSET File
  BY DEF Prepared, Differing
<1>5. changed' \in (SUBSET File) \cup {NotStaged}
  BY <1>4 DEF WaitInv, TypeOK
<1>6. CASE /\ changed' \in SUBSET File
           /\ audience # check.tester \/ current # check.m
           /\ UNCHANGED <<status, scheduled, timers>>
  <2>1. current = NoManifest
    <3>1. CASE audience # check.tester
      BY Zenon, <1>1, <3>1 DEF WaitInv, CheckInv
    <3>2. CASE current # check.m
      BY Zenon, <1>1, <3>2 DEF WaitInv, CheckInv
    <3> QED BY Zenon, <1>6, <3>1, <3>2
  <2> QED BY <1>1, <1>2, <1>3, <1>5, <1>6, <2>1 DEF WaitInv, TypeOK, NoticeInv, ReadyWaits
<1>7. CASE /\ changed' \in SUBSET File /\ current = check.m
           /\ status' = "installing" /\ scheduled' = TRUE
           /\ timers' = timers \cup {[m |-> current, asked |-> FALSE, files |-> changed']}
  <2>1. scheduled' \in BOOLEAN
    BY Zenon, <1>7
  <2>2. current \in Manifest
    <3>1. check \in Check
      BY <1>1 DEF WaitInv, TypeOK
    <3> QED BY <1>1, <1>7, <3>1, CheckFields
  <2>3. status' = "installing" /\ timers' # {} /\ timers' \subseteq Notice
    <3>1. [m |-> current, asked |-> FALSE, files |-> changed'] \in Notice
      BY Zenon, <1>7, <2>2, NoticeTypes
    <3> QED BY <1>7, <3>1 DEF WaitInv, TypeOK
  <2>4. NoticeInv' /\ ReadyWaits'
    BY Zenon, <2>3 DEF NoticeInv, ReadyWaits
  <2>5. TypeOK'
    BY <1>1, <1>2, <1>5, <2>1, <2>3 DEF WaitInv, TypeOK, State
  <2> QED BY <1>3, <2>4, <2>5 DEF WaitInv
<1>8. CASE /\ scheduled \/ ~MayRestart(FALSE, game) \/ declined = current.v
           /\ current = check.m /\ status' = "ready" /\ UNCHANGED <<scheduled, timers>>
  <2>1. current \in Manifest
    <3>1. check \in Check
      BY <1>1 DEF WaitInv, TypeOK
    <3> QED BY <1>1, <1>8, <3>1, CheckFields
  <2>2. current.v # 0
    BY <2>1, ManifestFields
  <2>3. NoticeInv'
    BY <1>1, <1>8 DEF WaitInv, NoticeInv
  <2>4. ~MayRestart(FALSE, game) \/ declined # 0 \/ hands \cup timers # {}
    BY <1>8, <2>2 DEF WaitInv, NoticeInv
  <2>5. ReadyWaits'
    BY <1>1, <1>8, <2>4 DEF ReadyWaits
  <2>6. TypeOK'
    BY <1>1, <1>2, <1>5, <1>8 DEF WaitInv, TypeOK, State
  <2> QED BY <1>3, <2>3, <2>5, <2>6 DEF WaitInv
<1>9. CASE status' \in {status, "error"} /\ UNCHANGED <<changed, scheduled, timers>>
  BY <1>1, <1>2, <1>3, <1>9 DEF WaitInv, TypeOK, State, NoticeInv, ReadyWaits
<1>10. \/ /\ changed' = IF protected THEN {} ELSE Differing(check.m.v)
          /\ IF audience # check.tester \/ current # check.m
             THEN UNCHANGED <<status, scheduled, timers>>
             ELSE IF ~scheduled /\ MayRestart(FALSE, game) /\ declined # current.v
             THEN /\ status' = "installing" /\ scheduled' = TRUE
                  /\ timers' = timers \cup {[m |-> current, asked |-> FALSE, files |-> changed']}
             ELSE status' = "ready" /\ UNCHANGED <<scheduled, timers>>
       \/ status' \in {status, "error"} /\ UNCHANGED <<changed, scheduled, timers>>
  BY DEF Prepared
<1>11. (IF protected THEN {} ELSE Differing(check.m.v)) \in SUBSET File
  BY DEF Differing
<1> QED BY Zenon, <1>6, <1>7, <1>8, <1>9, <1>10, <1>11

LEMMA FlipWaits == WaitInv /\ Flip => WaitInv'
<1> SUFFICES ASSUME WaitInv, Flip PROVE WaitInv'
  OBVIOUS
<1>1. /\ alive /\ flips' = flips + 1 /\ flips < MaxFlips /\ current' = NoManifest
      /\ changed' = NotStaged /\ status' = "checking"
      /\ UNCHANGED <<protected, alive, image, game, timers, hands, declined, made,
                     helpers, disk, faults, torn, killed>>
  BY DEF Flip, diskVars, ends
<1>2. audience' \in BOOLEAN /\ scheduled' \in BOOLEAN /\ ~scheduled'
  BY Zenon DEF Flip
<1>3. check' \in Check
  <2>1. CASE check = NoCheck
    <3>1. check' = NewCheck(~audience) /\ (~audience) \in BOOLEAN
      BY Zenon, <2>1 DEF Flip
    <3>2. check' \in [tester : BOOLEAN, pc : {"fetch"}, m : {NoManifest}, aborted : {FALSE}]
      BY Zenon, <3>1 DEF NewCheck
    <3> QED BY Zenon, <3>2 DEF Check
  <2>2. CASE check # NoCheck
    <3>1. check' = [check EXCEPT !.aborted = check.pc = "prepare"] /\ check \in Check
      <4>1. check \in Check
        BY <2>2 DEF WaitInv, TypeOK
      <4> QED BY Zenon, <2>2, <4>1 DEF Flip
    <3>2. (check.pc = "prepare") \in BOOLEAN
      BY Zenon
    <3> QED BY Zenon, <3>1, <3>2, CheckAborts
  <2> QED BY <2>1, <2>2
<1>4. flips' \in 0..MaxFlips
  BY <1>1, BoundTypes DEF WaitInv, TypeOK
<1> QED BY <1>1, <1>2, <1>3, <1>4
        DEF WaitInv, TypeOK, State, ClosedInv, CheckInv, NoticeInv, ReadyWaits

-----------------------------------------------------------------------------
LEMMA HelperType ==
  ASSUME NEW v \in Version, NEW pc \in {"wait", "apply", "back", "restart", "installer"},
         NEW todo \in SUBSET File, NEW gone \in SUBSET File, NEW applied \in SUBSET File,
         NEW kept \in [File -> Version \cup {Absent}], NEW parent \in BOOLEAN, NEW m \in Manifest
  PROVE  [v |-> v, pc |-> pc, todo |-> todo, gone |-> gone, kept |-> kept,
          applied |-> applied, parent |-> parent, id |-> m] \in Helper
BY Zenon DEF Helper

LEMMA HelperForType ==
  ASSUME TypeOK, NEW h \in HandOff
  PROVE  HelperFor(h) \in Helper
<1> DEFINE pc == IF protected THEN "installer" ELSE "wait"
           gone == IF protected THEN {} ELSE Removed(h.m.v)
<1>1. h.m \in Manifest /\ h.m.v \in Version /\ h.files \in SUBSET File
  BY NoticeFields, ManifestFields
<1>2. pc \in {"wait", "apply", "back", "restart", "installer"} /\ gone \in SUBSET File
  BY DEF Removed
<1>3. disk \in [File -> Version \cup {Absent}] /\ {} \in SUBSET File
  BY DEF TypeOK
<1>4. HelperFor(h) = [v |-> h.m.v, pc |-> pc, todo |-> h.files, gone |-> gone, kept |-> disk,
                      applied |-> {}, parent |-> TRUE, id |-> h.m]
  BY Zenon DEF HelperFor
<1> HIDE DEF pc, gone
<1>5. \A parent \in BOOLEAN :
        [v |-> h.m.v, pc |-> pc, todo |-> h.files, gone |-> gone, kept |-> disk,
         applied |-> {}, parent |-> parent, id |-> h.m] \in Helper
  BY <1>1, <1>2, <1>3, HelperType
<1> QED BY Zenon, <1>4, <1>5

LEMMA NoticeEndsWaits ==
  ASSUME WaitInv, NEW t \in timers, NoticeEnds(t)
  PROVE  WaitInv'
<1>1. /\ alive /\ timers' = timers \ {t}
      /\ UNCHANGED <<protected, alive, image, game, audience, current, changed, check, declined,
                     made, helpers, disk, faults, torn, killed, flips>>
  BY DEF NoticeEnds, diskVars, ends
<1>2. t \in Notice /\ timers' \subseteq Notice
  BY <1>1 DEF WaitInv, TypeOK
<1>3. t.m \in Manifest /\ t.asked \in BOOLEAN /\ t.files \in SUBSET File
  BY <1>2, NoticeFields
<1>4. CASE MayRestart(t.asked, game) /\ current = t.m
  <2>1. /\ hands' = hands \cup {[m |-> t.m, asked |-> t.asked, files |-> t.files]}
        /\ UNCHANGED <<status, scheduled>>
    BY <1>4 DEF NoticeEnds
  <2>2. [m |-> t.m, asked |-> t.asked, files |-> t.files] \in HandOff
    BY Zenon, <1>3, NoticeTypes
  <2>3. hands' \subseteq HandOff /\ hands' # {}
    BY <2>1, <2>2 DEF WaitInv, TypeOK
  <2>4. NoticeInv' /\ ReadyWaits'
    BY <2>3 DEF NoticeInv, ReadyWaits
  <2> QED BY <1>1, <1>2, <2>1, <2>3, <2>4 DEF WaitInv, TypeOK, ClosedInv, CheckInv
<1>5. CASE ~(MayRestart(t.asked, game) /\ current = t.m)
  <2>1. /\ status' = IF current = t.m THEN "ready" ELSE "current"
        /\ scheduled' = FALSE /\ hands' = hands
    BY Zenon, <1>5 DEF NoticeEnds
  <2>2. scheduled' \in BOOLEAN /\ ~scheduled'
    BY Zenon, <2>1
  <2>3. status' \in State /\ hands' = hands
    BY <2>1 DEF State
  <2>4. ReadyWaits'
    <3>1. CASE current = t.m
      <4>1. ~MayRestart(FALSE, game)
        BY Zenon, <1>5, <3>1 DEF MayRestart
      <4> QED BY <1>1, <4>1 DEF ReadyWaits
    <3>2. CASE current # t.m
      <4>1. status' = "current"
        BY <2>1, <3>2
      <4> QED BY <4>1 DEF ReadyWaits
    <3> QED BY <3>1, <3>2
  <2> QED BY <1>1, <1>2, <2>2, <2>3, <2>4
          DEF WaitInv, TypeOK, ClosedInv, CheckInv, NoticeInv
<1> QED BY <1>4, <1>5

LEMMA HandOffWaits ==
  ASSUME WaitInv, NEW h \in hands, HandOffFails(h) \/ Declines(h) \/ HelperUnnoticed(h)
  PROVE  WaitInv'
<1>1. /\ alive /\ hands' = hands \ {h}
      /\ UNCHANGED <<protected, alive, image, game, audience, current, changed, check, timers,
                     made, disk, faults, killed, flips>>
  BY DEF HandOffFails, Declines, HelperUnnoticed, diskVars, ends
<1>2. scheduled' \in BOOLEAN /\ ~scheduled' /\ torn' \in BOOLEAN
  <2>1. torn' = torn \/ torn' = (torn \/ helpers # {})
    BY Zenon DEF HandOffFails, Declines, HelperUnnoticed, diskVars, ends, Meets
  <2> QED BY Zenon, <2>1, LauncherTypes DEF HandOffFails, Declines, HelperUnnoticed, WaitInv
<1>3. h \in HandOff /\ h.m \in Manifest /\ hands' \subseteq HandOff
  BY <1>1, NoticeFields DEF WaitInv, TypeOK
<1>4. helpers' = helpers \/ helpers' = helpers \cup {HelperFor(h)}
  BY DEF HandOffFails, Declines, HelperUnnoticed, diskVars, ends
<1>5. helpers' \subseteq Helper
  BY <1>3, <1>4, HelperForType DEF WaitInv, TypeOK
<1>6. \/ status' = "error" /\ declined' = declined
      \/ status' = "ready" /\ declined' = h.m.v
  BY DEF HandOffFails, Declines, HelperUnnoticed, diskVars, ends
<1>7. status' \in State /\ declined' \in Version \cup {0} /\ ReadyWaits'
  BY <1>3, <1>6, ManifestFields DEF WaitInv, TypeOK, State, ReadyWaits
<1> QED BY <1>1, <1>2, <1>3, <1>5, <1>7 DEF WaitInv, TypeOK, ClosedInv, CheckInv, NoticeInv

LEMMA ClosedWaits ==
  ASSUME WaitInv, NEW hs \in SUBSET Helper, Closed(hs), torn' \in BOOLEAN,
         UNCHANGED <<protected, image, disk, killed, faults, flips>>
  PROVE  WaitInv'
<1>1. /\ game' = "idle" /\ status' = "checking" /\ current' = NoManifest /\ changed' = NotStaged
      /\ check' = NoCheck /\ timers' = {} /\ hands' = {} /\ declined' = 0 /\ made' = 0
      /\ helpers' = {[h EXCEPT !.parent = FALSE] : h \in hs}
  BY DEF Closed
<1>2. /\ alive' \in BOOLEAN /\ ~alive' /\ audience' \in BOOLEAN
      /\ scheduled' \in BOOLEAN /\ ~scheduled'
  BY Zenon DEF Closed
<1>3. \A h \in Helper : [h EXCEPT !.parent = FALSE] \in Helper
  BY DEF Helper
<1>4. helpers' \subseteq Helper
  BY <1>1, <1>3
<1>5. made' \in 0..MaxChecks
  BY <1>1, BoundTypes
<1> QED BY <1>1, <1>2, <1>4, <1>5
        DEF WaitInv, TypeOK, State, ClosedInv, CheckInv, NoticeInv, ReadyWaits

LEMMA QuitsWait ==
  ASSUME WaitInv, PlayerQuits \/ \E h \in hands : HandsOver(h)
  PROVE  WaitInv'
<1>1. CASE PlayerQuits
  <2>1. helpers \in SUBSET Helper
    BY DEF WaitInv, TypeOK
  <2>2. torn' \in BOOLEAN
    BY Zenon, <1>1, LauncherTypes DEF PlayerQuits, ends, WaitInv
  <2> QED BY <1>1, <2>1, <2>2, ClosedWaits DEF PlayerQuits, ends
<1>2. CASE \E h \in hands : HandsOver(h)
  <2>1. PICK h \in hands : HandsOver(h)
    BY <1>2
  <2>2. HelperFor(h) \in Helper /\ helpers \in SUBSET Helper
    BY HelperForType DEF WaitInv, TypeOK
  <2>3. helpers \cup {HelperFor(h)} \in SUBSET Helper
    BY <2>2
  <2>4. torn' \in BOOLEAN
    BY Zenon, <2>1, LauncherTypes DEF HandsOver, Meets, WaitInv
  <2> QED BY <2>1, <2>3, <2>4, ClosedWaits DEF HandsOver
<1> QED BY <1>1, <1>2

(* The launcher starts, or gives way to the one that runs.                    *)
LEMMA StartedMoves ==
  ASSUME TypeOK, NEW hs, Started(hs)
  PROVE  /\ torn' \in BOOLEAN /\ killed' \in BOOLEAN
         /\ \/ alive /\ alive' = alive /\ image' = image /\ torn' = torn
            \/ /\ ~alive /\ alive' = TRUE /\ image' = disk
               /\ torn' <=> hs # {} \/ (torn /\ ~Whole(disk))
<1>1. CASE alive
  BY Zenon, <1>1, LauncherTypes DEF Started, ends
<1>2. CASE ~alive
  <2>1. torn' = (hs # {} \/ (torn /\ ~Whole(disk))) /\ killed' = FALSE
    BY Zenon, <1>2 DEF Started
  <2> QED BY Zenon, <1>2, <2>1 DEF Started
<1> QED BY Zenon, <1>1, <1>2

LEMMA StartedWaits ==
  ASSUME WaitInv,
         (alive /\ alive' = alive /\ image' = image) \/ (alive' = TRUE /\ image' = disk'),
         UNCHANGED processVars, torn' \in BOOLEAN, killed' \in BOOLEAN,
         protected' = protected, flips' = flips, helpers' \subseteq Helper,
         disk' \in [File -> Version \cup {Absent}], faults' \in 0..MaxFaults
  PROVE  WaitInv'
<1>1. UNCHANGED <<game, audience, status, current, changed, check, scheduled, timers, hands,
                  declined, made>>
  BY DEF processVars
<1>2. alive' \in BOOLEAN /\ (alive => alive')
  <2>1. alive \in BOOLEAN
    BY LauncherTypes DEF WaitInv
  <2>2. CASE alive' = TRUE
    BY Zenon, <2>2
  <2>3. CASE alive /\ alive' = alive
    BY Zenon, <2>1, <2>3
  <2> QED BY Zenon, <2>2, <2>3
<1>3. image' \in [File -> Version \cup {Absent}]
  BY DEF WaitInv, TypeOK
<1>4. TypeOK'
  BY <1>1, <1>2, <1>3 DEF WaitInv, TypeOK
<1>5. ClosedInv' /\ CheckInv' /\ NoticeInv'
  BY <1>1, <1>2 DEF WaitInv, ClosedInv, CheckInv, NoticeInv
<1>6. ReadyWaits'
  <2>1. CASE alive
    BY <1>1, <2>1 DEF WaitInv, ReadyWaits
  <2>2. CASE ~alive
    <3>1. status' = "checking"
      BY <1>1, <2>2 DEF WaitInv, ClosedInv
    <3> QED BY <3>1 DEF ReadyWaits
  <2> QED BY <2>1, <2>2
<1> QED BY <1>4, <1>5, <1>6 DEF WaitInv

LEMMA FaultTypes ==
  TypeOK => /\ faults \in 0..MaxFaults
            /\ Fails => faults' \in 0..MaxFaults
BY BoundTypes DEF Fails, TypeOK

LEMMA PlayerStartsWaits == WaitInv /\ PlayerStarts => WaitInv'
<1> SUFFICES ASSUME WaitInv, PlayerStarts PROVE WaitInv'
  OBVIOUS
<1>1. /\ UNCHANGED <<protected, processVars, helpers, disk, flips>> /\ Started(helpers)
      /\ faults' = faults \/ Fails
  BY DEF PlayerStarts
<1>2. /\ (alive /\ alive' = alive /\ image' = image) \/ (alive' = TRUE /\ image' = disk')
      /\ torn' \in BOOLEAN /\ killed' \in BOOLEAN
  <2>1. disk' = disk
    BY <1>1
  <2> QED BY Zenon, <1>1, <2>1, StartedMoves DEF WaitInv
<1>3. faults' \in 0..MaxFaults
  BY <1>1, FaultTypes DEF WaitInv
<1> QED BY <1>1, <1>2, <1>3, StartedWaits DEF WaitInv, TypeOK

LEMMA HelperTypes ==
  ASSUME NEW h \in Helper
  PROVE  /\ h.v \in Version /\ h.todo \in SUBSET File /\ h.gone \in SUBSET File
         /\ h.applied \in SUBSET File /\ h.kept \in [File -> Version \cup {Absent}]
         /\ h.parent \in BOOLEAN
         /\ h.pc \in {"wait", "apply", "back", "restart", "installer"}
BY DEF Helper

LEMMA HelperStepWaits ==
  ASSUME WaitInv, NEW h \in helpers, HelperStep(h)
  PROVE  WaitInv'
<1>1. h \in Helper /\ helpers \subseteq Helper
  BY DEF WaitInv, TypeOK
<1>2. faults \in 0..MaxFaults /\ (Fails => faults' \in 0..MaxFaults)
  BY FaultTypes DEF WaitInv
<1>3. CASE HelperBegins(h) \/ HelperFails(h) \/ \E f \in File : HelperApplies(h, f) \/ HelperRestores(h, f)
  <2>1. UNCHANGED <<protected, alive, image, game, audience, status, current, changed, check,
                    scheduled, timers, hands, declined, made, torn, killed, flips>>
    BY <1>3 DEF HelperBegins, HelperFails, HelperApplies, HelperRestores, processVars, ends
  <2>2. faults' \in 0..MaxFaults
    BY <1>2, <1>3 DEF HelperBegins, HelperFails, HelperApplies, HelperRestores
  <2>3. /\ disk' \in [File -> Version \cup {Absent}]
        /\ \E g \in Helper : Becomes(h, g)
    <3>1. CASE HelperBegins(h) \/ HelperFails(h)
      <4>1. \A p \in {"apply", "back", "restart"} : [h EXCEPT !.pc = p] \in Helper
        BY <1>1 DEF Helper
      <4>2. disk' = disk
        BY <3>1 DEF HelperBegins, HelperFails
      <4>3. \E p \in {"apply", "back", "restart"} : Becomes(h, [h EXCEPT !.pc = p])
        BY Zenon, <3>1 DEF HelperBegins, HelperFails
      <4> QED BY Zenon, <4>1, <4>2, <4>3 DEF WaitInv, TypeOK
    <3>2. ASSUME NEW f \in File, HelperApplies(h, f)
          PROVE  disk' \in [File -> Version \cup {Absent}] /\ \E g \in Helper : Becomes(h, g)
      <4> DEFINE g == [h EXCEPT !.todo = @ \ {f}, !.gone = @ \ {f}, !.kept[f] = disk[f],
                                !.applied = @ \cup {f}]
      <4>1. disk \in [File -> Version \cup {Absent}] /\ disk[f] \in Version \cup {Absent}
        BY DEF WaitInv, TypeOK
      <4>2. Build[h.v][f] \in Version \cup {Absent}
        BY <1>1, HelperTypes, UpdateAssumption
      <4>3. disk' \in [File -> Version \cup {Absent}]
        BY <3>2, <4>1, <4>2 DEF HelperApplies
      <4>4. g \in Helper
        BY <1>1, <4>1 DEF Helper
      <4>5. Becomes(h, g)
        BY Zenon, <3>2 DEF HelperApplies
      <4> QED BY Zenon, <4>3, <4>4, <4>5
    <3>3. ASSUME NEW f \in File, HelperRestores(h, f)
          PROVE  disk' \in [File -> Version \cup {Absent}] /\ \E g \in Helper : Becomes(h, g)
      <4> DEFINE g == [h EXCEPT !.applied = @ \ {f}]
      <4>1. disk \in [File -> Version \cup {Absent}] /\ h.kept[f] \in Version \cup {Absent}
        BY <1>1, HelperTypes DEF WaitInv, TypeOK
      <4>2. disk' \in [File -> Version \cup {Absent}]
        BY <3>3, <4>1 DEF HelperRestores
      <4>3. g \in Helper
        BY <1>1 DEF Helper
      <4>4. Becomes(h, g)
        BY Zenon, <3>3 DEF HelperRestores
      <4> QED BY Zenon, <4>2, <4>3, <4>4
    <3> QED BY Zenon, <1>3, <3>1, <3>2, <3>3
  <2>4. helpers' \subseteq Helper
    BY <1>1, <2>3 DEF Becomes
  <2> QED BY <2>1, <2>2, <2>3, <2>4
          DEF WaitInv, TypeOK, ClosedInv, CheckInv, NoticeInv, ReadyWaits
<1>4. CASE HelperEnds(h)
  <2>1. /\ Started(helpers \ {h}) /\ UNCHANGED <<protected, processVars, disk, faults, flips>>
        /\ helpers' = helpers \ {h}
    BY <1>4 DEF HelperEnds
  <2>2. /\ (alive /\ alive' = alive /\ image' = image) \/ (alive' = TRUE /\ image' = disk')
        /\ torn' \in BOOLEAN /\ killed' \in BOOLEAN
    <3>1. disk' = disk
      BY <2>1
    <3> QED BY Zenon, <2>1, <3>1, StartedMoves DEF WaitInv
  <2> QED BY <1>1, <2>1, <2>2, StartedWaits DEF WaitInv, TypeOK
<1>5. CASE InstallerRuns(h)
  <2>1. /\ disk' = Build[h.v] /\ UNCHANGED <<protected, processVars, faults, flips>>
        /\ helpers' = helpers \ {h}
    BY <1>5 DEF InstallerRuns
  <2>2. alive' = TRUE /\ image' = disk' /\ torn' \in BOOLEAN /\ killed' \in BOOLEAN
    BY Zenon, <1>5 DEF InstallerRuns
  <2>3. disk' \in [File -> Version \cup {Absent}]
    BY <1>1, <2>1, HelperTypes, UpdateAssumption
  <2>4. helpers' \subseteq Helper /\ faults' \in 0..MaxFaults
    BY <1>1, <1>2, <2>1
  <2> QED BY <2>1, <2>2, <2>3, <2>4, StartedWaits
<1>6. CASE HelperRestoreFails(h) \/ HelperKilled(h) \/ InstallerFails(h)
  <2>1. UNCHANGED <<protected, alive, image, game, audience, status, current, changed, check,
                    scheduled, timers, hands, declined, made, flips>>
    BY <1>6 DEF HelperRestoreFails, HelperKilled, InstallerFails, processVars
  <2>2. faults' \in 0..MaxFaults
    BY <1>2, <1>6 DEF HelperRestoreFails, HelperKilled, InstallerFails
  <2>3. torn' \in BOOLEAN /\ killed' \in BOOLEAN
    <3>1. \/ torn' = (torn \/ ~Whole(disk)) /\ (killed' = killed \/ killed' = TRUE)
          \/ torn' = (torn \/ ~Whole(disk')) /\ killed' = TRUE
      <4>1. CASE HelperRestoreFails(h)
        BY Zenon, <4>1 DEF HelperRestoreFails
      <4>2. CASE HelperKilled(h)
        BY Zenon, <4>2 DEF HelperKilled
      <4>3. CASE InstallerFails(h)
        BY Zenon, <4>3 DEF InstallerFails
      <4> QED BY Zenon, <1>6, <4>1, <4>2, <4>3
    <3> QED BY Zenon, <3>1, LauncherTypes DEF WaitInv
  <2>4. disk' \in [File -> Version \cup {Absent}]
    <3>1. CASE InstallerFails(h)
      <4>1. PICK done \in SUBSET File :
              disk' = [f \in File |-> IF f \in done THEN Build[h.v][f] ELSE disk[f]]
        BY <3>1 DEF InstallerFails
      <4>2. h.v \in Version /\ Build[h.v] \in [File -> Version \cup {Absent}]
        BY <1>1, HelperTypes, UpdateAssumption
      <4>3. disk \in [File -> Version \cup {Absent}]
        BY DEF WaitInv, TypeOK
      <4> QED BY <4>1, <4>2, <4>3
    <3>2. CASE HelperRestoreFails(h) \/ HelperKilled(h)
      BY <3>2 DEF HelperRestoreFails, HelperKilled, WaitInv, TypeOK
    <3> QED BY <1>6, <3>1, <3>2
  <2>5. helpers' \subseteq Helper
    <3>1. [h EXCEPT !.pc = "restart"] \in Helper
      BY <1>1 DEF Helper
    <3> QED BY <1>1, <1>6, <3>1 DEF HelperRestoreFails, HelperKilled, InstallerFails, Becomes
  <2> QED BY <2>1, <2>2, <2>3, <2>4, <2>5
          DEF WaitInv, TypeOK, ClosedInv, CheckInv, NoticeInv, ReadyWaits
<1> QED BY <1>3, <1>4, <1>5, <1>6 DEF HelperStep

LEMMA InitWaits == Init => WaitInv
<1> SUFFICES ASSUME Init PROVE WaitInv
  OBVIOUS
<1>1. /\ game = "idle" /\ status = "checking" /\ current = NoManifest
      /\ changed = NotStaged /\ check = NoCheck /\ timers = {} /\ hands = {}
      /\ declined = 0 /\ made = 0 /\ helpers = {} /\ flips = 0 /\ faults = 0 /\ image = disk
  BY DEF Init
<1>2. protected \in BOOLEAN /\ alive \in BOOLEAN /\ audience \in BOOLEAN
      /\ scheduled \in BOOLEAN /\ alive /\ ~scheduled
      /\ torn \in BOOLEAN /\ killed \in BOOLEAN
  BY Zenon DEF Init
<1>3. disk \in [File -> Version \cup {Absent}]
  BY UpdateAssumption DEF Init
<1> QED BY <1>1, <1>2, <1>3, BoundTypes
        DEF WaitInv, TypeOK, State, ClosedInv, CheckInv, NoticeInv, ReadyWaits

LEMMA NextWaits == WaitInv /\ [Next]_vars => WaitInv'
<1> SUFFICES ASSUME WaitInv, [Next]_vars PROVE WaitInv'
  OBVIOUS
<1>1. CASE UNCHANGED vars
  BY <1>1 DEF vars, processVars, diskVars, ends, WaitInv, TypeOK, ClosedInv, CheckInv, NoticeInv,
              ReadyWaits
<1>2. CASE LauncherStep
  BY <1>2, StartCheckWaits, FetchedWaits, ProgressWaits, PreparedWaits, NoticeEndsWaits,
     HandOffWaits, QuitsWait DEF LauncherStep
<1>3. CASE GameStarts \/ GameEnds("idle") \/ GameEnds("crashed") \/ PlayerAsks
  BY <1>3, GameWaits
<1>4. CASE Flip \/ PlayerQuits \/ PlayerStarts
  BY <1>4, FlipWaits, QuitsWait, PlayerStartsWaits
<1>5. CASE \E h \in helpers : HelperStep(h)
  BY <1>5, HelperStepWaits
<1> QED BY <1>1, <1>2, <1>3, <1>4, <1>5 DEF Next

LEMMA SpecWaits == Spec => []WaitInv
BY InitWaits, NextWaits, PTL DEF Spec

(* Every variable of the launcher, its helpers and the installed files keeps  *)
(* its range.                                                                 *)
THEOREM TypeCorrect == Spec => []TypeOK
BY SpecWaits, PTL DEF WaitInv

(* An update that is ready waits for a game, a crash on the screen, the       *)
(* player's no or what is on its way already: no check, sign-in, notice or    *)
(* failing hand-off of any number leaves one behind that nothing will install. *)
THEOREM ReadyUpdatesWait == Spec => []ReadyWaits
BY SpecWaits, PTL DEF WaitInv

-----------------------------------------------------------------------------
LEMMA BuildTypes ==
  ASSUME NEW v \in Version
  PROVE  /\ Build[v] \in [File -> Version \cup {Absent}] /\ Build[v]["app"] = v /\ v \in Nat
         /\ "app" \in File /\ v # 0
BY UpdateAssumption

\* While the launcher runs nobody touches its files.
LEMMA AliveFiles ==
  ASSUME TypeOK, DiskInv, alive
  PROVE  disk = image
<1>1. image \in [File -> Version \cup {Absent}]
  BY DEF TypeOK
<1>2. CASE helpers # {}
  <2>1. PICK h \in Helper : helpers = {h} /\ HelperInv(h)
    BY <1>2 DEF DiskInv
  <2>2. h.pc \in {"wait", "restart", "installer"}
    BY <2>1, HelperTypes DEF HelperInv
  <2>3. disk = Mixed(h) /\ (h.applied = {} \/ disk = image)
    BY <2>1, <2>2 DEF HelperInv
  <2> QED BY <1>1, <2>3 DEF Mixed
<1> QED BY <1>2 DEF DiskInv

LEMMA ImageBuild ==
  DiskInv => image["app"] \in Version /\ image = Build[image["app"]] /\ image["app"] \in Nat
BY BuildTypes DEF DiskInv

LEMMA DiskStands ==
  DiskInv /\ UNCHANGED <<image, alive, helpers, disk>> => DiskInv'
BY DEF DiskInv, HelperInv, Mixed, Changes

LEMMA StagedStands ==
  StagedInv /\ UNCHANGED <<protected, image, status, current, changed, check, timers, hands, made>>
  => StagedInv'
BY DEF StagedInv, Fetchable, Staged

\* What puts up a notice, ends one or gives a hand-off up leaves the rest as staged.
LEMMA StagedKept ==
  ASSUME TypeOK, StagedInv, UNCHANGED <<protected, image, current, changed, check, made>>,
         \A t \in (timers \cup hands)' \ (timers \cup hands) :
           \/ \E s \in timers \cup hands : t.m = s.m /\ t.files = s.files
           \/ /\ t.m = current /\ t.files = changed /\ status = "ready"
              /\ current # NoManifest /\ changed # NotStaged,
         ~protected /\ status' = "ready" /\ status # "ready" /\ current # NoManifest =>
           \E s \in timers \cup hands : current = s.m
  PROVE  StagedInv'
<1>1. /\ current' # NoManifest => Fetchable(current)'
      /\ check' # NoCheck /\ check'.pc = "prepare" => Fetchable(check.m)'
  BY DEF StagedInv, Fetchable
<1>2. ASSUME NEW t \in (timers \cup hands)'
      PROVE  /\ Fetchable(t.m)'
             /\ ~protected' => t.files = Staged(t.m.v)'
             /\ ~protected' /\ current' # NoManifest /\ current' = t.m => changed' = Staged(t.m.v)'
  <2>1. CASE t \in timers \cup hands
    BY <2>1 DEF StagedInv, Fetchable, Staged
  <2>2. CASE \E s \in timers \cup hands : t.m = s.m /\ t.files = s.files
    <3>1. PICK s \in timers \cup hands : t.m = s.m /\ t.files = s.files
      BY <2>2
    <3> QED BY <3>1 DEF StagedInv, Fetchable, Staged
  <2>3. CASE /\ t.m = current /\ t.files = changed /\ status = "ready"
             /\ current # NoManifest /\ changed # NotStaged
    BY <2>3 DEF StagedInv, Fetchable, Staged
  <2> QED BY <2>1, <2>2, <2>3
<1>3. ~protected' /\ status' = "ready" /\ current' # NoManifest /\ changed' # NotStaged =>
        changed' = Staged(current.v)'
  BY DEF StagedInv, Staged
<1> QED BY <1>1, <1>2, <1>3 DEF StagedInv

LEMMA GameStages ==
  ASSUME Inv, GameStarts \/ GameEnds("idle") \/ GameEnds("crashed") \/ PlayerAsks
  PROVE  StagedInv'
<1>1. UNCHANGED <<protected, image, current, changed, check, made, hands>>
  BY DEF GameStarts, GameEnds, PlayerAsks
<1>2. \/ UNCHANGED <<status, timers>>
      \/ /\ status' = "installing" /\ status = "ready"
         /\ current # NoManifest /\ changed # NotStaged
         /\ \E asked \in BOOLEAN :
              timers' = timers \cup {[m |-> current, asked |-> asked, files |-> changed]}
  <2>1. ASSUME NEW asked \in BOOLEAN, NEW g, TryInstall(asked, status, g)
        PROVE  \/ UNCHANGED <<status, timers>>
               \/ /\ status' = "installing" /\ status = "ready"
                  /\ current # NoManifest /\ changed # NotStaged
                  /\ timers' = timers \cup {[m |-> current, asked |-> asked, files |-> changed]}
    BY Zenon, <2>1 DEF TryInstall
  <2>2. CASE GameStarts
    BY <2>2 DEF GameStarts
  <2>3. CASE GameEnds("idle") \/ GameEnds("crashed") \/ PlayerAsks
    <3>1. \E asked \in BOOLEAN : \E g : TryInstall(asked, status, g)
      BY <2>3 DEF GameEnds, PlayerAsks
    <3> QED BY Zenon, <2>1, <3>1
  <2> QED BY <2>2, <2>3
<1>3. CASE UNCHANGED <<status, timers>>
  BY <1>1, <1>3, StagedStands DEF Inv
<1>4. CASE /\ status' = "installing" /\ status = "ready"
           /\ current # NoManifest /\ changed # NotStaged
           /\ \E asked \in BOOLEAN :
                timers' = timers \cup {[m |-> current, asked |-> asked, files |-> changed]}
  <2>1. PICK asked \in BOOLEAN :
          timers' = timers \cup {[m |-> current, asked |-> asked, files |-> changed]}
    BY <1>4
  <2>2. \A t \in (timers \cup hands)' \ (timers \cup hands) :
          t = [m |-> current, asked |-> asked, files |-> changed]
    BY <1>1, <2>1
  <2>3. \A t \in (timers \cup hands)' \ (timers \cup hands) :
          /\ t.m = current /\ t.files = changed /\ status = "ready"
          /\ current # NoManifest /\ changed # NotStaged
    BY <1>4, <2>2
  <2>4. status' # "ready"
    BY <1>4
  <2> QED BY <1>1, <2>3, <2>4, StagedKept DEF Inv, WaitInv
<1> QED BY <1>2, <1>3, <1>4

LEMMA NoticeStages ==
  ASSUME Inv, NEW t \in timers, NoticeEnds(t)
  PROVE  StagedInv'
<1>1. UNCHANGED <<protected, image, current, changed, check, made>> /\ timers' = timers \ {t}
  BY DEF NoticeEnds
<1>2. CASE MayRestart(t.asked, game) /\ current = t.m
  <2>1. /\ hands' = hands \cup {[m |-> t.m, asked |-> t.asked, files |-> t.files]}
        /\ status' = status
    BY <1>2 DEF NoticeEnds
  <2>2. \A s \in (timers \cup hands)' \ (timers \cup hands) : s.m = t.m /\ s.files = t.files
    BY <1>1, <2>1
  <2> QED BY <1>1, <2>1, <2>2, StagedKept DEF Inv, WaitInv
<1>3. CASE ~(MayRestart(t.asked, game) /\ current = t.m)
  <2>1. status' = (IF current = t.m THEN "ready" ELSE "current") /\ hands' = hands
    BY <1>3 DEF NoticeEnds
  <2>2. status' = "ready" => current = t.m
    BY <2>1
  <2> QED BY <1>1, <2>1, <2>2, StagedKept DEF Inv, WaitInv
<1> QED BY <1>2, <1>3

LEMMA HandOffStages ==
  ASSUME Inv, NEW h \in hands, HandOffFails(h) \/ Declines(h) \/ HelperUnnoticed(h)
  PROVE  StagedInv'
<1>1. /\ UNCHANGED <<protected, image, current, changed, check, made, timers>>
      /\ hands' = hands \ {h}
      /\ status' = "ready" => protected
  BY DEF HandOffFails, Declines, HelperUnnoticed
<1> QED BY <1>1, StagedKept DEF Inv, WaitInv

-----------------------------------------------------------------------------
LEMMA CheckStages ==
  ASSUME Inv, StartCheck \/ Progress
  PROVE  StagedInv'
<1>1. UNCHANGED <<protected, image, current, changed, timers, hands, made>>
  BY DEF StartCheck, Progress
<1>2. CASE StartCheck
  <2>1. status' = status /\ check'.pc = "fetch"
    BY <1>2 DEF StartCheck, NewCheck
  <2> QED BY <1>1, <2>1 DEF Inv, StagedInv, Fetchable, Staged
<1>3. CASE Progress
  <2>1. status' = "downloading" /\ check' = check
    BY <1>3 DEF Progress
  <2> QED BY <1>1, <2>1 DEF Inv, StagedInv, Fetchable, Staged
<1> QED BY <1>2, <1>3

LEMMA FetchedStages ==
  ASSUME Inv, Fetched
  PROVE  StagedInv'
<1>1. /\ check # NoCheck /\ check.pc = "fetch"
      /\ UNCHANGED <<protected, image, changed, timers, hands>>
  BY DEF Fetched
<1>2. TypeOK /\ StagedInv
  BY DEF Inv, WaitInv
<1>3. CASE /\ status' \in {"error", "current", status}
           /\ CheckEnds(status')
           /\ UNCHANGED <<current, made>>
  <2>1. check' # NoCheck => check'.pc = "fetch"
    BY <1>2, <1>3, CheckEndsType
  <2>2. ~(check' # NoCheck /\ check'.pc = "prepare")
    BY <2>1
  <2>3. status' = "ready" => status = "ready"
    BY <1>3
  <2> QED BY <1>1, <1>2, <1>3, <2>2, <2>3 DEF StagedInv, Fetchable, Staged
<1>4. CASE /\ NewerThanRunning(Offer[check.tester])
           /\ status' = "available" /\ made' = made + 1
           /\ current' = [v |-> Offer[check.tester], tester |-> check.tester, id |-> made + 1]
           /\ check' = [check EXCEPT !.pc = "prepare", !.m = current']
  <2>1. made \in Nat
    BY <1>2, BoundTypes DEF TypeOK
  <2>2. current'.v > image["app"] /\ current'.id = made + 1
    BY <1>4 DEF NewerThanRunning
  <2>3. Fetchable(current)'
    BY <1>1, <1>4, <2>1, <2>2 DEF Fetchable
  <2>4. check'.m = current'
    BY <1>1, <1>2, <1>4 DEF TypeOK, Check
  <2>5. ASSUME NEW t \in (timers \cup hands)'
        PROVE  /\ Fetchable(t.m)'
               /\ ~protected' => t.files = Staged(t.m.v)'
               /\ current' # t.m
    <3>1. t \in timers \cup hands /\ t.m \in Manifest
      BY <1>1, <1>2, NoticeFields DEF TypeOK
    <3>2. t.m.id <= made /\ t.m.id \in Nat /\ t.m.v > image["app"]
      BY <1>2, <3>1, ManifestFields, BoundTypes DEF StagedInv, Fetchable
    <3>3. ~protected' => t.files = Staged(t.m.v)'
      BY <1>1, <1>2, <3>1 DEF StagedInv, Staged
    <3>4. Fetchable(t.m)'
      BY <1>1, <1>4, <2>1, <3>2 DEF Fetchable
    <3>5. current' # t.m
      BY <2>1, <2>2, <3>2
    <3> QED BY <3>3, <3>4, <3>5
  <2>6. status' # "ready"
    BY <1>4
  <2> QED BY <2>3, <2>4, <2>5, <2>6 DEF StagedInv
<1>5. \/ /\ status' \in {"error", "current", status}
         /\ CheckEnds(status')
         /\ UNCHANGED <<current, made>>
      \/ /\ NewerThanRunning(Offer[check.tester])
         /\ status' = "available" /\ made' = made + 1
         /\ current' = [v |-> Offer[check.tester], tester |-> check.tester, id |-> made + 1]
         /\ check' = [check EXCEPT !.pc = "prepare", !.m = current']
  BY DEF Fetched
<1> QED BY <1>3, <1>4, <1>5

LEMMA PreparedStages ==
  ASSUME Inv, Prepared
  PROVE  StagedInv'
<1>1. /\ alive /\ check # NoCheck /\ check.pc = "prepare" /\ CheckEnds(status')
      /\ UNCHANGED <<protected, image, current, hands, made>>
  BY DEF Prepared
<1>2. TypeOK /\ StagedInv /\ CheckInv /\ disk = image
  BY <1>1, AliveFiles DEF Inv, WaitInv
<1>3. ~(check' # NoCheck /\ check'.pc = "prepare")
  <2>1. check' # NoCheck => check'.pc = "fetch"
    BY <1>1, <1>2, CheckEndsType
  <2> QED BY <2>1
<1>4. /\ current' # NoManifest => Fetchable(current)'
      /\ \A t \in timers \cup hands :
           Fetchable(t.m)' /\ (~protected' => t.files = Staged(t.m.v)')
  BY <1>1, <1>2 DEF StagedInv, Fetchable, Staged
<1>5. CASE /\ changed' = IF protected THEN {} ELSE Differing(check.m.v)
           /\ IF audience # check.tester \/ current # check.m
              THEN UNCHANGED <<status, scheduled, timers>>
              ELSE IF ~scheduled /\ MayRestart(FALSE, game) /\ declined # current.v
              THEN /\ status' = "installing" /\ scheduled' = TRUE
                   /\ timers' = timers \cup {[m |-> current, asked |-> FALSE, files |-> changed']}
              ELSE status' = "ready" /\ UNCHANGED <<scheduled, timers>>
  <2>1. current # NoManifest => current = check.m /\ audience = check.tester
    BY Zenon, <1>1, <1>2 DEF CheckInv
  <2>2. ~protected => changed' = Staged(check.m.v)
    BY <1>2, <1>5 DEF Differing, Staged
  <2>3. CASE current = NoManifest /\ timers' = timers
    BY <1>1, <1>3, <1>4, <2>3 DEF StagedInv
  <2>4. CASE /\ current = check.m
             /\ \/ timers' = timers
                \/ timers' = timers \cup {[m |-> current, asked |-> FALSE, files |-> changed']}
    <3>1. Fetchable(current)' /\ (~protected => changed' = Staged(current.v)')
      BY <1>1, <1>2, <2>2, <2>4 DEF StagedInv, Fetchable, Staged
    <3>2. ASSUME NEW t \in (timers \cup hands)'
          PROVE  /\ Fetchable(t.m)'
                 /\ ~protected' => t.files = Staged(t.m.v)'
                 /\ ~protected' /\ current' = t.m => changed' = Staged(t.m.v)'
      <4>1. CASE t \in timers \cup hands
        BY <1>1, <1>4, <3>1, <4>1
      <4>2. CASE t = [m |-> current, asked |-> FALSE, files |-> changed']
        <5>1. t.m = current /\ t.files = changed'
          BY <4>2
        <5> QED BY <1>1, <3>1, <5>1
      <4> QED BY <1>1, <2>4, <4>1, <4>2
    <3> QED BY <1>1, <1>3, <1>4, <3>1, <3>2 DEF StagedInv
  <2>5. \/ current = NoManifest /\ timers' = timers
        \/ /\ current = check.m
           /\ \/ timers' = timers
              \/ timers' = timers \cup {[m |-> current, asked |-> FALSE, files |-> changed']}
    <3>1. CASE audience # check.tester \/ current # check.m
      BY Zenon, <1>5, <2>1, <3>1
    <3>2. CASE ~(audience # check.tester \/ current # check.m)
      BY Zenon, <1>5, <3>2
    <3> QED BY Zenon, <3>1, <3>2
  <2> QED BY Zenon, <2>3, <2>4, <2>5
<1>6. CASE status' \in {status, "error"} /\ UNCHANGED <<changed, scheduled, timers>>
  BY <1>1, <1>2, <1>3, <1>4, <1>6 DEF StagedInv, Staged
<1>7. \/ /\ changed' = IF protected THEN {} ELSE Differing(check.m.v)
         /\ IF audience # check.tester \/ current # check.m
            THEN UNCHANGED <<status, scheduled, timers>>
            ELSE IF ~scheduled /\ MayRestart(FALSE, game) /\ declined # current.v
            THEN /\ status' = "installing" /\ scheduled' = TRUE
                 /\ timers' = timers \cup {[m |-> current, asked |-> FALSE, files |-> changed']}
            ELSE status' = "ready" /\ UNCHANGED <<scheduled, timers>>
      \/ status' \in {status, "error"} /\ UNCHANGED <<changed, scheduled, timers>>
  BY DEF Prepared
<1> QED BY Zenon, <1>5, <1>6, <1>7

LEMMA FlipStages ==
  ASSUME Inv, Flip
  PROVE  StagedInv'
<1>1. /\ UNCHANGED <<protected, image, timers, hands, made>>
      /\ current' = NoManifest /\ status' = "checking"
  BY DEF Flip
<1>2. TypeOK /\ StagedInv
  BY DEF Inv, WaitInv
<1>3. check' # NoCheck /\ check'.pc = "prepare" => Fetchable(check.m)'
  <2>1. CASE check = NoCheck
    <3>1. check' = NewCheck(~audience)
      BY Zenon, <2>1 DEF Flip
    <3>2. check'.pc # "prepare"
      BY <3>1 DEF NewCheck
    <3> QED BY <3>2
  <2>2. CASE check # NoCheck
    <3>1. check' = [check EXCEPT !.aborted = check.pc = "prepare"] /\ check \in Check
      <4>1. check \in Check
        BY <1>2, <2>2 DEF TypeOK
      <4> QED BY Zenon, <2>2, <4>1 DEF Flip
    <3>2. (check.pc = "prepare") \in BOOLEAN
      BY Zenon
    <3>3. check'.pc = check.pc /\ check'.m = check.m
      BY Zenon, <3>1, <3>2, CheckAborts
    <3> QED BY <1>1, <1>2, <2>2, <3>3 DEF StagedInv, Fetchable
  <2> QED BY <2>1, <2>2
<1>4. \A t \in timers \cup hands :
        Fetchable(t.m)' /\ (~protected' => t.files = Staged(t.m.v)')
  BY <1>1, <1>2 DEF StagedInv, Fetchable, Staged
<1> QED BY <1>1, <1>3, <1>4 DEF StagedInv

\* A launcher that is closed, or just started, has nothing staged.
LEMMA NothingStaged ==
  current = NoManifest /\ check = NoCheck /\ timers = {} /\ hands = {} => StagedInv
BY DEF StagedInv

-----------------------------------------------------------------------------
LEMMA ParentGone ==
  ASSUME NEW h \in Helper, NEW g, g = [h EXCEPT !.parent = FALSE]
  PROVE  /\ g \in Helper /\ g.v = h.v /\ g.pc = h.pc /\ g.todo = h.todo /\ g.gone = h.gone
         /\ g.kept = h.kept /\ g.applied = h.applied /\ ~g.parent
<1>1. g \in Helper /\ g.v = h.v /\ g.pc = h.pc /\ g.todo = h.todo /\ g.gone = h.gone
      /\ g.kept = h.kept /\ g.applied = h.applied
  BY DEF Helper
<1>2. g.parent = FALSE
  BY DEF Helper
<1> QED BY Zenon, <1>1, <1>2

LEMMA PhaseChanges ==
  ASSUME NEW h \in Helper, NEW pc \in {"wait", "apply", "back", "restart", "installer"},
         NEW g, g = [h EXCEPT !.pc = pc]
  PROVE  /\ g \in Helper /\ g.v = h.v /\ g.pc = pc /\ g.todo = h.todo /\ g.gone = h.gone
         /\ g.kept = h.kept /\ g.applied = h.applied /\ g.parent = h.parent
BY DEF Helper

\* What a hand-off starts, in the order the files will be changed.
LEMMA HelperBorn ==
  ASSUME Inv, alive, NEW h \in hands, helpers = {}
  PROVE  LET g == HelperFor(h) IN
         /\ disk = image /\ g \in Helper
         /\ g.v > image["app"] /\ g.kept = image /\ g.applied = {} /\ g.parent
         /\ g.pc = IF protected THEN "installer" ELSE "wait"
         /\ g.pc = "wait" => /\ g.todo \cup g.gone \cup g.applied = Changes(g.v)
                             /\ (g.todo \cup g.gone) \cap g.applied = {}
<1> DEFINE g == HelperFor(h)
<1>1. TypeOK /\ StagedInv /\ DiskInv /\ disk = image
  BY AliveFiles DEF Inv, WaitInv
<1>3. h \in HandOff /\ h.m \in Manifest /\ h.m.v \in Version
  BY <1>1, NoticeFields, ManifestFields DEF TypeOK
<1>4. g \in Helper
  BY <1>1, <1>3, HelperForType
<1>5. /\ g.v = h.m.v /\ g.kept = image /\ g.applied = {} /\ g.todo = h.files
      /\ g.pc = (IF protected THEN "installer" ELSE "wait")
      /\ g.gone = (IF protected THEN {} ELSE Removed(h.m.v))
  BY <1>1 DEF HelperFor
<1>6. g.parent
  <2>1. g.parent = TRUE
    BY DEF HelperFor
  <2> QED BY Zenon, <2>1
<1>7. g.v > image["app"]
  BY <1>1, <1>5 DEF StagedInv, Fetchable
<1>8. ASSUME ~protected
      PROVE  g.todo \cup g.gone \cup g.applied = Changes(g.v)
  <2>1. g.todo = Staged(g.v)
    BY <1>1, <1>5, <1>8 DEF StagedInv
  <2>2. g.gone = Obsolete(g.v)
    BY <1>1, <1>5, <1>8, ImageBuild DEF Removed, Obsolete
  <2>3. \A f : f \in Changes(g.v) <=> f \in Staged(g.v) \/ f \in Obsolete(g.v)
    BY DEF Changes, Staged, Obsolete
  <2> QED BY <1>5, <2>1, <2>2, <2>3
<1>9. g.pc = "wait" => ~protected
  BY <1>5
<1> HIDE DEF g
<1>10. (g.todo \cup g.gone) \cap g.applied = {}
  BY <1>5
<1> QED BY <1>1, <1>4, <1>5, <1>6, <1>7, <1>8, <1>9, <1>10 DEF g

\* A helper whose launcher is closed, and nobody else's, goes on as it was.
LEMMA ClosedDisk ==
  ASSUME DiskInv, alive, Closed(helpers), UNCHANGED <<image, disk>>
  PROVE  DiskInv'
<1>1. helpers' = {[h EXCEPT !.parent = FALSE] : h \in helpers}
  BY DEF Closed
<1>2. ~alive'
  BY Zenon DEF Closed
<1>3. CASE helpers = {} /\ disk = image
  <2>1. helpers' = {}
    BY <1>1, <1>3
  <2> QED BY <1>3, <2>1 DEF DiskInv
<1>4. CASE \E h \in Helper : helpers = {h} /\ HelperInv(h)
  <2>1. PICK h \in Helper : helpers = {h} /\ HelperInv(h)
    BY <1>4
  <2>0. PICK g : g = [h EXCEPT !.parent = FALSE]
    OBVIOUS
  <2>2. helpers' = {g}
    BY <1>1, <2>0, <2>1
  <2>3. /\ g \in Helper /\ g.v = h.v /\ g.pc = h.pc /\ g.todo = h.todo /\ g.gone = h.gone
        /\ g.kept = h.kept /\ g.applied = h.applied /\ ~g.parent
    BY <2>0, ParentGone
  <2>4. HelperInv(g)'
    BY <1>2, <2>1, <2>3 DEF HelperInv, Mixed, Changes
  <2> QED BY <2>2, <2>3, <2>4 DEF DiskInv
<1> QED BY <1>3, <1>4 DEF DiskInv

LEMMA BornDisk ==
  ASSUME Inv, ~torn', NEW h \in hands, HandsOver(h) \/ HelperUnnoticed(h)
  PROVE  DiskInv'
<1>0. PICK g : g = HelperFor(h)
  OBVIOUS
<1>1. alive /\ helpers = {} /\ UNCHANGED <<image, disk>>
  BY DEF HandsOver, HelperUnnoticed, Meets
<1>2. /\ disk = image /\ g \in Helper
      /\ g.v > image["app"] /\ g.kept = image /\ g.applied = {} /\ g.parent
      /\ g.pc = (IF protected THEN "installer" ELSE "wait")
      /\ g.pc = "wait" => /\ g.todo \cup g.gone \cup g.applied = Changes(g.v)
                          /\ (g.todo \cup g.gone) \cap g.applied = {}
  BY <1>0, <1>1, HelperBorn
<1>3. \E v \in Version : image' = Build[v]
  BY <1>1 DEF Inv, DiskInv
<1>4. image \in [File -> Version \cup {Absent}]
  BY DEF Inv, WaitInv, TypeOK
<1>5. CASE HandsOver(h)
  <2>1. helpers' = {[e EXCEPT !.parent = FALSE] : e \in helpers \cup {g}}
    BY <1>0, <1>5 DEF HandsOver, Closed
  <2>2. ~alive'
    BY Zenon, <1>5 DEF HandsOver, Closed
  <2>0. PICK e : e = [g EXCEPT !.parent = FALSE]
    OBVIOUS
  <2>3. /\ e \in Helper /\ e.v = g.v /\ e.pc = g.pc /\ e.todo = g.todo /\ e.gone = g.gone
        /\ e.kept = g.kept /\ e.applied = g.applied /\ ~e.parent
    BY <1>2, <2>0, ParentGone
  <2>4. helpers' = {e}
    BY <1>1, <2>0, <2>1
  <2>5. disk' = Mixed(e)'
    BY <1>1, <1>2, <1>4, <2>3 DEF Mixed
  <2>6. HelperInv(e)'
    BY <1>1, <1>2, <2>2, <2>3, <2>5 DEF HelperInv, Changes
  <2> QED BY <1>3, <2>3, <2>4, <2>6 DEF DiskInv
<1>6. CASE HelperUnnoticed(h)
  <2>1. ~protected /\ alive' /\ helpers' = {g}
    BY <1>0, <1>1, <1>6 DEF HelperUnnoticed
  <2>2. g.pc = "wait"
    BY <1>2, <2>1
  <2>3. disk' = Mixed(g)'
    BY <1>1, <1>2, <1>4 DEF Mixed
  <2>4. HelperInv(g)'
    BY <1>1, <1>2, <2>1, <2>2, <2>3 DEF HelperInv, Changes
  <2> QED BY <1>2, <1>3, <2>1, <2>4 DEF DiskInv
<1> QED BY <1>5, <1>6

-----------------------------------------------------------------------------
(* The steps of a helper, of which there is one.                              *)
LEMMA HelperWorksDisk ==
  ASSUME Inv, NEW h \in helpers,
         HelperBegins(h) \/ HelperFails(h) \/ \E f \in File : HelperApplies(h, f) \/ HelperRestores(h, f)
  PROVE  DiskInv'
<1>1. h \in Helper /\ helpers = {h} /\ HelperInv(h) /\ DiskInv /\ TypeOK
  BY DEF Inv, WaitInv, DiskInv
<1>2. UNCHANGED <<alive, image>>
  BY DEF HelperBegins, HelperFails, HelperApplies, HelperRestores
<1>3. \E v \in Version : image' = Build[v]
  BY <1>1, <1>2 DEF DiskInv
<1>4. /\ h.v \in Version /\ h.todo \in SUBSET File /\ h.gone \in SUBSET File
      /\ h.applied \in SUBSET File /\ image \in [File -> Version \cup {Absent}]
  BY <1>1, HelperTypes DEF TypeOK
<1>5. ASSUME NEW g \in Helper, Becomes(h, g), HelperInv(g)'
      PROVE  DiskInv'
  <2>1. helpers' = {g}
    BY <1>1, <1>5 DEF Becomes
  <2> QED BY <1>3, <1>5, <2>1 DEF DiskInv
<1>6. CASE HelperBegins(h) \/ HelperFails(h)
  <2>1. PICK pc \in {"apply", "back", "restart"} :
          /\ Becomes(h, [h EXCEPT !.pc = pc]) /\ disk' = disk
          /\ pc \in {"apply", "back"} => ~alive
          /\ pc = "apply" => h.pc = "wait"
          /\ pc = "restart" => h.pc = "wait"
    <3>1. CASE HelperBegins(h)
      <4>1. /\ h.pc = "wait" /\ disk' = disk
            /\ \/ ~h.parent /\ Becomes(h, [h EXCEPT !.pc = "apply"])
               \/ Becomes(h, [h EXCEPT !.pc = "restart"])
        BY <3>1 DEF HelperBegins
      <4>2. ~h.parent => ~alive
        BY <1>1 DEF HelperInv
      <4> QED BY <4>1, <4>2
    <3>2. CASE HelperFails(h)
      <4>1. h.pc = "apply" /\ disk' = disk /\ Becomes(h, [h EXCEPT !.pc = "back"])
        BY <3>2 DEF HelperFails
      <4>2. ~alive
        BY <1>1, <4>1 DEF HelperInv
      <4> QED BY <4>1, <4>2
    <3> QED BY <1>6, <3>1, <3>2
  <2>0. PICK g : g = [h EXCEPT !.pc = pc]
    OBVIOUS
  <2>2. /\ g \in Helper /\ g.v = h.v /\ g.pc = pc /\ g.todo = h.todo /\ g.gone = h.gone
        /\ g.kept = h.kept /\ g.applied = h.applied /\ g.parent = h.parent
    BY <1>1, <2>0, PhaseChanges
  <2>3. Becomes(h, g)
    BY <2>0, <2>1
  <2>4. g.parent <=> alive'
    BY Zenon, <1>1, <1>2, <2>2 DEF HelperInv
  <2>5. disk' = Mixed(g)'
    BY <1>1, <1>2, <2>1, <2>2 DEF HelperInv, Mixed
  <2>6. h.pc = "wait" => disk = image
    BY <1>1, <1>4 DEF HelperInv, Mixed
  <2>7. HelperInv(g)'
    BY <1>1, <1>2, <2>1, <2>2, <2>4, <2>5, <2>6 DEF HelperInv, Changes
  <2> QED BY <1>5, <2>2, <2>3, <2>7
<1>7. ASSUME NEW f \in File, HelperApplies(h, f)
      PROVE  DiskInv'
  <2>1. /\ h.pc = "apply" /\ f \in h.todo \cup h.gone
        /\ disk' = [disk EXCEPT ![f] = Build[h.v][f]]
    BY <1>7 DEF HelperApplies
  <2>2. /\ h.todo \cup h.gone \cup h.applied = Changes(h.v)
        /\ (h.todo \cup h.gone) \cap h.applied = {} /\ h.kept = image /\ disk = Mixed(h)
        /\ h.v > image["app"] /\ (h.parent <=> alive) /\ ~alive
    BY <1>1, <2>1 DEF HelperInv
  <2>3. f \notin h.applied /\ disk[f] = image[f]
    BY <2>1, <2>2 DEF Mixed
  <2>0. PICK g : g = [h EXCEPT !.todo = @ \ {f}, !.gone = @ \ {f}, !.kept[f] = disk[f],
                               !.applied = @ \cup {f}]
    OBVIOUS
  <2>4. /\ g \in Helper /\ g.v = h.v /\ g.pc = "apply" /\ g.todo = h.todo \ {f}
        /\ g.gone = h.gone \ {f} /\ g.kept = [h.kept EXCEPT ![f] = disk[f]]
        /\ g.applied = h.applied \cup {f} /\ g.parent = h.parent
    <3>1. disk[f] \in Version \cup {Absent}
      BY <1>1 DEF TypeOK
    <3> QED BY <1>1, <2>0, <2>1, <3>1 DEF Helper
  <2>5. Becomes(h, g)
    BY Zenon, <1>7, <2>0 DEF HelperApplies
  <2>6. g.kept = image'
    BY <1>2, <1>4, <2>2, <2>3, <2>4
  <2>7. disk' = Mixed(g)'
    BY <1>2, <2>1, <2>2, <2>4 DEF Mixed
  <2>8. /\ g.todo \cup g.gone \cup g.applied = Changes(g.v)'
        /\ (g.todo \cup g.gone) \cap g.applied = {}
    <3>1. Changes(g.v)' = Changes(h.v)
      BY <1>2, <2>4 DEF Changes
    <3> QED BY <2>1, <2>2, <2>4, <3>1
  <2>9. g.parent <=> alive'
    BY Zenon, <1>2, <2>2, <2>4
  <2>10. HelperInv(g)'
    BY <1>2, <2>2, <2>4, <2>6, <2>7, <2>8, <2>9 DEF HelperInv
  <2> QED BY <1>5, <2>4, <2>5, <2>10
<1>8. ASSUME NEW f \in File, HelperRestores(h, f)
      PROVE  DiskInv'
  <2>1. /\ h.pc = "back" /\ f \in h.applied /\ disk' = [disk EXCEPT ![f] = h.kept[f]]
    BY <1>8 DEF HelperRestores
  <2>2. /\ h.kept = image /\ disk = Mixed(h)
        /\ h.v > image["app"] /\ (h.parent <=> alive) /\ ~alive
    BY <1>1, <2>1 DEF HelperInv
  <2>0. PICK g : g = [h EXCEPT !.applied = @ \ {f}]
    OBVIOUS
  <2>3. /\ g \in Helper /\ g.v = h.v /\ g.pc = "back" /\ g.kept = h.kept
        /\ g.applied = h.applied \ {f} /\ g.parent = h.parent
    BY <1>1, <2>0, <2>1 DEF Helper
  <2>4. Becomes(h, g)
    BY Zenon, <1>8, <2>0 DEF HelperRestores
  <2>5. disk' = Mixed(g)'
    BY <1>2, <2>1, <2>2, <2>3 DEF Mixed
  <2>6. g.parent <=> alive'
    BY Zenon, <1>2, <2>2, <2>3
  <2>7. HelperInv(g)'
    BY <1>2, <2>2, <2>3, <2>5, <2>6 DEF HelperInv
  <2> QED BY <1>5, <2>3, <2>4, <2>7
<1> QED BY <1>6, <1>7, <1>8

\* A mixture that is one build is the old one or the new one.
LEMMA WholeMixed ==
  ASSUME TypeOK, NEW h \in Helper, disk = Mixed(h), Whole(disk),
         NEW w \in Version, image = Build[w]
  PROVE  disk = image \/ disk = Build[h.v]
<1>1. PICK v \in Version : disk = Build[v]
  BY DEF Whole
<1>2. h.v \in Version /\ "app" \in File
  BY HelperTypes, BuildTypes
<1>3. disk["app"] = h.v \/ disk["app"] = w
  BY <1>2, BuildTypes DEF Mixed
<1>4. disk["app"] = v
  BY <1>1, BuildTypes
<1> QED BY <1>1, <1>3, <1>4

(* A helper that is killed or cannot put a file back, and an installer that   *)
(* ends half way, leave one build or tear the files.                          *)
LEMMA HelperStopsDisk ==
  ASSUME Inv, ~torn', NEW h \in helpers, HelperRestoreFails(h) \/ HelperKilled(h) \/ InstallerFails(h)
  PROVE  DiskInv'
<1>1. h \in Helper /\ helpers = {h} /\ HelperInv(h) /\ DiskInv /\ TypeOK
  BY DEF Inv, WaitInv, DiskInv
<1>2. UNCHANGED <<alive, image>> /\ h.v \in Version /\ h.v \in Nat
  BY <1>1, HelperTypes, BuildTypes DEF HelperRestoreFails, HelperKilled, InstallerFails
<1>3. /\ image["app"] \in Version /\ image = Build[image["app"]] /\ image["app"] \in Nat
      /\ image \in [File -> Version \cup {Absent}] /\ h.v > image["app"]
  BY <1>1, ImageBuild DEF TypeOK, HelperInv
<1>4. CASE HelperRestoreFails(h)
  <2>1. /\ h.pc = "back" /\ Becomes(h, [h EXCEPT !.pc = "restart"]) /\ disk' = disk
        /\ Whole(disk)
    BY <1>4 DEF HelperRestoreFails
  <2>2. PICK g : g = [h EXCEPT !.pc = "restart"]
    OBVIOUS
  <2>3. /\ g \in Helper /\ g.v = h.v /\ g.pc = "restart" /\ g.kept = h.kept
        /\ g.applied = h.applied /\ g.parent = h.parent
    BY <1>1, <2>2, PhaseChanges
  <2>4. ~alive /\ disk = Mixed(h)
    BY <1>1, <2>1 DEF HelperInv
  <2>5. disk = image \/ disk = Build[h.v]
    BY <1>1, <1>3, <2>1, <2>4, WholeMixed
  <2>6. g.parent <=> alive'
    BY Zenon, <1>1, <1>2, <2>3 DEF HelperInv
  <2>7. disk' = Mixed(g)'
    BY <1>2, <2>1, <2>3, <2>4 DEF Mixed
  <2>8. HelperInv(g)'
    BY <1>1, <1>2, <2>1, <2>3, <2>4, <2>5, <2>6, <2>7 DEF HelperInv
  <2>9. helpers' = {g}
    BY <1>1, <2>1, <2>2 DEF Becomes
  <2> QED BY <1>2, <1>3, <2>3, <2>8, <2>9 DEF DiskInv
<1>5. CASE HelperKilled(h)
  <2>1. h.pc # "installer" /\ helpers' = {} /\ disk' = disk /\ Whole(disk)
    BY <1>1, <1>5 DEF HelperKilled
  <2>2. disk = image \/ disk = Build[h.v]
    BY <1>1, <1>3, <2>1, WholeMixed DEF HelperInv
  <2>3. alive => disk = image
    BY <1>1, AliveFiles
  <2> QED BY <1>2, <1>3, <2>1, <2>2, <2>3 DEF DiskInv
<1>6. CASE InstallerFails(h)
  <2>1. h.pc = "installer" /\ ~alive /\ helpers' = {} /\ Whole(disk')
    BY <1>1, <1>6 DEF InstallerFails
  <2>2. disk = image
    BY <1>1, <1>3, <2>1 DEF HelperInv, Mixed
  <2>3. PICK done \in SUBSET File :
          disk' = [f \in File |-> IF f \in done THEN Build[h.v][f] ELSE disk[f]]
    BY <1>6 DEF InstallerFails
  <2>4. PICK w \in Version : disk' = Build[w]
    BY <2>1 DEF Whole
  <2>5. disk'["app"] = h.v \/ disk'["app"] = image["app"]
    BY <1>2, <2>2, <2>3, BuildTypes
  <2>6. w = h.v \/ w = image["app"]
    BY <2>4, <2>5, BuildTypes
  <2>7. w >= image["app"]
    BY <1>2, <1>3, <2>6
  <2> QED BY <1>2, <1>3, <2>1, <2>4, <2>7 DEF DiskInv
<1> QED BY <1>4, <1>5, <1>6

\* The launcher that starts is the build that was closed, or a newer one.
Starts ==
  /\ ~alive /\ alive' /\ image' = disk'
  /\ \E v, w \in Version : image = Build[v] /\ image' = Build[w] /\ v <= w

LEMMA StartsWhole ==
  ASSUME Inv, ~torn', PlayerStarts \/ \E h \in helpers : HelperEnds(h) \/ InstallerRuns(h)
  PROVE  /\ DiskInv'
         /\ Starts \/ UNCHANGED <<alive, image>>
<1>1. DiskInv /\ TypeOK /\ image["app"] \in Version /\ image = Build[image["app"]]
      /\ image["app"] \in Nat /\ image \in [File -> Version \cup {Absent}]
  BY ImageBuild DEF Inv, WaitInv, TypeOK
<1>2. ASSUME ~alive, Started({}), disk' = disk, helpers' = {},
             NEW w \in Version, disk = Build[w], image["app"] <= w
      PROVE  DiskInv' /\ Starts
  <2>1. image' = disk'
    BY <1>2 DEF Started
  <2>2. alive'
    BY Zenon, <1>2 DEF Started
  <2> QED BY <1>1, <1>2, <2>1, <2>2 DEF DiskInv, Starts
<1>3. CASE PlayerStarts
  <2>1. ~alive /\ Started(helpers) /\ helpers' = helpers /\ disk' = disk
    BY <1>3 DEF PlayerStarts
  <2>2. helpers = {}
    BY <1>1, <2>1, StartedMoves
  <2>3. \E w \in Version : disk = Build[w] /\ image["app"] <= w
    BY <1>1, <2>2 DEF DiskInv
  <2>4. Started({}) /\ helpers' = {}
    BY <2>1, <2>2
  <2> QED BY <1>2, <2>1, <2>3, <2>4
<1>4. ASSUME NEW h \in helpers, HelperEnds(h)
      PROVE  DiskInv' /\ (Starts \/ UNCHANGED <<alive, image>>)
  <2>1. h \in Helper /\ helpers = {h} /\ HelperInv(h) /\ helpers \ {h} = {}
    BY <1>1 DEF DiskInv
  <2>2. helpers' = {} /\ Started({}) /\ disk' = disk
    BY <1>4, <2>1 DEF HelperEnds
  <2>3. \E w \in Version : disk = Build[w] /\ image["app"] <= w
    <3>1. CASE h.pc = "apply" /\ h.todo \cup h.gone = {}
      <4>1. h.applied = Changes(h.v) /\ disk = Mixed(h) /\ h.v > image["app"] /\ h.v \in Version
        BY <2>1, <3>1, HelperTypes DEF HelperInv
      <4>2. Build[h.v] \in [File -> Version \cup {Absent}] /\ h.v \in Nat
        BY <4>1, BuildTypes
      <4>3. disk = Build[h.v]
        BY <1>1, <4>1, <4>2 DEF Mixed, Changes
      <4> QED BY <1>1, <4>1, <4>2, <4>3
    <3>2. CASE h.pc = "back" /\ h.applied = {}
      <4>1. disk = image
        BY <1>1, <2>1, <3>2 DEF HelperInv, Mixed
      <4> QED BY <1>1, <4>1
    <3>3. CASE h.pc = "restart"
      <4>1. h.v \in Version /\ h.v \in Nat /\ h.v > image["app"]
        BY <2>1, HelperTypes, BuildTypes DEF HelperInv
      <4> QED BY <1>1, <2>1, <3>3, <4>1 DEF HelperInv
    <3> QED BY <1>4, <3>1, <3>2, <3>3 DEF HelperEnds
  <2>4. CASE ~alive
    BY <1>2, <2>2, <2>3, <2>4
  <2>5. CASE alive
    <3>1. disk = image
      BY <1>1, <2>5, AliveFiles
    <3>2. UNCHANGED <<alive, image>>
      BY Zenon, <2>2, <2>5 DEF Started
    <3> QED BY <1>1, <2>2, <3>1, <3>2 DEF DiskInv
  <2> QED BY <2>4, <2>5
<1>5. ASSUME NEW h \in helpers, InstallerRuns(h)
      PROVE  DiskInv' /\ Starts
  <2>1. h \in Helper /\ helpers = {h} /\ HelperInv(h)
    BY <1>1 DEF DiskInv
  <2>2. ~alive /\ helpers' = {} /\ disk' = Build[h.v] /\ image' = disk'
    BY <1>5, <2>1 DEF InstallerRuns
  <2>3. alive'
    BY Zenon, <1>5 DEF InstallerRuns
  <2>4. h.v \in Version /\ h.v > image["app"] /\ h.v \in Nat
    BY <2>1, HelperTypes, BuildTypes DEF HelperInv
  <2> QED BY <1>1, <2>2, <2>3, <2>4 DEF DiskInv, Starts
<1> QED BY <1>3, <1>4, <1>5

(* The start that ends the exception: no helper is about and the files are    *)
(* one build.                                                                 *)
Mends ==
  /\ ~alive /\ alive' = TRUE /\ helpers' = {} /\ UNCHANGED processVars
  /\ \E w \in Version : disk' = Build[w] /\ image' = disk'

LEMMA Mending ==
  ASSUME WaitInv, torn, ~torn', Next
  PROVE  Mends
<1>1. TypeOK
  BY DEF WaitInv
<1>2. ASSUME NEW hs, Started(hs), disk' = disk, helpers' = hs, UNCHANGED processVars
      PROVE  Mends
  <2>1. hs = {} /\ ~alive /\ alive' = TRUE /\ image' = disk /\ Whole(disk)
    BY Zenon, <1>1, <1>2, StartedMoves
  <2> QED BY <1>2, <2>1 DEF Mends, Whole
<1>3. CASE PlayerStarts
  <2>1. Started(helpers) /\ disk' = disk /\ helpers' = helpers /\ UNCHANGED processVars
    BY <1>3 DEF PlayerStarts
  <2> QED BY <1>2, <2>1
<1>4. ASSUME NEW h \in helpers, HelperStep(h)
      PROVE  Mends
  <2>1. CASE HelperEnds(h)
    <3>1. /\ Started(helpers \ {h}) /\ disk' = disk /\ helpers' = helpers \ {h}
          /\ UNCHANGED processVars
      BY <2>1 DEF HelperEnds
    <3> QED BY <1>2, <3>1
  <2>2. CASE InstallerRuns(h)
    <3>1. /\ helpers = {h} /\ helpers' = {} /\ disk' = Build[h.v] /\ image' = disk'
          /\ UNCHANGED processVars
      BY <2>2 DEF InstallerRuns
    <3>2. ~alive /\ alive' = TRUE
      BY Zenon, <2>2 DEF InstallerRuns
    <3>3. h.v \in Version
      BY <1>1, HelperTypes DEF TypeOK
    <3> QED BY <3>1, <3>2, <3>3 DEF Mends
  <2>3. CASE HelperRestoreFails(h) \/ HelperKilled(h) \/ InstallerFails(h)
    BY Zenon, <2>3 DEF HelperRestoreFails, HelperKilled, InstallerFails
  <2>4. CASE HelperBegins(h) \/ HelperFails(h) \/ \E f \in File : HelperApplies(h, f) \/ HelperRestores(h, f)
    BY <2>4 DEF HelperBegins, HelperFails, HelperApplies, HelperRestores, ends
  <2> QED BY <1>4, <2>1, <2>2, <2>3, <2>4 DEF HelperStep
<1>5. CASE \/ StartCheck \/ Fetched \/ Progress \/ Prepared \/ Flip
           \/ GameStarts \/ GameEnds("idle") \/ GameEnds("crashed") \/ PlayerAsks \/ PlayerQuits
           \/ \E t \in timers : NoticeEnds(t)
           \/ \E h \in hands : HandOffFails(h) \/ Declines(h)
  BY <1>5 DEF StartCheck, Fetched, Progress, Prepared, Flip, GameStarts, GameEnds, PlayerAsks,
              PlayerQuits, NoticeEnds, HandOffFails, Declines, diskVars, ends
<1>6. ASSUME NEW h \in hands, HandsOver(h) \/ HelperUnnoticed(h)
      PROVE  FALSE
  BY Zenon, <1>6 DEF HandsOver, HelperUnnoticed, Meets
<1> QED BY <1>3, <1>4, <1>5, <1>6 DEF Next, LauncherStep

LEMMA HelperStaged ==
  ASSUME Inv, PlayerStarts \/ \E h \in helpers : HelperStep(h)
  PROVE  StagedInv'
<1>1. UNCHANGED <<protected, processVars>>
  BY DEF PlayerStarts, HelperStep, HelperBegins, HelperEnds, InstallerRuns, InstallerFails,
         HelperFails, HelperRestoreFails, HelperKilled, HelperApplies, HelperRestores
<1>2. UNCHANGED <<status, current, changed, check, timers, hands, made>>
  BY <1>1 DEF processVars
<1>3. CASE alive
  <2>1. image' = image
    BY <1>3 DEF PlayerStarts, HelperStep, HelperBegins, HelperEnds, InstallerRuns, InstallerFails,
                HelperFails, HelperRestoreFails, HelperKilled, HelperApplies, HelperRestores, Started
  <2> QED BY <1>1, <1>2, <2>1, StagedStands DEF Inv
<1>4. CASE ~alive
  <2>1. (current = NoManifest /\ check = NoCheck /\ timers = {} /\ hands = {})'
    BY <1>2, <1>4 DEF Inv, WaitInv, ClosedInv
  <2> QED BY <2>1 DEF StagedInv
<1> QED BY <1>3, <1>4

LEMMA QuitStaged ==
  ASSUME PlayerQuits \/ \E h \in hands : HandsOver(h)
  PROVE  StagedInv'
<1>1. (current = NoManifest /\ check = NoCheck /\ timers = {} /\ hands = {})'
  BY DEF PlayerQuits, HandsOver, Closed
<1> QED BY <1>1 DEF StagedInv

LEMMA InitInv == Init => UntornInv
<1> SUFFICES ASSUME Init PROVE UntornInv
  OBVIOUS
<1>1. /\ current = NoManifest /\ check = NoCheck /\ timers = {} /\ hands = {}
      /\ helpers = {} /\ image = disk /\ disk \in {Build[v] : v \in Version}
  BY DEF Init
<1>2. StagedInv /\ DiskInv
  BY <1>1 DEF StagedInv, DiskInv
<1> QED BY <1>2, InitWaits DEF UntornInv

\* A step that leaves the files whole leaves them as the hand-offs and the helper expect.
LEMMA WholeStep ==
  ASSUME Inv, ~torn', Next
  PROVE  StagedInv' /\ DiskInv'
<1>1. CASE \/ StartCheck \/ Fetched \/ Progress \/ Prepared \/ Flip
           \/ GameStarts \/ GameEnds("idle") \/ GameEnds("crashed") \/ PlayerAsks
           \/ \E t \in timers : NoticeEnds(t)
           \/ \E h \in hands : HandOffFails(h) \/ Declines(h)
  <2>1. UNCHANGED <<alive, image, helpers, disk>>
    BY <1>1 DEF StartCheck, Fetched, Progress, Prepared, Flip, GameStarts, GameEnds, PlayerAsks,
                NoticeEnds, HandOffFails, Declines, diskVars
  <2>2. StagedInv'
    BY <1>1, CheckStages, FetchedStages, PreparedStages, FlipStages, GameStages, NoticeStages,
       HandOffStages
  <2> QED BY <2>1, <2>2, DiskStands DEF Inv
<1>2. CASE \E h \in hands : HelperUnnoticed(h)
  BY <1>2, HandOffStages, BornDisk
<1>3. CASE \E h \in hands : HandsOver(h)
  BY <1>3, QuitStaged, BornDisk
<1>4. CASE PlayerQuits
  <2>1. DiskInv'
    BY <1>4, ClosedDisk DEF PlayerQuits, Inv
  <2> QED BY <1>4, <2>1, QuitStaged
<1>5. CASE PlayerStarts \/ \E h \in helpers : HelperStep(h)
  <2>1. DiskInv'
    BY <1>5, StartsWhole, HelperWorksDisk, HelperStopsDisk DEF HelperStep
  <2> QED BY <1>5, <2>1, HelperStaged
<1> QED BY <1>1, <1>2, <1>3, <1>4, <1>5 DEF Next, LauncherStep

LEMMA NextInv == UntornInv /\ [Next]_vars => UntornInv'
<1> SUFFICES ASSUME UntornInv, [Next]_vars PROVE UntornInv'
  OBVIOUS
<1>1. WaitInv'
  BY NextWaits DEF UntornInv
<1>2. CASE UNCHANGED vars
  <2>1. UNCHANGED <<protected, alive, image, status, current, changed, check, timers, hands, made,
                    helpers, disk, torn>>
    BY <1>2 DEF vars, processVars, diskVars, ends
  <2> QED BY <1>1, <2>1, StagedStands, DiskStands DEF UntornInv
<1>3. CASE torn'
  BY <1>1, <1>3 DEF UntornInv
<1>4. CASE Next /\ ~torn' /\ ~torn
  BY <1>1, <1>4, WholeStep DEF UntornInv, Inv
<1>5. CASE Next /\ ~torn' /\ torn
  <2>1. Mends
    BY <1>5, Mending DEF UntornInv
  <2>2. (current = NoManifest /\ check = NoCheck /\ timers = {} /\ hands = {})'
    BY <2>1 DEF Mends, processVars, UntornInv, WaitInv, ClosedInv
  <2>3. DiskInv'
    BY <2>1 DEF Mends, DiskInv
  <2> QED BY <1>1, <2>2, <2>3 DEF UntornInv, StagedInv
<1> QED BY <1>2, <1>3, <1>4, <1>5

-----------------------------------------------------------------------------
LEMMA BuildIs ==
  ASSUME NEW v \in Version
  PROVE  BuildOf(Build[v]) = v
<1>1. \A w \in Version : Build[w] = Build[v] => w = v
  BY BuildTypes
<1> QED BY <1>1 DEF BuildOf

LEMMA BuildStands ==
  ASSUME image' = image
  PROVE  BuildOf(image)' = BuildOf(image)
BY Zenon DEF BuildOf

LEMMA BuildOrMixture == BuildOf(image)' \in Version \cup {0}
<1>1. CASE \E v \in Version : Build[v] = image'
  <2>1. PICK v \in Version : Build[v] = image'
    BY <1>1
  <2>2. BuildOf(Build[v]) = v
    BY BuildIs
  <2>3. BuildOf(image)' = v
    BY Zenon, <2>1, <2>2 DEF BuildOf
  <2> QED BY <2>3
<1>2. CASE ~\E v \in Version : Build[v] = image'
  <2>1. BuildOf(image)' = 0
    BY Zenon, <1>2 DEF BuildOf
  <2> QED BY <2>1
<1> QED BY <1>1, <1>2

\* A step of AtomicUpdate, or one it does not see.
AbsStep ==
  [Update!Tear \/ Update!Quit \/ Update!Start \/ Update!StartTorn \/ Update!StartWhole]_
    <<alive, BuildOf(image), torn>>

\* What a step does to the launcher, whatever else it does.
LEMMA LauncherMoves ==
  ASSUME TypeOK, Next
  PROVE  \/ alive' = alive /\ image' = image
         \/ alive /\ alive' = FALSE /\ image' = image /\ (torn' = torn \/ torn' = TRUE)
         \/ ~alive /\ alive' = TRUE
<1>1. CASE PlayerQuits \/ \E h \in hands : HandsOver(h)
  <2>1. alive /\ alive' = FALSE
    BY Zenon, <1>1 DEF PlayerQuits, HandsOver, Closed
  <2>2. image' = image
    BY <1>1 DEF PlayerQuits, HandsOver
  <2>3. torn' = torn \/ torn' = TRUE
    <3>1. torn \in BOOLEAN
      BY LauncherTypes
    <3>2. torn' = torn \/ torn' = (torn \/ helpers # {})
      BY Zenon, <1>1 DEF PlayerQuits, HandsOver, Meets, ends
    <3> QED BY Zenon, <3>1, <3>2
  <2> QED BY Zenon, <2>1, <2>2, <2>3
<1>2. ASSUME NEW hs, Started(hs)
      PROVE  (alive' = alive /\ image' = image) \/ (~alive /\ alive' = TRUE)
  BY Zenon, <1>2, StartedMoves
<1>3. CASE PlayerStarts \/ \E h \in helpers : HelperEnds(h)
  BY <1>2, <1>3 DEF PlayerStarts, HelperEnds
<1>4. CASE \E h \in helpers : InstallerRuns(h)
  BY Zenon, <1>4 DEF InstallerRuns
<1>5. CASE \/ StartCheck \/ Fetched \/ Progress \/ Prepared \/ Flip
           \/ GameStarts \/ GameEnds("idle") \/ GameEnds("crashed") \/ PlayerAsks
           \/ \E t \in timers : NoticeEnds(t)
           \/ \E h \in hands : HandOffFails(h) \/ Declines(h) \/ HelperUnnoticed(h)
           \/ \E h \in helpers : \/ HelperBegins(h) \/ HelperFails(h) \/ HelperRestoreFails(h)
                                 \/ HelperKilled(h) \/ InstallerFails(h)
                                 \/ \E f \in File : HelperApplies(h, f) \/ HelperRestores(h, f)
  BY <1>5 DEF StartCheck, Fetched, Progress, Prepared, Flip, GameStarts, GameEnds,
              PlayerAsks, NoticeEnds, HandOffFails, Declines, HelperUnnoticed, HelperBegins,
              HelperFails, HelperRestoreFails, HelperKilled, InstallerFails, HelperApplies,
              HelperRestores
<1> QED BY <1>1, <1>3, <1>4, <1>5 DEF Next, LauncherStep, HelperStep

LEMMA StartsHere ==
  ASSUME Inv, ~torn', Next, ~alive, alive'
  PROVE  Starts
<1>1. CASE PlayerStarts \/ \E h \in helpers : HelperEnds(h) \/ InstallerRuns(h)
  <2>1. ~(alive' = alive)
    BY Zenon
  <2> QED BY <1>1, <2>1, StartsWhole
<1>2. CASE LauncherStep \/ GameStarts \/ GameEnds("idle") \/ GameEnds("crashed") \/ PlayerAsks
           \/ Flip \/ PlayerQuits
  BY <1>2 DEF LauncherStep, StartCheck, Fetched, Progress, Prepared, Flip, GameStarts, GameEnds,
              PlayerAsks, PlayerQuits, NoticeEnds, HandOffFails, Declines, HandsOver, HelperUnnoticed
<1>3. CASE \E h \in helpers : \/ HelperBegins(h) \/ HelperFails(h) \/ HelperRestoreFails(h)
                              \/ HelperKilled(h) \/ InstallerFails(h)
                              \/ \E f \in File : HelperApplies(h, f) \/ HelperRestores(h, f)
  <2>1. alive' = alive
    BY <1>3 DEF HelperBegins, HelperFails, HelperRestoreFails, HelperKilled, InstallerFails,
                HelperApplies, HelperRestores
  <2> QED BY Zenon, <2>1
<1> QED BY <1>1, <1>2, <1>3 DEF Next, HelperStep

LEMMA StepRefines == UntornInv /\ [Next]_vars => AbsStep
<1> SUFFICES ASSUME UntornInv, [Next]_vars
             PROVE  AbsStep
  OBVIOUS
<1>1. CASE UNCHANGED vars
  <2>1. alive' = alive /\ image' = image /\ torn' = torn
    BY <1>1 DEF vars, diskVars, ends
  <2> QED BY Zenon, <2>1, BuildStands DEF AbsStep
<1>2. CASE Next
  <2>1. TypeOK /\ torn \in BOOLEAN /\ torn' \in BOOLEAN
    BY <1>2, NextWaits, LauncherTypes DEF UntornInv, WaitInv, TypeOK
  <2>2. CASE torn' = TRUE
    <3>1. CASE alive' = alive /\ image' = image
      BY Zenon, <2>2, <3>1, BuildStands DEF AbsStep, Update!Tear
    <3>2. CASE alive /\ alive' = FALSE /\ image' = image
      BY Zenon, <2>2, <3>2, BuildStands DEF AbsStep, Update!Quit
    <3>3. CASE ~alive /\ alive' = TRUE
      BY Zenon, <2>2, <3>3, BuildOrMixture DEF AbsStep, Update!StartTorn
    <3> QED BY <1>2, <2>1, <3>1, <3>2, <3>3, LauncherMoves
  <2>3. CASE torn' = FALSE /\ torn = TRUE
    <3>1. Mends
      BY <1>2, <2>3, Mending DEF UntornInv
    <3>2. PICK w \in Version : image' = Build[w]
      BY <3>1 DEF Mends
    <3>3. BuildOf(image') = w /\ BuildOf(image)' = BuildOf(image')
      BY <3>2, BuildIs DEF BuildOf
    <3>4. ~alive /\ alive' = TRUE
      BY Zenon, <3>1 DEF Mends
    <3> QED BY Zenon, <2>3, <3>3, <3>4 DEF AbsStep, Update!StartWhole
  <2>4. CASE torn' = FALSE /\ torn = FALSE
    <3>1. Inv
      BY <2>4 DEF UntornInv, Inv
    <3>2. CASE alive' = alive /\ image' = image
      BY Zenon, <2>4, <3>2, BuildStands DEF AbsStep
    <3>3. CASE alive /\ alive' = FALSE /\ image' = image
      BY Zenon, <2>4, <3>3, BuildStands DEF AbsStep, Update!Quit
    <3>4. CASE ~alive /\ alive' = TRUE
      <4>1. Starts
        BY <1>2, <2>4, <3>1, <3>4, StartsHere
      <4>2. PICK v \in Version, w \in Version : image = Build[v] /\ image' = Build[w] /\ v <= w
        BY <4>1 DEF Starts
      <4>3. BuildOf(image) = v /\ BuildOf(image') = w /\ BuildOf(image)' = BuildOf(image')
        BY <4>2, BuildIs DEF BuildOf
      <4>4. BuildOf(image)' \in {u \in Version : u >= BuildOf(image)}
        BY <4>2, <4>3, BuildTypes
      <4> QED BY Zenon, <2>4, <3>4, <4>4 DEF AbsStep, Update!Start
    <3> QED BY <1>2, <2>1, <3>2, <3>3, <3>4, LauncherMoves
  <2> QED BY Zenon, <2>1, <2>2, <2>3, <2>4
<1> QED BY <1>1, <1>2

LEMMA InitRefines == Init => Update!AbsInit
<1> SUFFICES ASSUME Init PROVE Update!AbsInit
  OBVIOUS
<1>1. alive = TRUE /\ torn = FALSE
  BY Zenon DEF Init
<1>2. BuildOf(image) \in Version
  BY BuildIs DEF Init
<1> QED BY Zenon, <1>1, <1>2 DEF Update!AbsInit

(* Every launcher that starts is one build in all its files and never an      *)
(* older one than the last, whatever check, sign-in, refusal, crash, kill or  *)
(* failing operation comes between, and however many helpers there are:       *)
(* unless a rollback failed as well, a kill left a mixture, or a helper met   *)
(* another one or a launcher started under its hands.  Then nothing is        *)
(* promised until the launcher starts from one build with no helper about.    *)
THEOREM UpdatesWhole == Spec => UpdatesAtomically
<1>1. UntornInv /\ [Next]_vars => UntornInv'
  BY NextInv
<1>2. UntornInv /\ [Next]_vars => AbsStep
  BY StepRefines
<1> QED BY <1>1, <1>2, InitInv, InitRefines, PTL DEF Spec, UpdatesAtomically, Update!AbsSpec, AbsStep

=============================================================================
