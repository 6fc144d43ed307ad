# A verification model of the Bweeep launcher

This directory holds TLA+ models of the Bweeep launcher and of the servers behind it, the TLC
configurations that check them on small instances, and TLAPS proofs of what matters most. Every
definition is translated from the code under `src/`; `PROJECT.json` names the lines each stands for.

    tlc -workers 2 -config HostFailover.cfg MCHostFailover.tla
    tlapm HostProofs.tla

## 1. The system

Bweeep is an Electron launcher for private Minecraft servers. Four groups of programs share state:

| Where | Program | State | Talks to |
|---|---|---|---|
| player's PC | launcher main process (`src/src/main`), renderer | install tree, state files, the running game | Supabase functions, mirrors, Modrinth |
| Supabase | SQL functions (`supabase/migrations`), edge functions (`supabase/functions`) | members, invites, names, tokens, notices, host control | launcher, servers, agents |
| VPS and standby PC | server gates (`scripts/server-gate.mjs`), host agents (`infra/hosting`) | gate state, schedules, worlds, nftables sets | each other's files, systemd, Supabase |
| game servers and clients | mods (`companion-mod`, `forge-server-auth-1201`, ...) | logged-in players | Yggdrasil function |

### 1.1 Inventory

For each component: its state; its operations; whom it meets; what is hard; what makes it correct.

**Host coordinator** (`migrations/20261029161636_host_failover_control.sql`). One control row (policy,
revision, owner, session, epoch, lease_until, requested_node, handoff_node) and two node rows with their
snapshot columns. `poll`, `snapshot`, `release`, `admin`; each locks the control row first. *Hard:* expiry,
lost session files, released leases, stale panels. *Correct:* at most one session holds a grant; a row of the
running epoch is a copy of the owner's world; owner and session only change with a new epoch.

**Host agent** (`infra/hosting/host-agent.mjs`). Mode, one tick at a time, one transition at a time, latest
answer, proxied epoch, authorization. Polls every few seconds, runs a one-second watchdog, starts activations and
handoffs that go on beside the ticks. *Hard:* everything happens between two `await`s. *Correct:* it opens its
ports only on a grant that still stands, and never starts the wrong world.

**Host driver** (`driver.py`). Role file, nftables set with a timeout, gate units, restored marker, a file lock.
*Correct:* ports open only for an authorization that has not expired.

**World copies** (`sync.mjs`, `receive-snapshot.py`, `rcon-control.mjs`) and **snapshot pruning**
(`prune-snapshots.mjs`). A copy is stamped, prepared, transferred, committed under its id and reported. *Hard:*
a copy overlaps handoffs and takeovers. *Correct:* what is restored is what the old owner last saved.

**Hosting panel** (`HostingPanel.tsx`, `launcher-access/hosting.ts`). What was last shown; a form with the
revision read with it. *Hard:* several administrators; states read seconds ago.

**Server gate** (`server-gate.mjs`, `gate-schedule.mjs`, `gate-server.mjs`). Per gate a state
(down, starting, up, stopping), held connections, failure counter, wake-after-stop flag; shared: schedule,
boundary times acted upon, opened-by-hand files, `.stopping` markers. Callbacks: joins, a probe tick, idle and schedule
timers, SIGHUP. *Hard:* each awaits processes for minutes while the others run; two gates share one machine;
state survives restarts in files. *Correct:* a stopped server is not started outside its hours; a held player is handed over or told; a server
is not stopped under its players.

**Game names** (`20260929120000_relax_name_lock.sql`, `launch-name.ts`, the account handlers of
`launcher-access/index.ts`). Accounts (name, UUID), saved names, a history of played names with the time each was
given up, reserved offline UUIDs. A member saves a name, starts a game, joins a server; an administrator releases a name or a
reservation. *Hard:* transactions that lock names while removals and redeemed codes lock none; names held for a day.
*Correct:* one holder per name; a reserved UUID never goes to another member than its owner; a free name can be taken.

**Game identity server** (`functions/yggdrasil`, four migrations). Tokens, joins, failures. *Hard:* overlapping
runs of the game and the sign-out issue and revoke tokens over a network that delays each call. *Correct:* no token outlives the
game and the session it was made for.

**Members and invites** (`20260914142631_launcher_access.sql`, `20260930100200_add_admin_tools.sql`,
`20261021135547_enforce_launcher_invite_limits.sql`). Members with roles, codes with uses and an owner. *Hard:* the edge function and the
database look at a role at different times; removal and return. *Correct:* an administrator remains; no open code of somebody who left.

**Launcher session** (`supabase-auth.ts`, `index.ts`, `offline-access.ts`, the entry screen of `App.tsx`). The login in flight and
its flow id, callbacks from the browser, the session and its file, access checks with refresh and retry, the
snapshot that lets a member play through an outage. *Hard:* everything that was asked for one account is answered under
another. *Correct:* a login ends; what is shown and kept for an account is that account's.

**Launch of a game** and **install move** (`main/index.ts`, `launch-progress.ts`, `install-move*.ts`). One
abort controller, a progress state, a leftover task, exit callbacks of earlier runs; folders renamed or copied, undone and removed.
*Hard:* a failed launch whose downloads go on, a second launch, a sign-out, a move that fails or is killed half-way. *Correct:* one
writer; a launch ends; a move keeps every file and is never half done once it says so.

**Launcher update** (`launcher-update.ts`, `supabase-file-update.ts`, `file-update-manifest.ts`, `file-update-broker.ts`,
`file-update-helper.ps1`, `protected-installer.ts`). The manifest of a channel, staged files, a notice on the screen, a hand-off to a helper that waits for
the launcher's exit, replaces and rolls back, or to an installer the player confirms. *Hard:* another account's channel, a
game, a refusal while a hand-off waits; a failure between two replacements, and one of the rollback; a kill; a second helper. *Correct:* the launcher that starts next is all of one build,
and never an older one.

**Pack synchronisation** (`sync.ts`, `download.ts`, `install-bundle.ts`, `hash-cache.ts`, `mrpack.ts`). The pack's files, their partial
downloads, the hash cache, the list of managed files, the default settings with the record of what was written. *Hard:* a kill
between any two writes; two versions of one path; settings the player changed. *Correct:* what a synchronisation leaves is what
its version pins; settings of the player's own are kept.

**Notices** (`notice-relay.mjs`, `notice.ts`, `useNotice.ts`, two migrations). Rows with an audience; the relay's records of servers; what the
launcher shows. *Hard:* a kill between a banner and its record; an answer for the account before. *Correct:* a banner once per server, a private notice only to its member.

**Personal content and options** (`user-content.ts`, `shared-options.ts`, `key-defaults.ts`). The player's folders of mods, the list of what the last
launch copied, the shared `options.txt`. Every launch takes the last launch's jars out of the mods folder and copies this one's in; options are restored before a game and
copied back while it runs and when it ends. *Hard:* the pack and the player use one folder and one file; two lists say whose a jar is, written at different times;
nobody waits for the last copy. *Correct:* the pack's files stay the pack's, no mod is there twice, a game starts with the player's last choices.

**Game tickets** (`20260916200000_add_one_time_game_tickets.sql`): one use before expiry. **Server-side mods**: the login
check of a joining player. **Display names**, **skins**, **catalog**, **administrator tools**, **status and presence**,
**windows**, **Minecraft runtime**, **release tooling**: single statements, pure functions, presentation or
third-party work; section 6 gives the reasons.

### 1.2 How the modelled parts interact

*Hosts.* An agent polls the coordinator; a grant authorizes it for 12 seconds and its driver opens the game ports for 20
seconds at a time; a lease lasts 60 seconds. When the lease and then the failure interval have passed, the
other agent may take over with a recorded copy, if the policy or a released handoff permits it. The PC's agent makes the copies in
both directions. Administrators edit the policy and ask for switches. A handoff stops the
owner's servers, awaits one more copy and releases the lease.

*Players.* Somebody redeems a code and is a member (`Membership`). The launcher signs them in (`Session`), brings the pack to its
version, their own mods and settings into it (`PackSync`), takes the name they play under (`GameNames`) and starts the game with a token (`Launch`). The game server asks the
identity server about token and name. An install move and a launch exclude each other. An update of the launcher waits for the game to end (`FileUpdate`).
Administrators post notices; the launcher shows them and the relay puts them on the servers' screens (`Notices`, `NoticeRelay`).

## 2. Modules

| Module | Models | Extends |
|---|---|---|
| `HostControl` | the SQL of the hosts: one operator per function, for any caller | Integers |
| `HostCallers` | coordinator + arbitrary agents + panels | HostControl |
| `HostFailover` | coordinator + the two real agents, driver, copies, players | HostControl |
| `ServerGate` | the server gates, their opening hours, systemd units, connections | Integers |
| `Membership` | members, roles, codes, administrators' requests in two steps | Naturals, FiniteSets |
| `GameNames` | names, UUIDs, holds, overlapping transactions | Membership |
| `Session` | logins, callbacks, accounts, access checks, the outage snapshot | Naturals, Sequences |
| `InstallMove` | moving the installed folders | Naturals |
| `Launch` | launches, their jobs, tokens and exits, sign-out | InstallMove |
| `AtomicUpdate` | the promise of an update: one build at a time, never an older one, until the files are torn and again from the next start of one build | Naturals |
| `FileUpdate` | check, staging, hand-off, helper and installer | instantiates AtomicUpdate |
| `PackDefaults` | default settings and the record of what was written | Naturals |
| `PersonalContent` | the player's own mods in the instance's mods folder | PackDefaults |
| `SharedOptions` | options.txt and its shared copy | PackDefaults |
| `PackSync` | files, parts, bundle, hash cache, managed list; the whole of a launch's files | PersonalContent, SharedOptions |
| `Notices` | the notices and one launcher's screen | Membership |
| `NoticeRelay` | the relay and the game servers | Notices |
| `MC...` | constants for TLC | the module |
| `HostProofs` | theorems about the hosts | HostCallers, HostFailover, TLAPS |
| `ServerGateProofs` | theorems about the gates | ServerGate, TLAPS |
| `SessionProofs`, `FileUpdateProofs`, `PackSyncProofs` | theorems about the module of that name | the module, TLAPS |
| `GameNamesProofs` | theorems about names | GameNames, TLAPS |
| `LaunchProofs` | theorems about launches, tokens and the install move | Launch, TLAPS |
| `NoticesProofs` | theorems about members, the screen and the relay | NoticeRelay, TLAPS |

**HostControl.** `owner`, `session`, `epoch`, `requested`, `handoff`, `policy`, `revision` are the columns of
the control row; `lease` is lease_until minus now; `snap[n]` are the snapshot columns of node n with the age of
`started_at`; `catalog` is the advertised address. `Granted` is the case distinction of `launcher_host_poll`,
`Poll` the whole function. Since each function takes the row lock before it reads, each is one step. Time is a number of
ticks: at the smallest unit two calls are never simultaneous, hence the code's `<` between instants is `<=` between ticks.
`syncMinutes`, `last_seen` and the status text pace or describe and are left out.

**HostCallers** assumes nothing of agents: any session may poll, claim or not, report any copy of any epoch, release any
epoch. What holds here therefore rests on the SQL alone. A panel holds what it shows (owner and requested node, refreshed
every 15 seconds) and its form (policy and revision, read on load, reload or after a save); the cancel button sends
`switch` to the node it *shows* as owner, as in the code.

**HostFailover** models both agents as Node.js processes. The variables are the fields of `HostAgent`; each operator between
two awaits is an action:

| Code | Actions |
|---|---|
| `tick` up to the request, the database, the answer | `TickStart`, `CoordinatorPoll` / `CoordinatorRead`, `ReadAnswer` |
| the granted branches | `RenewActive` (with the start of `handoff`), `RenewPassing`, `StartActivation` |
| the denied branches, after waiting for the driver | `Denied`, then `BecomeProxy` or `NobodyServes` |
| `watchdog` | `Watchdog` |
| `activate` after the driver | `ActivationDone`, `ActivationFails` |
| `handoff` after the driver, after the copy, at the release, after it | `HandoffStopped`, `CopySeen`, `HandoffRelease`, `HandoffReleased`, `HandoffFails` |
| `sync.mjs` | `SyncBegins`, `SyncCopies`, `SyncPublishes`, `SyncFails` |
| environment | `Play`, `CallLost`, `Crash`, `Admin`, `Tick` |

`driver.py` runs under a file lock. A short job is part of its caller's step; the long ones (a restore; the stop of a
handoff) hold `Locked`, and a fence that meets the lock is remembered in `fenceDue` and takes effect when
the job ends. A world is a number: each save of a running node takes the next one (`edits`), so
"newer" and "lost" can be said. `line` records on which world the running epoch stands.
An agent's process may be arbitrarily slow; the kernel's timers (request abort, nftables timeout) and the
database clock run at the same rate.

**ServerGate** models the gate processes of one machine. Per gate: the fields of its object (`state`, `failures`, `quiet` since
the last activity, `since` the state's or the silence's beginning, `online`, `again`), where its two coroutines are (`tick`,
`hours`) and how far the `stopServer` of each is (`stop`), its unit as systemd and the port show it, and the files in the shared
state directory (`scheduled`, `off`, `until`, `done`, `marker`). Per connection: `place`.

| Code | Actions |
|---|---|
| `tick`: the probe, an answer (with the release of held joins and the idle decision), no answer, after `isActive` | `TickProbe`, `TickStatus`, `TickMiss`, `TickAskedUp`, `TickAskedStarting` |
| `stopServer`: the console or systemd, the wait's end; after it `maybeSleep`, `recover`, `closeForHours` | `StopConsole`, `StopWaited`; `SleepEnds`, `RecoverEnds`, `CloseEnds` |
| `enforceHours`: closing, the late notice, opening | `CloseForHours`, `LateEnds`, `OpenForHours` |
| joins, the launcher's marked ping, the answer to a held client's queries, its leaving | `Join`, `Ping`, `Answered`, `Leave` |
| `listen` after a restart; `gate-schedule.mjs` and SIGHUP; the `.off` switch | `Restart`; `OpenByHand`, `CloseByHand`, `Reload`; `SwitchOff` |
| environment | `UnitStep`, `UnitCrash`, `UnitHang`, `Unhang`, `StartByHand`, `Minute` |

A unit is stopped, booting, running, hung, saving (after the console's `stop`), leaving (systemd stops it) or cycling (a start is
queued behind the stop; `systemctl is-active` says no). `Minute` is the unit of time; waits of seconds end within it, and it
passes only when every due check is done. What bounds the environment there: a stop takes at most `StopTime`, a boot less than `StartTime`
unless `SlowBoot`, and a stop or boot the gate has lost sight of (it restarted, or took the unit for dead) ends within its minute.

**Membership** is the member table as the database functions treat it. A function that decides on rows locks them and is one
step; an administrator's request is two (`Ask`: the edge function saw an administrator; `SetRole`, `RemoveMember`: the database looks
again), with anything in between. `removed` counts the day for which somebody who left still holds names.

**GameNames** splits `launcher_set_game_name` (`Save`), the claim of a launch (`Claim`) and the confirmation by a game server (`Confirm`) where
they are split by the locks: `AskSave`, `AskPlay`, `Seen` are the requests, `Check` finds the name free, and between it and the write anything
may run that takes neither lock. `Held`, `Available`, `LaunchName`, `Freed` and `NewUuid` are the SQL helpers of the same purpose;
`ReleaseName`, `DeleteReservation` the administrator's functions. Names that differ only in case are one name.

**Session** has one action per stretch between two awaits of the main process:

| Code | Actions |
|---|---|
| `account:login`, `cancelLogin`, `cancelPendingLogin` | `StartLogin`, `CancelLogin`, `Failed` |
| the `bweeep:` callbacks and `processPendingDeepLinks` | `Callbacks`, `TakeCallback`, `SignIn`, `ExchangeFails` |
| `access:status` with its refresh and its retry | `AskStatus`, `StatusAnswered`, `StatusRefused`, `StatusUnavailable` |
| `offline-access.ts`: reading and writing the snapshot | `LastKnown`, `Remember` |
| `account:logout`, `account:setGameProfile` | `Logout`, `LogoutSigned`, `LogoutEnds`, `AskRename`, `RenameEnds` |
| the session file at the next start | `Restart`; the server that refuses a session is `Revoke` |

`completedAuthFlows` is what distinguishes an error told to the player from one that is logged; which of the two decides whether the entry screen waits on.

**FileUpdate** follows an update from the manifest to the launcher that starts next:

| Code | Actions |
|---|---|
| `checkForUpdates`, `prepare` | `StartCheck`, `Fetched`, `Progress`, `Prepared` |
| `tryInstall`, the five seconds of notice | `TryInstall` (in every step that calls it), `NoticeEnds` |
| the hand-off, `file-update-broker.ts`, `protected-installer.ts` | `HandsOver`, `HelperUnnoticed`, `HandOffFails`, `Declines` |
| `file-update-helper.ps1` | `HelperBegins`, `HelperApplies`, `HelperFails`, `HelperRestores`, `HelperRestoreFails`, `HelperEnds`, `HelperKilled` |
| the installer | `InstallerRuns`, `InstallerFails` |
| game, audience, player | `GameStarts`, `GameEnds`, `Flip`, `PlayerAsks`, `PlayerQuits`, `PlayerStarts` |

`disk` and `image` map files to the build they come from, so a mixed launcher can be said. `AtomicUpdate` is the abstract specification; the
refinement mapping takes `image` to the one build that has exactly these files, or to 0. Nothing keeps a second helper from starting or the player from starting the launcher beside a helper, so both may
happen: `torn` remembers it, as it does a rollback that failed and a kill that left a mixture, and `killed` that nothing will start the launcher again.

**InstallMove** and **Launch** share the main process: `MoveBegins` needs the state idle and no move under way, a launch needs no move. A handler's `pc` stands at its
awaits (`leftover`, `manifest`, `files`, `content`, `install`, `spawned`); its two jobs (pack sync and game files) and the call for a token (`RetireOld`, `Issue`,
the answer, what follows it) run beside it and may outlive it. `LaunchFails` is each throw of the handler with everything the `catch` does. `Exit` is the
exit callback of a run that may not be the present one. `RevokeLands` is a revocation reaching the database; `LauncherCloses` also leaves a move half-way.

**PackSync** follows `syncModpack`: `Check` hashes, `Arrives`, `Breaks`, `Mixed`, `Land` download one file and `Remember` keeps its hash with the times the file has by then, `BundleLands`, `BundleCommits` and
`BundleSettles` are the bundle, `Rest` what is left of it, `Fetched` and `FetchFails` end the downloads, `Remove`, `ListOpens`, `ListWritten` the managed list, then **PackDefaults** (`Open`, `Entry`, `Drop`,
`Recorded`, `Stated`: each file and each of the two records is a write of its own), where a kill may leave
a default half written (`Halved`), and `prepareUserContent`: `Options`, then **PersonalContent** takes out (`Collect`, `TakeOut`), chooses
(`Admit`), copies (`CopyIn`) and writes its list (`CopiedOpens`, `CopiedWritten`). `mods` is one folder for all of them. What `Options` does with options.txt is **SharedOptions**: `prepareSharedOptions` (`Seed`), `restoreGameOptions` (`Restore`) and `applyKeyDefaults`, whose three writes are
three steps (`KeysHere`, `KeysShared`, `KeysSettled`); no error of theirs ends the launch (`SeedFails`, `KeysFail`). While the game runs and after it the file is copied back (`Watch`, `Tick`, `LastCapture`); the player chooses or deletes
(`Chosen`, `Deleted`), here or on another server (`PlayedElsewhere`). The line of one key is told apart in both files (`keys`), for the rest a file is one content. Which files have what the player chose last is history (`latest`). `Crash` is a kill anywhere, `Change` what players and mods write.

**Notices** is the table and one launcher's screen with its two readers (the regular check and the administrator's panel), **NoticeRelay** the relay's tick, one action per
await: `Tick` reads, `Take` begins a notice, `Deliver` and `Skip` a server, `NextNotice` writes the state, `Finish` sleeps; `NoReply`, `Closed` and `Kill` are what goes wrong.

## 3. Runs

| Run | Question | Result |
|---|---|---|
| `HostCallers` | Do the coordinator's promises exclude each other for arbitrary callers? | holds, 330,240 states |
| `HostFailover` | Do players ever reach both nodes under automatic recovery with any one fault? | never; 4,185,711 states |
| `HostSwitch` | Is a planned switch well ordered, and do servers start from the restored line, with any one fault? | yes, where the order to restore arrived; 7,757,208 states |
| `HostLateAnswer` | Is a released owner really out? | **no**, a poll already on its way re-activates it |
| `GateHands` | Does a gate know its server, spare its players, keep its hours and answer whom it holds, whatever administrators, slow boots and one crash, hang or restart do? | yes; 519,410 states |
| `GatePair` | Does a gate's opening wait for the other's closing, and do both end, with a crash, a hang or a restart? | yes, but for `escaped`; 152,863 states |
| `GameNames` | Does each name have one holder, and does a reserved UUID stay its owner's, over overlapping saves, claims, joins, removals and returns? | yes, but for two named races; 7,356,207 states |
| `Session` | Does a login always end, and is what an account is shown its own? | yes, but for two named races; 7.9 million states |
| `FileUpdate` | Is an update atomic, does it wait only for a reason, does the launcher come back? | yes; 2,360,415 states |
| `Launch` | Does one run write at a time, does no token stay, does a launch end, does a move keep everything? | yes; 1.9 million states |
| `PackSync` | Does a game start with what its version pins, the player's own mods and their last settings, after kills and failed steps? | yes, but for the named losses; 1,542,301 states |
| `Notices` | Does an administrator remain, does nobody see another's notice, does a banner appear, and once? | yes, but for named losses; 1.5 million states |

The violation is described under "findings" in `PROJECT.json` with the sentence of the repository it contradicts.

### 3.1 What the code does that a property has to except

Some promises one would like to state are false of the code. Where the rest of the promise still tells something, the model remembers, in a variable of its own, that exactly this case
has happened, and the property excepts it; nothing else is excepted.

* *Hosts.* The coordinator orders a restore in one answer only (migration, line 117). If that answer is lost, if the agent dies with it, or if it arrives while an older
  restore still runs, so that `activate` returns at once (`host-agent.mjs:26`), the new owner starts the world of its own disk. `line.lost` remembers such a line and
  `StartsFromLine` excepts it until the next takeover. It also speaks only of an owner whose order is no longer on its way (`Ordered`): an activation of an earlier grant can
  end after a takeover and open for the moment until the order is read, if two switches happen within the twelve seconds of an authorization.
* A handoff takes over a copy that began before the fence (`host-agent.mjs:77`), so "the switched world is the last one" is not stated. The cancel button of a stale panel names a node that is
  no longer the owner and so requests a switch back (`HostingPanel.tsx:57`). Saving a policy withdraws a requested switch but not a released handoff (migration, line 58).
* *Gates.* The answer to a probe sent before the hours' end turns the closing gate back to up (`server-gate.mjs:731`), so that players join a server that saves, against
  `SERVER-SCHEDULE.md:65`. `recover` starts without a look at the hours (`:816`). It begins after a hang, but also without one: `waited` is computed after the await on `isActive` (`:750`), and a closing
  that began meanwhile has set `unansweredSince` to 0, so that the wait seems endless. A server it starts when the closing is past stopping it stays up out of hours; so does one the gate took for
  asleep at the closing although it ran, because its start was given up as timed out (`:587`). `escaped` remembers both and `ClosesDown` excepts it; `WakesInHours` and `NoStopUnderPlayers`
  except `recover`, and `WakesInHours` what administrators do. `ClosesDown` is checked without administrators' acts. An idle stop leaves no `.stopping` marker for the other gate (`:780`). Ending a hand-opened period by hand removes the boundary at which the
  server would stop (`gate-schedule.mjs:189`, against `SERVER-SCHEDULE.md:82`).
* *Names.* A redeemed code takes none of the name locks, so a returning member may hold again a name that another transaction has just found free (`raced`). A server may confirm a
  name its member has left (`late`); it is then held for good. And a member invited back within a day holds a name another has taken meanwhile, whose holder is then refused
  their own name (`relax_name_lock.sql:120`, against lines 6 to 13).
* *Session.* A callback of a cancelled login that fails late cancels whichever login is in flight (`index.ts:318`), and the error is only logged: the entry screen waits on, and neither of
  its buttons helps (`snared`). A check refused late is refreshed with the session of the account that signed in meanwhile (`supabase-auth.ts:475`), so that its
  answer is shown and kept for the wrong one; a rename that is answered after the logout signs the account in again on the screen (`index.ts:509`); a refusal that arrives late
  signs out the account of now. `crossed` remembers that an account came to the screen, or was answered for, while another was signed in.
* *Launch.* If a player signs out while a token is on its way, the call that would retire it has no session any more (`kept`). `broken` in `AllOrNothing` is a failure of taking
  back, and a kill.
* *Launcher update.* A rollback that fails ends at that file, and the launcher is started on what is then there (`file-update-helper.ps1:96` to 99, where `docs/file-updates.md:58` to 60 says that the helper restores the files).
  A helper or an installer that is killed leaves the files as they are and starts nothing. A broker given up after thirty seconds may have started its helper (`file-update-broker.ts:51`), and the launcher, which
  goes on, may hand over to a second one; the helper waits for the one process that called it, so that a launcher started by hand meanwhile runs while its files are replaced. `torn` remembers what mixes the
  files, until the launcher starts from one build with no helper about; `UpdatesAtomically` promises nothing in between, and `ComesBack` nothing after a kill.
* *Packs.* A kill between emptying `managed-files.json` and writing it leaves a file every later start fails on (`Torn`; `sync.ts:171`). A file that landed in a run that
  never wrote its list is nobody's (`unlisted`); defaults written but not yet recorded, or cut short by a kill, pass for the player's (`adrift`). The times that vouch for a file's hash are read some time after its rename (`hash-cache.ts:60`): a
file of the same size that somebody writes in between is trusted as the pinned one, by later launches too (`raced`).
* *The player's mods.* What the last launch copied is taken out by name, after the new version was synchronised. If that version ships a file of the same name, the pack's file goes with it (`displaced`;
  `user-content.ts:75`, against the comment at lines 72 and 73 that what remains is the server pack): the player's jar takes its place if there still is one, and a start without the player's mods, offered
  after a crash, misses the file. A launch that fails between a copy and the list leaves a jar that counts as the pack's from then on, also in a start without the player's mods (`unlisted`; `:86`).
* *Options.* The shared copy goes over the instance's file whichever is newer (`user-content.ts:417`); the shader settings beside it do compare times. So a choice is lost that no copy was made of in time, and `behind` remembers it: one made
  while no game ran; one younger than the next minute's copy when the launcher was killed or the next launch began; one whose copy at the end of the game broke; one on another server that was never copied (an older
  shared copy, or none that can be read, is taken before it); and one whose file was deleted first. A choice that the minute's copy had taken is not excepted: a launcher closed after it does not lose it, as `shared-options.ts:149` says. A broken copy of which some
  line is left is restored as if it were whole, and one without a line gives way to another server's file, even if the instance's own is newer.
* *Keys.* A key is moved in both files before the record says that it was (`key-defaults.ts:194` to 203). If the launch ends between, or the record cannot be written, a later launch moves the key again, over what the player
  bound it to since; `moved` is history of the opposite, that the record was not lost, and `SettingsKept` promises only then that a key is moved once.
* *Notices.* The relay writes after it has sent (`excused`), and takes a connection that closes for a delivery (`unsent`); an answer that comes after the
  screen that asked has closed, or its account has signed out, stands on the screen until it closes (`stray`).

### 3.2 Bounds

*HostCallers* has three sessions, two of them on the PC: one agent that lost its session file and polls as a stranger.
Lease 3, failure interval 1 or 2, ages up to 2, five epochs, three revisions. Two administrators reach each stale
combination with two edits; five epochs admit recovery, return, handoff and a lost session in one run.

*HostFailover* uses the smallest timers that keep the order of the real ones: answer 1, authorization 1, ports 1,
lease 3. The real figures 8 + 12 + 20 <= 60 leave slack; the model uses the tightest ones the argument
admits, so a lost tick would show. Three epochs cover a takeover and a return; one fault may be a crash of either agent, a lost
request, a lost answer, a failed driver job or a failed copy at any point. The proofs cover every number of faults for two of the properties.
*HostSwitch* has a switch from the VPS to the PC, recovery besides, lease 2 and immediate answers, any of which may be lost. A world is saved once more there (`MaxEdits = 2`)
under automatic recovery, where a takeover restores an older one, but not around a planned switch (`ManualSaves = FALSE`).

*The gates.* A minute stands for every wait that matters at this scale: one for the start delay, two until a boundary is old, one or two for a boot, one or two
until an empty server sleeps, one until a silent one is restarted. `GateHands` has one gate, one player, hours that end for good, and every kind of act and fault; two acts are enough to open and close by hand, to reload twice, or to switch off
and on. `HeldAnswered` excepts a server that hangs when the model's time is over, since giving it up takes time. `GatePair` has two gates that change places; it has no
players, who only matter to their own gate; servers fall idle, time out and hang just as the hours change.

*GameNames.* Two members, a code that admits twice (to come and to come back), two names of which one is reserved, a readable Discord name for each (a name made from the id is left to those who lost theirs), a hold of one unit. `MaxOpen = 2` transactions
overlap; a request begins when those before it have checked and shares a name or a member with them (`MayAsk`), because others touch different rows; administrators' requests do not straddle a step of the names (`AdminQuiet`), which
`Notices` explores with the same `Membership`.

*Session.* Two accounts, two logins, one check at a time, one restart. A login that was used can only be begun again as one whose browser does not open. Two logins are what a late callback needs to
meet a login that is not its own; the check's refresh and retry make the second answer. Only Discord logins; `startLogin` up to the flow id is one step.

*FileUpdate.* Three builds, any of which may be the installed one, three files that change, appear and disappear, two helpers at a time, two checks per run, two changes of audience, two faults: operations that fail, kills and
starts beside a helper, so that a rollback may fail. A launcher whose files are torn fetches no further manifest (`MaxTorn`): it may still be closed and started, which is what ends the exception.

*Launch.* Two launches, two sessions, one failure of a launch and two mishaps of a move, two folders. With these counters spent the launcher simply rests, so deadlock is not checked there.

*PackSync.* Four packs of two versions, of which a behaviour follows one: they differ in what they exercise, and an instance belongs to one pack. In *plain* a file and a setting are updated and another file, of the bundle too, is dropped; in *modded*
the other version ships a file of the name of a jar of the player's, who has two jars of one mod; in *tuned* options.txt is updated and another setting dropped; in *keyed* a key is set, once
by default and once by name, for a player who has other servers and may have settings from them. Either version comes first, and two publications bring it back. Besides there are one change by others (to a file or setting of that pack, `Names`, `Paths`),
one failed step with two tries per file, one kill: a loss needs one of these three and at most two launches after it.

*Notices.* Two members, a code, two notices, two sign-ins, two servers, one record kept (the file forgets), one fault, one move of a player. The screen and the relay share only the table; a behaviour has one or the other (`Start`), and the relay
runs among members who are settled. Removals and roles are explored beside the screen.

Every passing property comes with a mutant of a mapped definition (comment "Mutant:" beside it) that breaks it.

### 3.3 Fairness

The host modules, `GameNames` and `Session` assume none: their properties are safety. `ServerGate!FairSpec` assumes that the event loop runs
each coroutine (WF of `TickNext`, `HoursNext`, and of each step of `stopServer`, all of which end by their own limits), that systemd finishes what it does (`UnitStep`), that five seconds
end a handing over, that a starting unit found inactive, once the first seconds are over, is given up (SF), that the gates' probes
are not in step so that one is always under way, and that the clock goes on (SF of `Minute`, which waits for due checks).
`FileUpdate` assumes that a helper that was started goes on, `Launch` that a handler, its calls and its jobs do, each of which has a time limit in the code, `PackSync` that a
synchronisation that was begun goes on and is begun again, as it is at each press of Play, and `NoticeRelay` that the relay runs on, which its unit's `Restart=always` brings about.
Players, faults and administrators need not act, and a hung server need not recover.

## 4. Proofs

All theorems hold for every value of the constants that satisfies the named assumptions in the modules.

*HostProofs*, the coordinator. `CallersInv` = `CallersTypeOK`, `Columns` (the rows are copies, rows of the running epoch are the owner's, requests name
the other node) and `PromiseCovered` (a session that counts on its grant is the owner with a lease at least as long). Neither part
is inductive alone: a poll excludes the others only if the row covers what they were told. `GrantsExclude`, `CopiesOfOwner` and
`RequestsNameOther` follow from it; the action property `EpochFences` follows from it for each step, and `TakeoverBounded` with `Silent`: the row's lease
runs out no faster than the time since the last grant is counted, so whoever may claim has waited for the shortest failure interval of all policies, or was given the lease.

*HostProofs*, both nodes. The argument is a chain of timers. A granted answer was sent when the lease was renewed, so
the lease is at least `LeaseTime - age`; the authorization written of it is at least `LeaseTime - AnswerTime - AuthTime + left`;
ports opened under it are covered with `PortTime` more. As the sum of the three fits in a lease, whoever serves still owns it: two nodes cannot.
`GrantsBacked` is this chain. It is not inductive without `Withdrawn` (a refused answer that still waits for the driver has
withdrawn the authorization), `Matched` (the lease's session is its owner's, so a renewal never changes the owner) and `Quiet` (no switch
is under way). The theorems `BackedGrants` and `ExclusiveHost` assume `NoSwitch`: no administrator asks for a switch or saves a policy with
another first choice, automatic recovery included or not. With planned switches they are false, which is what `HostLateAnswer` shows: a
release back-dates a lease that an answer still stands on. `TypeCorrect` needs no such assumption.

The other two theorems hold for every switch. `ReleasesStopped` rests on `Stopped`: from the moment the fence of a handoff is done until the handoff ends, the node neither
runs nor has the active role, whatever its agent does beside. `LineStarts` rests on `LineInv`. While an owner's order is neither lost nor under way, its disk holds the line,
or its state file still carries the marker of the running epoch and a copy with the line's id (`LineHeld`). That needs `AnswersCurrent`: a grant its owner has not handled yet
is of the running epoch, because an owner becomes one only by its own poll and an agent has one poll at a time; so rewriting the state file never loses the marker, and the row it
copies the id from is the one the takeover named, since nobody records a copy for the owner. No timer is needed. The attempt to prove the property as it stood before showed
the case of an order that meets an older restore, which three epochs had hidden.

*NoPolicyLost* adds `FormsRead` to `CallersInv`: a form is of an earlier revision, or shows the present policy.

*SessionProofs.* `LoginInv` adds to `LoginEnds` what distinguishes the login in flight: its flow is one that no callback completed and nobody cancelled, and
a callback in hand that does not own it is of another flow. Without this a late failure could end the login that waits, which is exactly the case `snared` names.
The proof showed that `LoginEnds` needs no exception for callbacks that are still queued, and it no longer has one. `AccessInv` says of every answer under way, every remembered one and
the snapshot whose it is, and that the screen, the main process and the file know one account at most; it holds until `crossed`.

*GameNamesProofs.* `AllApart`, that no two people share a name, those who left included, is not inductive: between the check of a transaction and its write the
name must stay free (`CheckedIsFree`), which follows from the locks (`LocksApart`) for every step except the return of a member. `FallbacksOwn` keeps
derived names out of it. `HoldsExplained` was first stated only between transactions; the proof needs no such condition, so it is stated of every state. It also showed that a confirmation that is refused
does not clear `late`. `PanelExplains` and `FreeNamesTaken` tell the administrator's panel and the player's refusal from the same tables.

*LaunchProofs.* `MoveInv` has one conjunct for each phase of the install move, which says where every folder is complete; `NothingBroken` adds, for the runs without a failed
taking back or a kill, that everything is still where the move began. `HandlerInv`: only the newest launch has a handler before its game, and a job that still runs
is either waited for by its own launch or is the one `leftover`. `TokenInv`: for every token that works something is still to come that retires it (a revocation, the handler, the game's exit, the
call's own end), unless its retiring failed (`kept`).

*FileUpdateProofs.* `ReadyUpdatesWait` rests on `WaitInv`. The refinement `UpdatesWhole` (`Spec => UpdatesAtomically`) uses `UntornInv`: unless the files are torn, `StagedInv` (what is
staged is the difference between the installed build and a newer one) and `DiskInv` hold: there is one helper at most, the files on disk are those of the new build where it has been, the kept ones elsewhere (`HelperInv`), and without
it they are one build, no older than the one that runs or ran. `WholeMixed` says that a mixture of two builds that is one build is one of the two, by the file that differs in all of them. Each step is a stutter or a step of
`AtomicUpdate`; `Mending` shows that only a start from one build ends the exception.

*NoticesProofs.* `AdminRemains` is inductive with the types because a request to remove or demote is decided again where the rows are locked. `ScreenShowsOwn` needs `ReadsOwn` (a read that has not ended
is the present account's, and its answer is one that account may see); the model's reads remember whether their session ended, since an account may return before
an answer for it does. `BannersOnce` needs where a sending is on record: on the relay's list while it runs, on disk while it sleeps, and that the two differ only while a notice
is being sent. The order of the relay's queue plays no part.

*PackSyncProofs.* `StampInv` makes a kept hash the file's own; from it `PinInv` follows the manifest's files from the check to the game. `ListInv` and `JarInv` say of every file of a pack and every jar of the player's in
which list it stands, at each point of a run that may end there; `NothingStale` follows, with itself, from both. `OursInv` ties a default the launcher wrote to the state and the record beside it, and `EntryInv` says how far a pass has come;
they imply that every such default is followed or dropped, `TornInv` that only an unrecorded one can be half written. `RacedInv` says what a file is whose hash is not its own: somebody else's. `OptionsInv` says in which of the files the last choice is, and which one the next copy is taken from; `KeysInv`
that a key that was moved is recorded, or its record is still to be written. Two properties were wrong as first stated: the launcher does remove an options.txt the pack dropped, while it still is
what it wrote (`mrpack.ts:320`), and a player may delete the file before its copy is made (`Deleted`).

*ServerGateProofs.* The invariant is `TypeOK`, `Asleep` and `Closing`. `TypeOK` already says that a coroutine is in a stop exactly while its `stopServer` is under way, so a stop belongs to
an idle stop, a recovery or a closing. `Asleep`: while the probe stops an idle server its gate is not up and nobody is on the server or being handed over, which the closing, a ping or a join in
between keep so; with it `NobodyStopped` leaves only the other two. `Closing`: a closing has its marker, and the marker is no older than `StopTime`. `OpensAlone` then needs `StopTime < OtherStopMax`,
and that no stop outlasts `StopTime`, which `Minute` takes from systemd's own limit on a stop (`ServerGate` in section 3): were a stop longer, two servers could load and save at once. `WokenInHours` looks at every step that starts a unit; the one it excepts is the end of `recover`. All hold for any number of gates and
players, every schedule and every act and fault.

Assumptions are those of the modules: kinds do not overlap (a version is no marker, a jar no pinned file), mappings have the domains and ranges the code gives them, bounds are numbers. Only
`NoSwitch` restricts what may happen, and it is stated in its theorem.

Every invariant and every safety action property of the passing runs is proved. Only model-checked is what is out of the prover's reach: liveness (`LaunchEnds`, `ComesBack`, `Resumes`, `Announced`, what the gates
must do in the end), ENABLED, and induction over recursive data.

## 5. Abstractions and their limits

* Saving-off and saving-on around a copy belong to the copy step; the delayed re-enabling after a failed copy is not modelled.
* The units a driver starts and stops are one flag `running`; their failure is the failure of the driver's job. Proxied connections are not modelled.
* The gate's in-game warnings, its answers to status pings and the Minecraft protocol change nothing the properties speak of and are left out.
* Clocks do not drift. Time of a suspended agent is the unbounded delay of its steps.
* A file is the version its bytes come from; a hash is that version. Files that differ are never taken for equal.
* A member stands for their name on a game server, a notice for its text. The spelling of names, codes and texts is left out.
* Counters are bounded by guards; every bound is a constant marked as such in its module.

## 6. Not modelled

* *Snapshot pruning, address proxy.* Which copies a prune deletes; the forwarding of bytes.
* *Game tickets, display names, skins.* One statement each, with nothing to interleave.
* *Catalog, versions, manifests of a release.* Pure functions over strings; a reference definition would repeat their text.
* *Minecraft runtime, server-side mods.* Third-party libraries and the game server's own process; one request and one verdict.
* *Launcher windows, status, presence.* Presentation and best-effort reports. *Release tooling.* Scripts run by one operator at build time.
* *Around the player's content.* Shader packs and their settings, which follow the same pattern; the volumes a shared copy gets from other servers' files, and the single lines of options.txt but for one key's; blocked mods; the launcher's own mods.
* Within modelled components: extension of a token and its failure records; switching to a folder without moving; electron-updater's own mode and signatures; test access; mirrors, rate limits and archive reading; the copy of
  authlib-injector (`index.ts:694`), which belongs to the call for a token and which `OneRunWrites` does not speak of; the token's own renewal; dismissal of a notice.

## 7. Plan

Done: the hosts with their proofs; the gates; members and names; session; launch, move and update with its refinement; packs with the player's mods and options; notices.

Proved: the hosts' promises, the gates' safety, members and names, session, install move and launch, the update with its refinement, the packs, notices.

To model next: shader settings with their times; snapshot pruning; liveness of a planned switch.
