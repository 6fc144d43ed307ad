---------------------------- MODULE HostFailover ----------------------------
(***************************************************************************)
(* The two host agents against the coordinator: host-agent.mjs with the    *)
(* port, unit and state-file work of driver.py and the copies of sync.mjs. *)
(*                                                                         *)
(* An agent is a Node.js process: a tick polls and acts on the answer,     *)
(* while a transition (an activation or a handoff) and a copy run beside   *)
(* it.  Every await is a point where the others move.  driver.py runs      *)
(* under a file lock, held for long by an activation that restores a world *)
(* and by the fence of a handoff that waits for the servers to stop.       *)
(* Agents may be slow at will; the kernel's timers are not.                *)
(***************************************************************************)
EXTENDS HostControl

CONSTANTS
  AnswerTime,   \* the 8 seconds after which a request is aborted
  AuthTime,     \* the 12 seconds of an authorization and of the watchdog
  PortTime,     \* the 20 seconds of an element of the nftables set
  SwitchTargets,\* the nodes administrators switch to
  AnswerLoss,   \* whether an answer may be lost after the coordinator acted
  MaxEdits,     \* bound of the model on saved worlds
  MaxFaults,    \* bound of the model on crashes, lost calls and failed jobs
  ManualSaves   \* bound of the model: new worlds are saved without automatic recovery, too

\* An agent keeps its session in a file: it is named by its node.
ASSUME SessionAssumption == Node \subseteq Session
ASSUME TimerAssumption ==
  /\ AnswerTime \in Nat /\ AuthTime \in Nat \ {0} /\ PortTime \in Nat \ {0}
  /\ AnswerTime + AuthTime + PortTime <= LeaseTime
ASSUME WorldAssumption == MaxEdits \in Nat /\ MaxEdits >= 1 /\ Content = 0..MaxEdits
ASSUME EnvironmentAssumption ==
  /\ SwitchTargets \subseteq Node /\ MaxFaults \in Nat
  /\ AnswerLoss \in BOOLEAN /\ ManualSaves \in BOOLEAN

VARIABLES
  mode,      \* agent.mode
  call,      \* the request of the tick that has set agent.busy
  trans,     \* agent.transition
  latest,    \* agent.latest.activeNode
  proxied,   \* agent.proxyEpoch (0 for null)
  auth,      \* authorization: its role, and what is left of its 12 seconds
  fenceDue,  \* a fence waits for the driver's lock
  role,      \* /run/bweeep-host-agent/role
  ports,     \* what is left of the game ports' timeout
  running,   \* the game servers run and save
  file,      \* the state file an activation reads
  world,     \* the world on each node's disk
  sync,      \* the copy the PC is making
  late,      \* the PC's row is newer than the VPS's handoffStarted
  edits,     \* the newest world saved anywhere
  line,      \* history: the world the last takeover stands on, the newest world then, and
             \* whether its order to restore was thrown away
  faults     \* how many faults have happened

agentVars == <<mode, call, trans, latest, proxied, auth, fenceDue>>
hostVars == <<role, ports, running, file, world>>
copyVars == <<sync, late>>
vars == <<controlVars, agentVars, hostVars, copyVars, edits, line, faults>>

Mode == {"starting", "activating", "active", "handoff", "releasing", "released",
         "standby", "fenced"}

Answer == [granted : BOOLEAN, restore : BOOLEAN, live : BOOLEAN, owner : Node,
           epoch : 1..MaxEpoch, requested : Node \cup {NoNode},
           own : SnapshotRow \cup {NoSnapshot}, due : BOOLEAN]

Idle == [phase |-> "idle"]
Sent(kind) == [phase |-> "sent", kind |-> kind]
Call == {Idle} \cup {Sent("poll"), Sent("read")}
        \cup [phase : {"answered", "blocked"}, kind : {"poll", "read"}, age : 0..AnswerTime,
              body : Answer]

Free == [stage |-> "none"]
Trans == [stage : {"none", "restoring"}]
         \cup [stage : {"stopping", "copying", "releasing", "answered"}, epoch : 1..MaxEpoch,
               ok : BOOLEAN]

NoSync == [phase |-> "none"]
Sync == {NoSync} \cup {[phase |-> "asked", dir |-> d] : d \in {"pull", "push"}}
        \cup [phase : {"begun", "copied"}, dir : {"pull", "push"}, epoch : 1..MaxEpoch,
              age : 0..MaxAge + 1, late : BOOLEAN, id : Content]

TypeOK ==
  /\ ControlTypeOK
  /\ mode \in [Node -> Mode]
  /\ call \in [Node -> Call]
  /\ trans \in [Node -> Trans]
  /\ latest \in [Node -> Node \cup {NoNode}]
  /\ proxied \in [Node -> 0..MaxEpoch]
  /\ auth \in [Node -> [role : {"active", "proxy", "none"}, left : 0..AuthTime]]
  /\ fenceDue \in [Node -> BOOLEAN]
  /\ role \in [Node -> {"fenced", "active", "proxy"}]
  /\ ports \in [Node -> 0..PortTime]
  /\ running \in [Node -> BOOLEAN]
  /\ file \in [Node -> [restore : BOOLEAN, epoch : 0..MaxEpoch,
                        copy : SnapshotRow \cup {NoSnapshot}]]
  /\ world \in [Node -> Content]
  /\ sync \in Sync /\ late \in BOOLEAN
  /\ edits \in Content /\ faults \in 0..MaxFaults
  /\ line \in [base : Content, since : Content, lost : BOOLEAN]

\* The VPS holds the world; the PC kept its own from before the migration.
Init ==
  /\ ControlInit
  /\ mode = [n \in Node |-> "starting"]
  /\ call = [n \in Node |-> Idle]
  /\ trans = [n \in Node |-> Free]
  /\ latest = [n \in Node |-> NoNode]
  /\ proxied = [n \in Node |-> 0]
  /\ auth = [n \in Node |-> [role |-> "none", left |-> 0]]
  /\ fenceDue = [n \in Node |-> FALSE]
  /\ role = [n \in Node |-> "fenced"]
  /\ ports = [n \in Node |-> 0]
  /\ running = [n \in Node |-> FALSE]
  /\ file = [n \in Node |-> [restore |-> FALSE, epoch |-> 0, copy |-> NoSnapshot]]
  /\ world = [n \in Node |-> IF n = "vps" THEN 1 ELSE 0]
  /\ sync = NoSync /\ late = FALSE
  /\ edits = 1 /\ faults = 0
  /\ line = [base |-> 1, since |-> 1, lost |-> FALSE]

-----------------------------------------------------------------------------
\* driver.py.  Long jobs hold its lock; a short one is part of the caller's step.
Locked(n) == trans[n].stage \in {"restoring", "stopping"}

\* fence, proxy and activate close the ports, clear the role and stop the units.
Closed(n) ==
  /\ ports' = [ports EXCEPT ![n] = 0]
  /\ role' = [role EXCEPT ![n] = "fenced"]
  /\ running' = [running EXCEPT ![n] = FALSE]

\* permit refuses an authorization that has expired or is for another role.
MayPermit(n, r) == auth[n].left > 0 /\ auth[n].role = r

\* The answer's authorization replaces the last one before the tick goes on.
Authorized(body) ==
  IF body.granted THEN [role |-> "active", left |-> AuthTime]
  ELSE IF body.live THEN [role |-> "proxy", left |-> AuthTime]
  ELSE [role |-> "none", left |-> 0]

\* Mutant: an activation permits its ports whatever became of its grant.
NeverStale(n) == FALSE

\* Twelve seconds have passed since the last grant.
Stale(n) == auth[n].role # "active" \/ auth[n].left = 0

HoldsServers(m) == m \in {"active", "activating", "handoff"}

\* agent.fence(): at once when the lock is free, else after the running job.
Fence(n) ==
  /\ mode' = [mode EXCEPT ![n] = "fenced"]
  /\ proxied' = [proxied EXCEPT ![n] = 0]
  /\ IF Locked(n)
     THEN fenceDue' = [fenceDue EXCEPT ![n] = TRUE] /\ UNCHANGED <<ports, role, running>>
     ELSE Closed(n) /\ UNCHANGED fenceDue

-----------------------------------------------------------------------------
\* A tick sends its request: a released owner only reads.
TickStart(n) ==
  /\ call[n] = Idle
  /\ call' = [call EXCEPT ![n] =
                Sent(IF mode[n] \in {"released", "releasing"} THEN "read" ELSE "poll")]
  /\ UNCHANGED <<controlVars, mode, trans, latest, proxied, auth, fenceDue, hostVars,
                 copyVars, edits, line, faults>>

\* What the agent of n reads of the state the coordinator returns.
StateOf(n, granted, restore) ==
  [granted |-> granted, restore |-> restore, live |-> lease' > 0, owner |-> owner',
   epoch |-> epoch', requested |-> requested', own |-> snap[n],
   due |-> LET copy == snap[Other(owner')]
           IN  n = "pc" /\ (copy = NoSnapshot \/ copy.epoch # epoch' \/ requested' = n)]

\* The coordinator answers a poll; a takeover makes the copy the world's line.
CoordinatorPoll(n) ==
  /\ call[n] = Sent("poll")
  /\ Poll(n, n, TRUE)
  /\ call' = [call EXCEPT ![n] =
                [phase |-> "answered", kind |-> "poll", age |-> 0,
                 body |-> StateOf(n, Granted(n, n, TRUE), RestoreRequired(n, n, TRUE))]]
  /\ line' = IF owner' # owner THEN [base |-> snap[n].id, since |-> edits, lost |-> FALSE]
              ELSE line
  /\ UNCHANGED <<mode, trans, latest, proxied, auth, fenceDue, hostVars, copyVars, edits, faults>>

CoordinatorRead(n) ==
  /\ call[n] = Sent("read")
  /\ UNCHANGED controlVars
  /\ call' = [call EXCEPT ![n] =
                [phase |-> "answered", kind |-> "read", age |-> 0,
                 body |-> StateOf(n, FALSE, FALSE)]]
  /\ UNCHANGED <<mode, trans, latest, proxied, auth, fenceDue, hostVars, copyVars, edits, line, faults>>

Answered(n, kind) == call[n].phase = "answered" /\ call[n].kind = kind

\* The order to restore waits in an answer that the agent of n has not handled.
Ordered(n) == call[n].phase = "answered" /\ call[n].body.restore

\* The answer is thrown away, and with it the order to restore, which no later answer
\* repeats (lost is history).
Dropped(n) == line' = [line EXCEPT !.lost = @ \/ (Ordered(n) /\ owner = n)]

\* The released owner stays out until it is deposed or the switch is cancelled.
ReadAnswer(n) ==
  /\ Answered(n, "read")
  /\ latest' = [latest EXCEPT ![n] = call[n].body.owner]
  /\ IF call[n].body.owner # n \/ call[n].body.requested = NoNode
     THEN /\ mode' = [mode EXCEPT ![n] = "standby"]
          /\ call' = [call EXCEPT ![n] = Sent("poll")]
     ELSE /\ call' = [call EXCEPT ![n] = Idle]
          /\ UNCHANGED mode
  /\ UNCHANGED <<controlVars, trans, proxied, auth, fenceDue, hostVars, copyVars, edits, line, faults>>

\* Every poll's answer renews or withdraws the authorization.
Received(n) ==
  /\ Answered(n, "poll")
  /\ latest' = [latest EXCEPT ![n] = call[n].body.owner]
  /\ auth' = [auth EXCEPT ![n] = Authorized(call[n].body)]
  /\ UNCHANGED <<controlVars, edits, faults>>

\* synchronize(dir): a copy that runs is joined, never started twice.
Synchronize(dir) ==
  sync' = IF sync = NoSync THEN [phase |-> "asked", dir |-> dir] ELSE sync

\* A due copy starts, one whose interval has run out may.
MaybeSynchronize(n, dir, due) ==
  \/ n = "pc" /\ Synchronize(dir)
  \/ (n # "pc" \/ ~due) /\ UNCHANGED sync

\* Granted while active: the ports stay open and a standing request is answered.
RenewActive(n) ==
  LET body == call[n].body
      asked == body.requested \notin {NoNode, n}
      permitted == role[n] = "active"
  IN
  /\ Received(n)
  /\ body.granted /\ mode[n] = "active"
  /\ call' = [call EXCEPT ![n] = Idle]
  /\ Dropped(n)
  /\ \/ permitted /\ asked     \* handoff(): closed at once, the units stop later
        /\ mode' = [mode EXCEPT ![n] = "handoff"]
        /\ trans' = [trans EXCEPT ![n] = [stage |-> "stopping", epoch |-> body.epoch, ok |-> FALSE]]
        /\ ports' = [ports EXCEPT ![n] = 0]
        /\ role' = [role EXCEPT ![n] = "fenced"]
        /\ late' = (n # "vps" /\ late)
        /\ sync' = IF n = "vps" /\ sync.phase \in {"begun", "copied"}
                   THEN [sync EXCEPT !.late = FALSE] ELSE sync
     \/ permitted /\ ~asked
        /\ ports' = [ports EXCEPT ![n] = PortTime]
        /\ MaybeSynchronize(n, "push", body.due)
        /\ UNCHANGED <<mode, trans, role, late>>
     \/ ~permitted
        /\ UNCHANGED <<mode, trans, ports, role, copyVars>>
  /\ UNCHANGED <<proxied, fenceDue, running, file, world>>

\* Granted while a transition works towards it or away from it: nothing to do.
RenewPassing(n) ==
  /\ Received(n)
  /\ call[n].body.granted
  /\ \/ mode[n] \in {"activating", "handoff"}
     \/ mode[n] # "active" /\ trans[n] # Free
  /\ call' = [call EXCEPT ![n] = Idle]
  /\ Dropped(n)
  /\ UNCHANGED <<mode, trans, proxied, fenceDue, hostVars, copyVars>>

\* Mutant: a new state file forgets that a restore is still to be done.
StartActivationForgetting(n) ==
  LET body == call[n].body IN
  /\ Received(n)
  /\ body.granted
  /\ ~HoldsServers(mode[n]) /\ trans[n] = Free
  /\ mode' = [mode EXCEPT ![n] = "activating"]
  /\ trans' = [trans EXCEPT ![n] = [stage |-> "restoring"]]
  /\ file' = [file EXCEPT ![n] =
                [restore |-> body.restore, epoch |-> body.epoch, copy |-> body.own]]
  /\ Closed(n)
  /\ call' = [call EXCEPT ![n] = Idle]
  /\ UNCHANGED <<proxied, fenceDue, world, copyVars, line>>

\* Granted otherwise: activate() writes the state file and starts the driver.
StartActivation(n) ==
  LET body == call[n].body IN
  /\ Received(n)
  /\ body.granted
  /\ ~HoldsServers(mode[n]) /\ trans[n] = Free
  /\ mode' = [mode EXCEPT ![n] = "activating"]
  /\ trans' = [trans EXCEPT ![n] = [stage |-> "restoring"]]
  /\ file' = [file EXCEPT ![n] =
                [restore |-> body.restore \/ (file[n].restore /\ file[n].epoch = body.epoch),
                 epoch |-> body.epoch, copy |-> body.own]]
  /\ Closed(n)
  /\ call' = [call EXCEPT ![n] = Idle]
  /\ UNCHANGED <<proxied, fenceDue, world, copyVars, line>>

-----------------------------------------------------------------------------
\* Denied: whatever held the servers is fenced first, behind the driver's lock.
Denied(n) ==
  /\ Received(n)
  /\ ~call[n].body.granted
  /\ call' = [call EXCEPT ![n] = [@ EXCEPT !.phase = "blocked"]]
  /\ IF HoldsServers(mode[n])
     THEN Fence(n)
     ELSE UNCHANGED <<mode, proxied, fenceDue, ports, role, running>>
  /\ UNCHANGED <<trans, file, world, copyVars, line>>

OtherServes(n) == call[n].body.owner # n /\ call[n].body.live

\* Another node's lease is live: this one forwards its old address there.
BecomeProxy(n) ==
  LET body == call[n].body
      role1 == IF proxied[n] = body.epoch THEN role[n] ELSE "proxy"
      open == MayPermit(n, role1)
  IN
  /\ call[n].phase = "blocked" /\ ~Locked(n)
  /\ OtherServes(n)
  /\ mode' = [mode EXCEPT ![n] = "standby"]
  /\ proxied' = [proxied EXCEPT ![n] = body.epoch]
  /\ role' = [role EXCEPT ![n] = role1]
  /\ running' = [running EXCEPT ![n] = running[n] /\ proxied[n] = body.epoch]
  /\ ports' = [ports EXCEPT ![n] =
                 IF open THEN PortTime ELSE IF proxied[n] = body.epoch THEN @ ELSE 0]
  /\ IF open THEN MaybeSynchronize(n, "pull", body.due) ELSE UNCHANGED sync
  /\ call' = [call EXCEPT ![n] = Idle]
  /\ UNCHANGED <<controlVars, trans, latest, auth, fenceDue, file, world, late, edits, line, faults>>

\* No one's lease is live: the node closes.
NobodyServes(n) ==
  /\ call[n].phase = "blocked" /\ ~Locked(n)
  /\ ~OtherServes(n)
  /\ IF mode[n] # "fenced"
     THEN Fence(n)
     ELSE UNCHANGED <<mode, proxied, fenceDue, ports, role, running>>
  /\ call' = [call EXCEPT ![n] = Idle]
  /\ UNCHANGED <<controlVars, trans, latest, auth, file, world, copyVars, edits, line, faults>>

\* The one-second watchdog, also run when a tick's request fails.
Watchdog(n) ==
  /\ HoldsServers(mode[n])
  /\ auth[n].role = "active" /\ auth[n].left = 0
  /\ Fence(n)
  /\ UNCHANGED <<controlVars, call, trans, latest, auth, file, world, copyVars, edits, line, faults>>

-----------------------------------------------------------------------------
\* The copy an activation restores must be the one the answer named.
CopyMatches(n) ==
  /\ file[n].copy # NoSnapshot
  /\ file[n].copy.epoch = file[n].epoch - 1
  /\ file[n].copy.source # n

\* driver.py restored the world and started the gates; the agent permits them
\* unless it was fenced or left without a grant meanwhile.
ActivationDone(n) ==
  LET opens == ~fenceDue[n] /\ ~Stale(n) /\ latest[n] = n IN
  /\ trans[n].stage = "restoring"
  /\ file[n].restore => CopyMatches(n)
  /\ world' = IF file[n].restore THEN [world EXCEPT ![n] = file[n].copy.id] ELSE world
  /\ file' = [file EXCEPT ![n].restore = FALSE]
  /\ role' = [role EXCEPT ![n] = IF opens THEN "active" ELSE "fenced"]
  /\ running' = [running EXCEPT ![n] = opens]
  /\ ports' = [ports EXCEPT ![n] = IF opens THEN PortTime ELSE 0]
  /\ mode' = [mode EXCEPT ![n] = IF opens THEN "active" ELSE "fenced"]
  /\ proxied' = [proxied EXCEPT ![n] = IF opens \/ mode[n] # "fenced" THEN 0 ELSE @]
  /\ trans' = [trans EXCEPT ![n] = Free]
  /\ fenceDue' = [fenceDue EXCEPT ![n] = FALSE]
  /\ UNCHANGED <<controlVars, call, latest, auth, copyVars, edits, line, faults>>

Fault == faults < MaxFaults /\ faults' = faults + 1

\* The driver failed or ran out of its 650 seconds: the marker stays in the file.
ActivationFails(n) ==
  /\ trans[n].stage = "restoring"
  /\ IF file[n].restore /\ ~CopyMatches(n) THEN UNCHANGED faults ELSE Fault
  /\ mode' = [mode EXCEPT ![n] = "fenced"]
  /\ proxied' = [proxied EXCEPT ![n] = IF mode[n] # "fenced" THEN 0 ELSE @]
  /\ trans' = [trans EXCEPT ![n] = Free]
  /\ fenceDue' = [fenceDue EXCEPT ![n] = FALSE]
  /\ Closed(n)
  /\ UNCHANGED <<controlVars, call, latest, auth, file, world, copyVars, edits, line>>

\* Mutant: the ports close for a handoff but the servers keep running.
HandoffStoppedRunning(n) ==
  /\ trans[n].stage = "stopping"
  /\ trans' = [trans EXCEPT ![n].stage = "copying"]
  /\ fenceDue' = [fenceDue EXCEPT ![n] = FALSE]
  /\ IF n = "pc" THEN Synchronize("push") ELSE UNCHANGED sync
  /\ UNCHANGED <<controlVars, mode, call, latest, proxied, auth, hostVars, late, edits, line, faults>>

\* handoff(): the units have stopped and saved; now the last copy is awaited.
HandoffStopped(n) ==
  /\ trans[n].stage = "stopping"
  /\ trans' = [trans EXCEPT ![n].stage = "copying"]
  /\ Closed(n)
  /\ fenceDue' = [fenceDue EXCEPT ![n] = FALSE]
  /\ IF n = "pc" THEN Synchronize("push") ELSE UNCHANGED sync
  /\ UNCHANGED <<controlVars, mode, call, latest, proxied, auth, file, world, late, edits, line, faults>>

\* The VPS waits for a row begun after it saw the request.
SeesFinalCopy ==
  requested # NoNode /\ HasSnapshot(requested) /\ owner = "vps" /\ late

CopySeen(n) ==
  /\ n = "vps" /\ trans[n].stage = "copying"
  /\ SeesFinalCopy
  /\ trans' = [trans EXCEPT ![n].stage = "releasing"]
  /\ mode' = [mode EXCEPT ![n] = "releasing"]
  /\ UNCHANGED <<controlVars, call, latest, proxied, auth, fenceDue, hostVars, copyVars, edits, line, faults>>

HandoffRelease(n) ==
  /\ trans[n].stage = "releasing"
  /\ Release(n, n, trans[n].epoch)
  /\ trans' = [trans EXCEPT ![n].stage = "answered", ![n].ok = Releases(n, n, trans[n].epoch)]
  /\ UNCHANGED <<mode, call, latest, proxied, auth, fenceDue, hostVars, copyVars, edits, line, faults>>

HandoffReleased(n) ==
  /\ trans[n].stage = "answered" /\ trans[n].ok
  /\ mode' = [mode EXCEPT ![n] = "released"]
  /\ trans' = [trans EXCEPT ![n] = Free]
  /\ UNCHANGED <<controlVars, call, latest, proxied, auth, fenceDue, hostVars, copyVars, edits, line, faults>>

\* A refusal, a failed copy or an error ends the handoff with a fence.
HandoffFails(n) ==
  /\ \/ trans[n].stage = "answered" /\ ~trans[n].ok /\ UNCHANGED faults
     \/ trans[n].stage \in {"copying", "releasing"} /\ Fault
     \/ trans[n].stage = "answered" /\ trans[n].ok /\ AnswerLoss /\ Fault
  /\ trans' = [trans EXCEPT ![n] = Free]
  /\ IF mode[n] # "fenced" THEN Fence(n)
     ELSE UNCHANGED <<mode, proxied, fenceDue, ports, role, running>>
  /\ UNCHANGED <<controlVars, call, latest, auth, file, world, copyVars, edits, line>>

-----------------------------------------------------------------------------
\* sync.mjs, run by the PC in both directions.
Source(dir) == IF dir = "pull" THEN "vps" ELSE "pc"

\* Whoever awaits the copy continues: only a handoff of the PC does.
CopyEnds(ok) ==
  IF trans["pc"].stage = "copying"
  THEN IF ok THEN /\ trans' = [trans EXCEPT !["pc"].stage = "releasing"]
                  /\ mode' = [mode EXCEPT !["pc"] = "releasing"]
                  /\ UNCHANGED <<proxied, fenceDue, ports, role, running>>
             ELSE /\ trans' = [trans EXCEPT !["pc"] = Free]
                  /\ IF mode["pc"] # "fenced" THEN Fence("pc")
                     ELSE UNCHANGED <<mode, proxied, fenceDue, ports, role, running>>
  ELSE UNCHANGED <<trans, mode, proxied, fenceDue, ports, role, running>>

\* It reads the state and stamps the copy before anything is prepared.
SyncBegins ==
  /\ sync.phase = "asked"
  /\ IF owner = Source(sync.dir)
     THEN /\ sync' = [phase |-> "begun", dir |-> sync.dir, epoch |-> epoch, age |-> 0,
                      late |-> trans["vps"].stage \in {"stopping", "copying"}, id |-> 0]
          /\ UNCHANGED <<trans, mode, proxied, fenceDue, ports, role, running>>
     ELSE sync' = NoSync /\ CopyEnds(FALSE)
  /\ UNCHANGED <<controlVars, call, latest, auth, file, world, late, edits, line, faults>>

\* Saving is off and flushed while the files are copied.
SyncCopies ==
  /\ sync.phase = "begun"
  /\ sync' = [sync EXCEPT !.phase = "copied", !.id = world[Source(sync.dir)]]
  /\ UNCHANGED <<controlVars, agentVars, hostVars, late, edits, line, faults>>

\* The destination commits the copy under its id, then the coordinator is told.
SyncPublishes ==
  LET src == Source(sync.dir) IN
  /\ sync.phase = "copied"
  /\ RecordSnapshot(Other(src), src, sync.epoch, sync.age, sync.id)
  /\ late' = IF Accepts(src, sync.epoch) /\ src = "vps" THEN sync.late ELSE late
  /\ sync' = NoSync
  /\ CopyEnds(Accepts(src, sync.epoch))
  /\ UNCHANGED <<call, latest, auth, file, world, edits, line, faults>>

SyncFails ==
  /\ sync # NoSync
  /\ Fault
  /\ sync' = NoSync
  /\ CopyEnds(FALSE)
  /\ UNCHANGED <<controlVars, call, latest, auth, file, world, late, edits, line>>

-----------------------------------------------------------------------------
\* Players and the autosave change the world of a node that runs.
Play(n) ==
  /\ running[n] /\ edits < MaxEdits /\ (ManualSaves \/ policy.automatic)
  /\ edits' = edits + 1
  /\ world' = [world EXCEPT ![n] = edits + 1]
  /\ UNCHANGED <<controlVars, agentVars, role, ports, running, file, copyVars, line, faults>>

\* A request is lost on its way, or its answer is.
CallLost(n) ==
  /\ call[n].phase = "sent" \/ (call[n].phase = "answered" /\ AnswerLoss)
  /\ Fault
  /\ call' = [call EXCEPT ![n] = Idle]
  /\ Dropped(n)
  /\ UNCHANGED <<controlVars, mode, trans, latest, proxied, auth, fenceDue, hostVars,
                 copyVars, edits>>

\* The agent dies with its jobs; ExecStopPost fences and systemd starts it again.
Crash(n) ==
  /\ Fault
  /\ AnswerLoss \/ call[n].phase # "answered"
  /\ mode' = [mode EXCEPT ![n] = "starting"]
  /\ call' = [call EXCEPT ![n] = Idle]
  /\ trans' = [trans EXCEPT ![n] = Free]
  /\ latest' = [latest EXCEPT ![n] = NoNode]
  /\ proxied' = [proxied EXCEPT ![n] = 0]
  /\ auth' = [auth EXCEPT ![n] = [role |-> "none", left |-> 0]]
  /\ fenceDue' = [fenceDue EXCEPT ![n] = FALSE]
  /\ Closed(n)
  /\ Dropped(n)
  /\ sync' = IF n = "pc" THEN NoSync ELSE sync
  /\ UNCHANGED <<controlVars, file, world, late, edits>>

Admin ==
  /\ \/ \E p \in Policies : p # policy /\ Configure(p, revision)
     \/ \E n \in SwitchTargets : Switch(n)
  /\ UNCHANGED <<agentVars, hostVars, copyVars, edits, line, faults>>

\* Time passes: an answer that has waited as long as a request may is handled first.
Aged(c) == IF c.phase = "answered" THEN [c EXCEPT !.age = @ + 1] ELSE c

Tick ==
  /\ \A n \in Node : call[n].phase = "answered" => call[n].age < AnswerTime
  /\ ControlTick
  /\ call' = [n \in Node |-> Aged(call[n])]
  /\ auth' = [n \in Node |-> [auth[n] EXCEPT !.left = IF @ = 0 THEN 0 ELSE @ - 1]]
  /\ ports' = [n \in Node |-> IF ports[n] = 0 THEN 0 ELSE ports[n] - 1]
  /\ sync' = IF sync.phase \in {"begun", "copied"} /\ sync.age <= MaxAge
             THEN [sync EXCEPT !.age = @ + 1] ELSE sync
  /\ UNCHANGED <<mode, trans, latest, proxied, fenceDue, role, running, file, world,
                 late, edits, line, faults>>

Agent(n) ==
  \/ TickStart(n) \/ CoordinatorPoll(n) \/ CoordinatorRead(n) \/ ReadAnswer(n)
  \/ RenewActive(n) \/ RenewPassing(n) \/ StartActivation(n)
  \/ Denied(n) \/ BecomeProxy(n) \/ NobodyServes(n) \/ Watchdog(n)
  \/ ActivationDone(n) \/ ActivationFails(n)
  \/ HandoffStopped(n) \/ CopySeen(n) \/ HandoffRelease(n) \/ HandoffReleased(n)
  \/ HandoffFails(n)
  \/ Play(n) \/ CallLost(n) \/ Crash(n)

Copying == SyncBegins \/ SyncCopies \/ SyncPublishes \/ SyncFails

Next == (\E n \in Node : Agent(n)) \/ Copying \/ Admin \/ Tick

Spec == Init /\ [][Next]_vars

-----------------------------------------------------------------------------
\* Players reach this node's own servers.
Serves(n) == role[n] = "active" /\ ports[n] > 0

(* One authoritative host: players never reach the servers of both nodes,     *)
(* whatever is lost, crashes or stalls between the grant, the authorization   *)
(* and the port timeout (the README's "Select one authoritative world").      *)
ExclusiveService == ~(Serves("vps") /\ Serves("pc"))

(* A node's servers start from the world the epoch stands on: the copy its     *)
(* takeover restored, or what was saved in this line since.  "An interrupted   *)
(* activation retains its restore-required marker for the next attempt."  It   *)
(* holds of an owner that received the order to restore: one that is still on  *)
(* its way, or was thrown away with its answer, is not repeated.               *)
StartsFromLine ==
  [][ \A n \in Node : ~running[n] /\ running'[n] /\ owner = n /\ ~Ordered(n) /\ ~line.lost =>
        world'[n] = line.base \/ world'[n] > line.since ]_vars

(* The release that lets the standby take over comes after the owner's units    *)
(* have stopped and its ports are closed ("Handoff released before fencing").   *)
ReleaseAfterStop ==
  [][ handoff' # handoff /\ handoff' # NoNode => ~running[owner] /\ ~Serves(owner) ]_vars

\* What n holds of a grant ends before the lease it stands on.
GrantChain(n) ==
  /\ call[n].phase = "answered" /\ call[n].body.granted =>
       owner = n /\ lease >= LeaseTime - call[n].age
  /\ auth[n].role = "active" /\ auth[n].left > 0 =>
       owner = n /\ lease >= LeaseTime - AnswerTime - AuthTime + auth[n].left
  /\ Serves(n) =>
       owner = n /\ lease >= LeaseTime - AnswerTime - AuthTime - PortTime + ports[n]

(* Every grant an agent still acts on is backed by its lease: the answer on its *)
(* way, the authorization written of it and the open ports all belong to the    *)
(* owner and run out before anyone else may claim (the 8, 12 and 20 seconds of  *)
(* hostApi, the agent and nftables against the 60 of the poll).                 *)
GrantsBacked == \A n \in Node : GrantChain(n)

=============================================================================
