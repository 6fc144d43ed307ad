----------------------------- MODULE ServerGate -----------------------------
(***************************************************************************)
(* The gates in front of the game servers (server-gate.mjs): one process   *)
(* for each server, all on one machine and sharing a state directory.      *)
(*                                                                         *)
(* A gate has two coroutines: the probe (tick) and the opening hours       *)
(* (enforceHours), each suspended at its awaits, while connections and     *)
(* launcher pings are handled in between.  Both may be inside stopServer.  *)
(* One unit of time is a minute: shorter waits take none, and the check of *)
(* the hours, made every second, is never a whole minute behind.           *)
(***************************************************************************)
EXTENDS Integers

CONSTANTS
  Gate,
  Player,      \* client connections
  Server,      \* the gate a connection comes to
  OpenAt,      \* the minutes in which each gate's schedule is open
  Misses,      \* the 3 unanswered probes after which a server is looked at
  IdleTime,    \* idleMinutes
  HungTime,    \* hungRefusedMs and hungSilentMs
  StartTime,   \* startTimeoutMs
  StartDelay,  \* openStartDelayMs
  StartFresh,  \* startFreshMs
  StopTime,    \* how long a stop may take (rconStopMs and systemd's own limit)
  OtherStopMax,\* otherStopMaxMs
  SlowBoot,    \* a server may take longer than that to start
  MaxTime,     \* bound of the model on time
  Acts,        \* the acts administrators may make
  MaxActs,     \* bound of the model on them
  Faults,      \* the faults that may happen
  MaxFaults    \* bound of the model on them

ASSUME GateAssumption == Server \in [Player -> Gate] /\ OpenAt \in [Gate -> SUBSET (0..MaxTime)]
ASSUME WaitAssumption ==
  /\ {Misses, IdleTime, HungTime, StartTime, StartDelay, StartFresh, StopTime,
      OtherStopMax, MaxTime, MaxActs, MaxFaults} \subseteq Nat
  /\ Misses >= 1 /\ IdleTime >= 1 /\ StartDelay <= StartFresh /\ StopTime < OtherStopMax
ASSUME ActAssumption ==
  /\ SlowBoot \in BOOLEAN
  /\ Acts \subseteq {"off", "open", "close", "reload", "start"}
  /\ Faults \subseteq {"crash", "hang", "restart"}

VARIABLES
  now,
  state,      \* gate.state
  failures,   \* gate.probeFailures
  quiet,      \* minutes since gate.lastActivity
  since,      \* minutes since gate.startedAt, or gate.unansweredSince while up
  online,     \* gate.onlineCount > 0
  again,      \* gate.wakeAfterStop
  probed,     \* a probe began in this minute
  tick,       \* where the probe's coroutine is, and what it was answered
  hours,      \* where enforceHours is, and for which boundary
  stop,       \* how far each coroutine's stopServer is
  place,      \* of each connection
  unit,       \* the server's process as systemd and its port show it
  scheduled,  \* gate.hours is not null
  off,        \* <unit>.off exists
  until,      \* <unit>.open-until (0 without)
  done,       \* <unit>.hours.json: the boundaries acted upon
  marker,     \* the minute in <unit>.stopping (-1 without)
  escaped,    \* history: its closing was past stopping it when recover started it, or
              \* recorded while the gate took it for asleep although it ran or started
  acts, faults

gateVars == <<state, failures, quiet, since, online, again>>
fileVars == <<scheduled, off, until, done, marker>>
vars == <<now, gateVars, probed, tick, hours, stop, place, unit, fileVars, escaped, acts, faults>>

Time == 0..MaxTime
Job == {"tick", "hours"}
Patience == CHOOSE t \in {HungTime, StartTime, StopTime} : \A u \in {HungTime, StartTime, StopTime} : u <= t

TypeOK ==
  /\ now \in Time
  /\ state \in [Gate -> {"down", "starting", "up", "stopping"}]
  /\ failures \in [Gate -> 0..Misses]
  /\ quiet \in [Gate -> 0..IdleTime]
  /\ since \in [Gate -> 0..Patience]
  /\ probed \in [Gate -> BOOLEAN]
  /\ online \in [Gate -> BOOLEAN] /\ again \in [Gate -> BOOLEAN]
  /\ tick \in [Gate -> [at : {"none", "probed", "askedUp", "askedStarting", "sleep", "recover"},
                        seen : {"none", "status", "busy", "miss", "active", "inactive"}]]
  /\ hours \in [Gate -> [at : {"none", "late", "closing"}, boundary : Time]]
  /\ stop \in [Gate -> [Job -> {"none", "console", "waiting", "systemd"}]]
  /\ place \in [Player -> {"out", "held", "releasing", "on"}]
  /\ unit \in [Gate -> {"stopped", "booting", "running", "hung", "saving", "leaving", "cycling"}]
  /\ scheduled \in [Gate -> BOOLEAN] /\ off \in [Gate -> BOOLEAN]
  /\ until \in [Gate -> Time]
  /\ done \in [Gate -> [stop : Time, start : Time]]
  /\ marker \in [Gate -> -1..MaxTime]
  /\ escaped \in [Gate -> BOOLEAN]
  /\ acts \in 0..MaxActs /\ faults \in 0..MaxFaults
  /\ \A g \in Gate :
       /\ stop[g]["tick"] # "none" <=> tick[g].at \in {"sleep", "recover"}
       /\ stop[g]["hours"] # "none" <=> hours[g].at = "closing"

Idle == [at |-> "none", seen |-> "none"]
NoHours == [at |-> "none", boundary |-> 0]
NoStop == [j \in Job |-> "none"]

\* Some servers run when the first gate starts, others are asleep.
Init ==
  /\ now = 0
  /\ unit \in [Gate -> {"stopped", "running"}]
  /\ state = [g \in Gate |-> IF unit[g] = "running" THEN "up" ELSE "down"]
  /\ failures = [g \in Gate |-> 0]
  /\ quiet = [g \in Gate |-> 0] /\ since = [g \in Gate |-> 0]
  /\ online = [g \in Gate |-> FALSE] /\ again = [g \in Gate |-> FALSE]
  /\ probed = [g \in Gate |-> FALSE]
  /\ tick = [g \in Gate |-> Idle] /\ hours = [g \in Gate |-> NoHours]
  /\ stop = [g \in Gate |-> NoStop]
  /\ place = [p \in Player |-> "out"]
  /\ scheduled = [g \in Gate |-> TRUE] /\ off = [g \in Gate |-> FALSE]
  /\ until = [g \in Gate |-> 0]
  /\ done = [g \in Gate |-> [stop |-> 0, start |-> 0]]
  /\ marker = [g \in Gate |-> -1] /\ escaped = [g \in Gate |-> FALSE]
  /\ acts = 0 /\ faults = 0

-----------------------------------------------------------------------------
\* systemd and the Java process.

Active(u) == u \in {"booting", "running", "hung", "saving"}

\* What a probe of the port finds: a dying server has closed it.
Answers(u) == u = "running"
Accepts(u) == u \in {"running", "hung"}

\* systemctl start: nothing on an active unit, queued behind a stop that runs.
Started(u) == CASE u = "stopped" -> "booting" [] u = "leaving" -> "cycling" [] OTHER -> u

\* systemctl stop: cancels a queued start.
Stopped(u) == IF Active(u) \/ u = "cycling" THEN "leaving" ELSE u

On(g) == {p \in Player : Server[p] = g /\ place[p] = "on"}
Held(g) == {p \in Player : Server[p] = g /\ place[p] = "held"}
Holds(g) == {p \in Player : Server[p] = g /\ place[p] \in {"held", "releasing"}}

-----------------------------------------------------------------------------
\* The hours.

EffectiveOpenAt(g, t) == t \in OpenAt[g] \/ t < until[g]

IsClosed(g) == scheduled[g] /\ ~EffectiveOpenAt(g, now)

\* canWake: whether a stopped server may be started now.
CanWake(g) == ~off[g] /\ ~IsClosed(g)

\* changesBetween: the boundaries that have passed, the end of a hand-opened period too.
Changes(g) == {t \in 1..now : EffectiveOpenAt(g, t) # EffectiveOpenAt(g, t - 1)}
Last(g) == CHOOSE t \in Changes(g) : \A u \in Changes(g) : u <= t

Closes(g) == Changes(g) # {} /\ ~EffectiveOpenAt(g, Last(g))
Opens(g) == Changes(g) # {} /\ EffectiveOpenAt(g, Last(g))

\* Mutant: it looks at its own marker.
OwnGateStopping(g) == marker[g] # -1 /\ now - marker[g] < OtherStopMax

OtherGateStopping(g) ==
  \E h \in Gate \ {g} : marker[h] # -1 /\ now - marker[h] < OtherStopMax

\* setState: a new state forgets misses, and being up or starting is activity.
SetState(g, s) ==
  /\ state' = [state EXCEPT ![g] = s]
  /\ failures' = [failures EXCEPT ![g] = IF s = state[g] THEN @ ELSE 0]
  /\ since' = [since EXCEPT ![g] = IF s = state[g] THEN @ ELSE 0]
  /\ quiet' = [quiet EXCEPT ![g] = IF s # state[g] /\ s \in {"up", "starting"} THEN 0 ELSE @]

\* Mutant: true outside the hours too.
WakesUnlessOff(g) == state[g] \in {"up", "starting"} \/ ~off[g]

\* wake() is true: the server runs, starts or will.
Wakes(g) == state[g] \in {"up", "starting"} \/ CanWake(g)

Wake(g) ==
  /\ quiet' = [quiet EXCEPT ![g] = 0]
  /\ again' = [again EXCEPT ![g] = @ \/ (state[g] = "stopping" /\ CanWake(g))]
  /\ IF state[g] = "down" /\ CanWake(g)
     THEN /\ state' = [state EXCEPT ![g] = "starting"]
          /\ since' = [since EXCEPT ![g] = 0]
          /\ failures' = [failures EXCEPT ![g] = 0]
          /\ unit' = [unit EXCEPT ![g] = Started(@)]
     ELSE UNCHANGED <<state, since, failures, unit>>
  /\ UNCHANGED online

\* pipe(): on the server; one that does not accept leaves the join held or refused.
Piped(p) ==
  LET g == Server[p] IN
  IF Accepts(unit[g]) THEN "on" ELSE IF CanWake(g) THEN "held" ELSE "out"

-----------------------------------------------------------------------------
\* tick

\* Mutant: a sleeping server is not probed.
TickProbeAwake(g) ==
  /\ tick[g] = Idle /\ state[g] \in {"up", "starting"}
  /\ probed' = [probed EXCEPT ![g] = TRUE]
  /\ tick' = [tick EXCEPT ![g] = [at |-> "probed", seen |-> IF Answers(unit[g]) THEN "status" ELSE "miss"]]
  /\ UNCHANGED <<now, gateVars, hours, stop, place, unit, fileVars, escaped, acts, faults>>

\* A stopping gate does not probe; otherwise the answer is on its way.
TickProbe(g) ==
  /\ tick[g] = Idle /\ state[g] # "stopping"
  /\ probed' = [probed EXCEPT ![g] = TRUE]
  /\ tick' = [tick EXCEPT ![g] =
                [at |-> "probed",
                 seen |-> IF ~Answers(unit[g]) THEN "miss" ELSE IF On(g) # {} THEN "busy" ELSE "status"]]
  /\ UNCHANGED <<now, gateVars, hours, stop, place, unit, fileVars, escaped, acts, faults>>

\* releaseHolds: who has answered every query is handed over, the others soon.
ReleaseHolds(g) ==
  \E answered \in SUBSET Held(g) :
    place' = [p \in Player |-> IF p \in answered THEN Piped(p)
                               ELSE IF p \in Held(g) THEN "releasing" ELSE place[p]]

\* Nobody is, was or waits to be on it for idleMinutes.
IsIdle(g) ==
  /\ On(g) \cup Holds(g) = {}
  /\ tick[g].seen = "status"
  /\ state[g] = "up" /\ quiet[g] = IdleTime

TickStatus(g) ==
  /\ tick[g].at = "probed" /\ tick[g].seen \in {"status", "busy"}
  /\ online' = [online EXCEPT ![g] = tick[g].seen = "busy"]
  /\ failures' = [failures EXCEPT ![g] = 0]
  /\ since' = [since EXCEPT ![g] = 0]
  /\ ReleaseHolds(g)
  /\ IF IsIdle(g)
     THEN /\ state' = [state EXCEPT ![g] = "stopping"]
          /\ tick' = [tick EXCEPT ![g] = [at |-> "sleep", seen |-> "none"]]
          /\ stop' = [stop EXCEPT ![g]["tick"] = "console"]
          /\ UNCHANGED quiet
     ELSE /\ state' = [state EXCEPT ![g] = "up"]
          /\ tick' = [tick EXCEPT ![g] = Idle]
          /\ quiet' = [quiet EXCEPT ![g] = IF On(g) \cup Holds(g) # {} \/ tick[g].seen = "busy"
                                              \/ state[g] # "up"
                                           THEN 0 ELSE @]
          /\ UNCHANGED stop
  /\ UNCHANGED <<now, probed, again, hours, unit, fileVars, escaped, acts, faults>>

FailHolds(g) == place' = [p \in Player |-> IF p \in Holds(g) THEN "out" ELSE place[p]]

Asked(g, who) ==
  tick' = [tick EXCEPT ![g] = [at |-> who, seen |-> IF Active(unit[g]) THEN "active" ELSE "inactive"]]

\* No answer: an up server may miss some, a starting one is looked at in systemd,
\* and who waits in front of a sleeping one wakes it or is told.
TickMiss(g) ==
  /\ tick[g].at = "probed" /\ tick[g].seen = "miss"
  /\ \/ /\ state[g] = "up"
        /\ failures' = [failures EXCEPT ![g] = IF @ = Misses THEN @ ELSE @ + 1]
        /\ since' = [since EXCEPT ![g] = IF failures[g] = 0 THEN 0 ELSE @]
        /\ IF failures[g] + 1 < Misses
           THEN tick' = [tick EXCEPT ![g] = Idle] ELSE Asked(g, "askedUp")
        /\ UNCHANGED <<state, quiet, online, again, place, unit>>
     \/ /\ state[g] = "starting"
        /\ Asked(g, "askedStarting")
        /\ UNCHANGED <<gateVars, place, unit>>
     \/ /\ state[g] = "down" /\ Holds(g) # {}
        /\ tick' = [tick EXCEPT ![g] = Idle]
        /\ Wake(g)
        /\ IF Wakes(g) THEN UNCHANGED place ELSE FailHolds(g)
     \/ /\ state[g] = "stopping" \/ (state[g] = "down" /\ Holds(g) = {})
        /\ tick' = [tick EXCEPT ![g] = Idle]
        /\ UNCHANGED <<gateVars, place, unit>>
  /\ UNCHANGED <<now, probed, hours, stop, fileVars, escaped, acts, faults>>

\* waited, computed after the await: a closing meanwhile has set unansweredSince to 0.
Hangs(g) == state[g] # "up" \/ since[g] >= HungTime

\* The unit of an unanswering server has ended, or it is taken to hang and started over.
TickAskedUp(g) ==
  /\ tick[g].at = "askedUp"
  /\ \/ /\ tick[g].seen = "inactive"
        /\ SetState(g, "down")
        /\ tick' = [tick EXCEPT ![g] = Idle]
        /\ UNCHANGED stop
     \/ /\ tick[g].seen = "active" /\ ~off[g] /\ Hangs(g)
        /\ state' = [state EXCEPT ![g] = "starting"]
        /\ failures' = [failures EXCEPT ![g] = 0] /\ since' = [since EXCEPT ![g] = 0]
        /\ quiet' = [quiet EXCEPT ![g] = IF state[g] = "starting" THEN @ ELSE 0]
        /\ tick' = [tick EXCEPT ![g] = [at |-> "recover", seen |-> "none"]]
        /\ stop' = [stop EXCEPT ![g]["tick"] = "console"]
     \/ /\ tick[g].seen = "active" /\ (off[g] \/ ~Hangs(g))
        /\ tick' = [tick EXCEPT ![g] = Idle]
        /\ UNCHANGED <<state, failures, since, quiet, stop>>
  /\ UNCHANGED <<now, probed, online, again, hours, place, unit, fileVars, escaped, acts, faults>>

\* The unit ended while starting, or takes too long; the first seconds are too early to say.
TickAskedStarting(g) ==
  /\ tick[g].at = "askedStarting"
  /\ tick' = [tick EXCEPT ![g] = Idle]
  /\ \/ /\ tick[g].seen = "inactive" \/ since[g] >= StartTime
        /\ SetState(g, "down")
        /\ FailHolds(g)
     \/ /\ since[g] < StartTime /\ (tick[g].seen = "active" \/ since[g] = 0)
        /\ UNCHANGED <<state, failures, since, quiet, place>>
  /\ UNCHANGED <<now, probed, online, again, hours, stop, unit, fileVars, escaped, acts, faults>>

-----------------------------------------------------------------------------
\* stopServer, for the idle stop and the restart (tick) and the closing (hours)

\* The connections of a server that goes away close with it.
Cut(g) ==
  /\ place' = [p \in Player |-> IF p \in On(g) THEN "out" ELSE place[p]]
  /\ quiet' = [quiet EXCEPT ![g] = IF On(g) # {} THEN 0 ELSE @]

\* The console's "stop" is taken by a server that runs; without its reply, or without a
\* console, systemd is asked at once.
StopConsole(g, j) ==
  /\ stop[g][j] = "console"
  /\ Cut(g)
  /\ \/ /\ unit[g] = "running"
        /\ unit' = [unit EXCEPT ![g] = "saving"]
        /\ stop' = [stop EXCEPT ![g][j] = "waiting"]
     \/ /\ unit' = [unit EXCEPT ![g] = Stopped(@)]
        /\ stop' = [stop EXCEPT ![g][j] = "systemd"]
  /\ UNCHANGED <<now, probed, state, failures, since, online, again, tick, hours, fileVars, escaped, acts, faults>>

\* The unit has ended, or rconStopMs have passed: systemd stops what is left.
StopWaited(g, j) ==
  /\ stop[g][j] = "waiting"
  /\ Cut(g)
  /\ unit' = [unit EXCEPT ![g] = Stopped(@)]
  /\ stop' = [stop EXCEPT ![g][j] = "systemd"]
  /\ UNCHANGED <<now, probed, state, failures, since, online, again, tick, hours, fileVars, escaped, acts, faults>>

StopReturns(g, j) == stop[g][j] = "systemd" /\ unit[g] # "leaving"

\* Mutant: started without another look at the hours and the switch.
WakesOnceAsked(g) == again[g] \/ Holds(g) # {}

\* Someone asked for the server while it was stopping.
WakesAfterStop(g) == (again[g] \/ Holds(g) # {}) /\ CanWake(g)

\* maybeSleep after its stop.
SleepEnds(g) ==
  /\ StopReturns(g, "tick") /\ tick[g].at = "sleep"
  /\ stop' = [stop EXCEPT ![g]["tick"] = "none"]
  /\ tick' = [tick EXCEPT ![g] = Idle]
  /\ again' = [again EXCEPT ![g] = FALSE]
  /\ state' = [state EXCEPT ![g] = IF WakesAfterStop(g) THEN "starting" ELSE "down"]
  /\ failures' = [failures EXCEPT ![g] = 0]
  /\ since' = [since EXCEPT ![g] = 0]
  /\ quiet' = [quiet EXCEPT ![g] = IF again[g] \/ Holds(g) # {} THEN 0 ELSE @]
  /\ unit' = [unit EXCEPT ![g] = IF WakesAfterStop(g) THEN Started(@) ELSE @]
  /\ UNCHANGED <<now, probed, online, hours, place, fileVars, escaped, acts, faults>>

\* The closing due now is recorded, or has made its last attempt to stop the server.
ClosingPast(g) == Closes(g) /\ (done[g].stop >= Last(g) \/ stop[g]["hours"] = "systemd")

\* recover: started again without a look at the hours.
RecoverEnds(g) ==
  /\ StopReturns(g, "tick") /\ tick[g].at = "recover"
  /\ stop' = [stop EXCEPT ![g]["tick"] = "none"]
  /\ tick' = [tick EXCEPT ![g] = Idle]
  /\ since' = [since EXCEPT ![g] = 0]
  /\ unit' = [unit EXCEPT ![g] = Started(@)]
  /\ escaped' = [escaped EXCEPT ![g] = @ \/ (IsClosed(g) /\ ClosingPast(g))]
  /\ UNCHANGED <<now, probed, state, failures, quiet, online, again, hours, place, fileVars, acts, faults>>

-----------------------------------------------------------------------------
\* enforceHours

CloseDue(g) ==
  /\ scheduled[g] /\ hours[g].at = "none"
  /\ Closes(g) /\ done[g].stop < Last(g)
  /\ state[g] # "stopping"

\* Found late, with players on: they are told and given ten seconds.
NoticeDue(g) == now > Last(g) /\ state[g] = "up" /\ (On(g) # {} \/ online[g])

BeginClosing(g, at) ==
  /\ SetState(g, "stopping")
  /\ marker' = [marker EXCEPT ![g] = now]
  /\ escaped' = [escaped EXCEPT ![g] = FALSE]
  /\ hours' = [hours EXCEPT ![g] = [at |-> "closing", boundary |-> at]]
  /\ stop' = [stop EXCEPT ![g]["hours"] = "console"]

\* Mutant: a server that is still starting is not stopped.
NotUp(g) == state[g] # "up"

Stays(g) == state[g] = "down"

CloseForHours(g) ==
  /\ CloseDue(g)
  /\ \/ /\ Stays(g)
        /\ done' = [done EXCEPT ![g].stop = Last(g)]
        /\ escaped' = [escaped EXCEPT ![g] =
                         @ \/ (state[g] = "down" /\ unit[g] \in {"booting", "running", "hung", "cycling"})]
        /\ UNCHANGED <<state, failures, since, quiet, marker, hours, stop>>
     \/ /\ ~Stays(g) /\ NoticeDue(g)
        /\ hours' = [hours EXCEPT ![g] = [at |-> "late", boundary |-> Last(g)]]
        /\ UNCHANGED <<state, failures, since, quiet, marker, escaped, done, stop>>
     \/ /\ ~Stays(g) /\ ~NoticeDue(g)
        /\ BeginClosing(g, Last(g))
        /\ UNCHANGED done
  /\ UNCHANGED <<now, probed, online, again, tick, place, unit, scheduled, off, until, acts, faults>>

\* The ten seconds are over: the state is set whatever it has become.
LateEnds(g) ==
  /\ hours[g].at = "late"
  /\ BeginClosing(g, hours[g].boundary)
  /\ UNCHANGED <<now, probed, online, again, tick, place, unit, scheduled, off, until, done, acts, faults>>

CloseEnds(g) ==
  /\ StopReturns(g, "hours")
  /\ stop' = [stop EXCEPT ![g]["hours"] = "none"]
  /\ hours' = [hours EXCEPT ![g] = NoHours]
  /\ SetState(g, "down")
  /\ marker' = [marker EXCEPT ![g] = -1]
  /\ done' = [done EXCEPT ![g].stop = hours[g].boundary]
  /\ UNCHANGED <<now, probed, online, again, tick, place, unit, scheduled, off, until, escaped, acts, faults>>

\* Mutant: a boundary is old once the delay is over.
FreshForDelay(g) == now - Last(g) < StartDelay

Fresh(g) == now - Last(g) <= StartFresh

OpenDue(g) ==
  /\ scheduled[g] /\ hours[g].at = "none"
  /\ Opens(g) /\ done[g].start < Last(g)
  /\ Fresh(g)
  /\ now >= Last(g) + StartDelay /\ ~OtherGateStopping(g)
  /\ state[g] # "stopping" /\ ~(state[g] = "down" /\ off[g])
  /\ Wakes(g)

OpenForHours(g) ==
  /\ OpenDue(g)
  /\ Wake(g)
  /\ done' = [done EXCEPT ![g].start = Last(g)]
  /\ UNCHANGED <<now, probed, tick, hours, stop, place, scheduled, off, until, marker, escaped, acts, faults>>

-----------------------------------------------------------------------------
\* Connections and launcher pings

\* Mutant: whoever comes is connected while the server's port is open.
JoinAtPort(p) ==
  /\ place[p] = "out" /\ Accepts(unit[Server[p]])
  /\ place' = [place EXCEPT ![p] = "on"]
  /\ UNCHANGED <<now, gateVars, probed, tick, hours, stop, unit, fileVars, escaped, acts, faults>>

\* A running server is connected to at once, else the join waits or is refused.
Join(p) ==
  LET g == Server[p] IN
  /\ place[p] = "out"
  /\ \/ /\ state[g] = "up"
        /\ place' = [place EXCEPT ![p] = Piped(p)]
        /\ quiet' = [quiet EXCEPT ![g] = 0]
        /\ UNCHANGED <<state, failures, since, online, again, unit>>
     \/ /\ state[g] = "stopping"
        /\ CanWake(g)
        /\ place' = [place EXCEPT ![p] = "held"]
        /\ UNCHANGED <<gateVars, unit>>
     \/ /\ state[g] \in {"down", "starting"}
        /\ Wake(g)
        /\ place' = IF Wakes(g) THEN [place EXCEPT ![p] = "held"] ELSE place
  /\ UNCHANGED <<now, probed, tick, hours, stop, fileVars, escaped, acts, faults>>

\* Play was pressed: the launcher's marked ping wakes the server ahead of the join.
Ping(g) ==
  /\ Wake(g)
  /\ UNCHANGED <<now, probed, tick, hours, stop, place, fileVars, escaped, acts, faults>>

Answered(p) ==
  /\ place[p] = "releasing"
  /\ place' = [place EXCEPT ![p] = Piped(p)]
  /\ quiet' = [quiet EXCEPT ![Server[p]] = 0]
  /\ UNCHANGED <<now, probed, state, failures, since, online, again, tick, hours, stop, unit, fileVars, escaped, acts, faults>>

\* A player leaves, closes a waiting client, or has waited for holdMaxMs.
Leave(p) ==
  /\ place[p] # "out"
  /\ place' = [place EXCEPT ![p] = "out"]
  /\ quiet' = [quiet EXCEPT ![Server[p]] = IF place[p] = "on" THEN 0 ELSE @]
  /\ UNCHANGED <<now, probed, state, failures, since, online, again, tick, hours, stop, unit, fileVars, escaped, acts, faults>>

-----------------------------------------------------------------------------
\* The machine and its administrators

UnitStep(g) ==
  /\ unit' = [unit EXCEPT ![g] = CASE @ = "booting" -> "running"
                                   [] @ \in {"saving", "leaving"} -> "stopped"
                                   [] @ = "cycling" -> "booting"
                                   [] OTHER -> @]
  /\ unit' # unit
  /\ UNCHANGED <<now, probed, gateVars, tick, hours, stop, place, fileVars, escaped, acts, faults>>

Unhang(g) ==
  /\ unit[g] = "hung"
  /\ unit' = [unit EXCEPT ![g] = "running"]
  /\ UNCHANGED <<now, probed, gateVars, tick, hours, stop, place, fileVars, escaped, acts, faults>>

Fault(kind) == kind \in Faults /\ faults < MaxFaults /\ faults' = faults + 1

\* The server crashes, or fails to start: its connections close.
UnitCrash(g) ==
  /\ Fault("crash")
  /\ unit[g] \in {"booting", "running", "hung"}
  /\ unit' = [unit EXCEPT ![g] = "stopped"]
  /\ Cut(g)
  /\ UNCHANGED <<now, probed, state, failures, since, online, again, tick, hours, stop, fileVars, escaped, acts>>

UnitHang(g) ==
  /\ Fault("hang")
  /\ unit[g] = "running"
  /\ unit' = [unit EXCEPT ![g] = "hung"]
  /\ UNCHANGED <<now, probed, gateVars, tick, hours, stop, place, fileVars, escaped, acts>>

\* The gate's process starts anew (listen): its connections are cut, its files stay.
Restart(g) ==
  /\ Fault("restart")
  /\ state' = [state EXCEPT ![g] = IF Answers(unit[g]) THEN "up"
                                  ELSE IF Active(unit[g]) THEN "starting" ELSE "down"]
  /\ failures' = [failures EXCEPT ![g] = 0]
  /\ quiet' = [quiet EXCEPT ![g] = 0] /\ since' = [since EXCEPT ![g] = 0]
  /\ online' = [online EXCEPT ![g] = FALSE] /\ again' = [again EXCEPT ![g] = FALSE]
  /\ tick' = [tick EXCEPT ![g] = Idle] /\ hours' = [hours EXCEPT ![g] = NoHours]
  /\ stop' = [stop EXCEPT ![g] = NoStop]
  /\ place' = [p \in Player |-> IF Server[p] = g THEN "out" ELSE place[p]]
  /\ UNCHANGED <<now, probed, unit, fileVars, escaped, acts>>

Act(kind) == kind \in Acts /\ acts < MaxActs /\ acts' = acts + 1

SwitchOff(g) ==
  /\ Act("off")
  /\ off' = [off EXCEPT ![g] = ~@]
  /\ UNCHANGED <<now, probed, gateVars, tick, hours, stop, place, unit, scheduled, until, done, marker, escaped, faults>>

\* gate-schedule.mjs open and close-by-hand.
OpenByHand(g) ==
  /\ Act("open")
  /\ \E t \in now + 1..MaxTime : until' = [until EXCEPT ![g] = t]
  /\ UNCHANGED <<now, probed, gateVars, tick, hours, stop, place, unit, scheduled, off, done, marker, escaped, faults>>

CloseByHand(g) ==
  /\ Act("close")
  /\ until' = [until EXCEPT ![g] = 0]
  /\ UNCHANGED <<now, probed, gateVars, tick, hours, stop, place, unit, scheduled, off, done, marker, escaped, faults>>

\* SIGHUP after the schedule was cleared or applied.
Reload(g) ==
  /\ Act("reload")
  /\ scheduled' = [scheduled EXCEPT ![g] = ~@]
  /\ UNCHANGED <<now, probed, gateVars, tick, hours, stop, place, unit, off, until, done, marker, escaped, faults>>

\* Somebody starts the unit without the gate.
StartByHand(g) ==
  /\ Act("start")
  /\ unit' = [unit EXCEPT ![g] = Started(@)]
  /\ UNCHANGED <<now, probed, gateVars, tick, hours, stop, place, fileVars, escaped, faults>>

Older(n, bound) == IF n = bound THEN n ELSE n + 1

\* A minute passes: no probe, check, notice or handing over takes that long, no stop as many,
\* and neither does a stop or a boot its gate has lost sight of.
Minute ==
  /\ now < MaxTime
  /\ \A p \in Player : place[p] # "releasing"
  /\ \A g \in Gate :
       /\ ~CloseDue(g) /\ ~OpenDue(g) /\ hours[g].at # "late"
       /\ \A j \in Job : /\ stop[g][j] # "console" /\ ~StopReturns(g, j)
                         /\ stop[g][j] = "waiting" => Active(unit[g])
       /\ hours[g].at = "closing" => now - marker[g] < StopTime
       /\ tick[g].at \in {"none", "sleep", "recover"}
       /\ tick[g] = Idle /\ state[g] # "stopping" => probed[g] /\ failures[g] \in {0, Misses}
       /\ tick[g].at \in {"sleep", "recover"} => since[g] < StopTime
       /\ unit[g] = "booting" /\ state[g] = "starting" => SlowBoot \/ since[g] + 1 < StartTime
       /\ unit[g] = "booting" /\ state[g] = "down" => SlowBoot
       /\ unit[g] \in {"leaving", "cycling"} => stop[g] # NoStop
  /\ now' = now + 1
  /\ probed' = [g \in Gate |-> FALSE]
  /\ quiet' = [g \in Gate |-> Older(quiet[g], IdleTime)]
  /\ since' = [g \in Gate |-> IF state[g] \in {"starting", "stopping"} \/ failures[g] > 0
                              THEN Older(since[g], Patience) ELSE since[g]]
  /\ UNCHANGED <<state, failures, online, again, tick, hours, stop, place, unit, fileVars, escaped, acts, faults>>

TickNext(g) ==
  \/ TickProbe(g) \/ TickStatus(g) \/ TickMiss(g) \/ TickAskedUp(g) \/ TickAskedStarting(g)
  \/ SleepEnds(g) \/ RecoverEnds(g)

HoursNext(g) == CloseForHours(g) \/ LateEnds(g) \/ CloseEnds(g) \/ OpenForHours(g)

StopNext(g) == \E j \in Job : StopConsole(g, j) \/ StopWaited(g, j)

GateNext(g) == TickNext(g) \/ HoursNext(g) \/ StopNext(g) \/ Ping(g)

PlayerNext(p) == Join(p) \/ Answered(p) \/ Leave(p)

FaultNext(g) == UnitCrash(g) \/ UnitHang(g) \/ Restart(g)

ActNext(g) == SwitchOff(g) \/ OpenByHand(g) \/ CloseByHand(g) \/ Reload(g) \/ StartByHand(g)

Next ==
  \/ \E g \in Gate : GateNext(g) \/ UnitStep(g) \/ Unhang(g) \/ FaultNext(g) \/ ActNext(g)
  \/ \E p \in Player : PlayerNext(p)
  \/ Minute

Spec == Init /\ [][Next]_vars

\* The event loop, systemd and the clock keep going; five seconds end a handing over, and
\* the time in which a starting unit may not be active yet; the gates' probes, milliseconds
\* every few seconds, are not in step so that one is always under way;
\* players, faults and administrators need not act.
Fairness ==
  /\ \A g \in Gate : WF_vars(TickNext(g)) /\ WF_vars(HoursNext(g)) /\ WF_vars(UnitStep(g))
                      /\ \A j \in Job : WF_vars(StopConsole(g, j)) /\ WF_vars(StopWaited(g, j))
  /\ \A g \in Gate : SF_vars(TickAskedStarting(g) /\ state'[g] # state[g])
  /\ \A p \in Player : WF_vars(place[p] = "releasing" /\ (Answered(p) \/ Leave(p)))
  /\ []<>(\A g \in Gate : tick[g].at \in {"none", "sleep", "recover"})
  /\ SF_vars(Minute)

FairSpec == Spec /\ Fairness

-----------------------------------------------------------------------------
(* A server that runs is stopped under a player only because its hours end or *)
(* recover starts it over: whoever gets in while nobody was on is on before    *)
(* the idle stop, or held until after it (maybeSleep against join, pipe and     *)
(* releaseHolds).                                                              *)
NoStopUnderPlayers ==
  [][ \A g \in Gate : On(g) # {} /\ unit[g] = "running" /\ unit'[g] \in {"saving", "leaving"} =>
        hours[g].at = "closing" \/ tick[g].at = "recover" ]_vars

Starts(g) == unit'[g] \in {"booting", "cycling"} /\ unit[g] \in {"stopped", "leaving"}

(* The gate wakes a server only inside its hours and while it is not switched off,  *)
(* for a join, a press of Play or an opening, or one it remembered while stopping.  *)
(* Only recover starts it again without a look at either.                           *)
WakesInHours ==
  [][ \A g \in Gate : Starts(g) => CanWake(g) \/ acts' # acts \/ tick[g].at = "recover" ]_vars

(* An opening's start waits until no other gate is closing its server: two JVMs   *)
(* that save and load at once do not fit the machine (openStartDelayMs, .stopping). *)
OpensAfterClosing ==
  [][ \A g, h \in Gate : g # h /\ done'[g].start # done[g].start /\ unit'[g] # unit[g] =>
        hours[h].at # "closing" ]_vars

(* Nobody is left on the "Logging in" screen: who is held gets in or is told. (A   *)
(* server that hangs when the time of the model is over is never given up.)        *)
HeldAnswered ==
  \A p \in Player :
    place[p] \in {"held", "releasing"} ~>
      (place[p] \in {"on", "out"} \/ (now = MaxTime /\ unit[Server[p]] = "hung"))

(* A server whose hours are over goes down ("opening hours ended, stopping"), over *)
(* crashes, hangs and restarts of the gate and while recover stops it too; except   *)
(* one that recover starts when the closing is past stopping it, and one the gate    *)
(* took for asleep at the closing although it ran: a start given up as timed out.   *)
ClosesDown ==
  \A g \in Gate : IsClosed(g) ~> (unit[g] = "stopped" \/ ~IsClosed(g) \/ escaped[g])

(* When the hours begin the server comes up, whatever the gate was doing, unless it *)
(* is switched off or a fault interferes: a start is not repeated after a crash.     *)
OpensUp ==
  \A g \in Gate :
    (Opens(g) /\ now = Last(g)) ~> (unit[g] = "running" \/ off[g] \/ faults # 0)

(* A server that runs becomes known to its gate: one that is taken for asleep     *)
(* would answer "sleeping" while players are on it, and never be stopped.         *)
RunningIsKnown == \A g \in Gate : unit[g] = "running" ~> (state[g] = "up" \/ unit[g] # "running")

=============================================================================
