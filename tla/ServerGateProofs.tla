-------------------------- MODULE ServerGateProofs --------------------------
(***************************************************************************)
(* The gates, for any number of servers and players, any schedule and any  *)
(* waits: nobody is stopped under, nothing is woken out of hours, and no   *)
(* opening starts beside a closing.  Next to the types the argument needs  *)
(* to know how an idle stop leaves its gate, and how old a marker gets.    *)
(***************************************************************************)
EXTENDS ServerGate, WellFoundedInduction, TLAPS

USE GateAssumption, WaitAssumption

UnitStates == {"stopped", "booting", "running", "hung", "saving", "leaving", "cycling"}
Places == {"out", "held", "releasing", "on"}
USE DEF UnitStates, Places

-----------------------------------------------------------------------------
\* Types.  TypeOK in four parts, each with the actions that could break it.

NumbersOK ==
  /\ state \in [Gate -> {"down", "starting", "up", "stopping"}]
  /\ failures \in [Gate -> 0..Misses]
  /\ quiet \in [Gate -> 0..IdleTime]
  /\ since \in [Gate -> 0..Patience]

FlagsOK ==
  /\ probed \in [Gate -> BOOLEAN]
  /\ online \in [Gate -> BOOLEAN] /\ again \in [Gate -> BOOLEAN]
  /\ scheduled \in [Gate -> BOOLEAN] /\ off \in [Gate -> BOOLEAN]
  /\ escaped \in [Gate -> BOOLEAN]

JobsOK ==
  /\ tick \in [Gate -> [at : {"none", "probed", "askedUp", "askedStarting", "sleep", "recover"},
                        seen : {"none", "status", "busy", "miss", "active", "inactive"}]]
  /\ hours \in [Gate -> [at : {"none", "late", "closing"}, boundary : Time]]
  /\ stop \in [Gate -> [Job -> {"none", "console", "waiting", "systemd"}]]
  /\ \A g \in Gate :
       /\ stop[g]["tick"] # "none" <=> tick[g].at \in {"sleep", "recover"}
       /\ stop[g]["hours"] # "none" <=> hours[g].at = "closing"

RestOK ==
  /\ now \in Time
  /\ place \in [Player -> Places]
  /\ unit \in [Gate -> UnitStates]
  /\ until \in [Gate -> Time]
  /\ done \in [Gate -> [stop : Time, start : Time]]
  /\ marker \in [Gate -> -1..MaxTime]
  /\ acts \in 0..MaxActs /\ faults \in 0..MaxFaults

\* The longest of three waits is one of them.
LEMMA PatienceNat == Patience \in Nat /\ Patience >= StopTime
<1>1. \E t \in {HungTime, StartTime, StopTime} : \A u \in {HungTime, StartTime, StopTime} : u <= t
  OBVIOUS
<1> QED BY <1>1 DEF Patience

\* The latest boundary that has passed exists: the set of their ages has a least element.
LEMMA LastIsChange ==
  ASSUME now \in Time, NEW g \in Gate, Changes(g) # {}
  PROVE  Last(g) \in 1..now
<1> DEFINE ago == {now - t : t \in Changes(g)}
           less == {mn \in Nat \X Nat : mn[1] < mn[2]}
<1>1. now \in Nat /\ Changes(g) \subseteq 1..now
  BY DEF Time, Changes
<1>2. ago \subseteq Nat /\ ago # {}
  BY <1>1
<1>3. IsWellFoundedOn(less, Nat)
  BY NatLessThanWellFounded, Zenon DEF OpToRel
<1>4. \E n \in ago : \A m \in ago : <<m, n>> \notin less
  <2> HIDE DEF ago, less
  <2> QED BY <1>2, <1>3, WFMin
<1>5. PICK t \in Changes(g) : \A m \in ago : <<m, now - t>> \notin less
  BY <1>4
<1>6. \A u \in Changes(g) : u <= t
  <2> SUFFICES ASSUME NEW u \in Changes(g), u > t PROVE FALSE
    BY <1>1
  <2>1. now - u \in ago /\ now - u \in Nat /\ now - t \in Nat /\ now - u < now - t
    BY <1>1
  <2> QED BY <1>5, <2>1
<1> QED BY <1>1, <1>6 DEF Last

LEMMA SetStateNumbers ==
  ASSUME NumbersOK, NEW g \in Gate, NEW s \in {"down", "starting", "up", "stopping"}, SetState(g, s)
  PROVE  NumbersOK'
BY PatienceNat DEF SetState, NumbersOK

LEMMA WakeTypes ==
  ASSUME TypeOK, NEW g \in Gate, Wake(g)
  PROVE  /\ NumbersOK'
         /\ unit' \in [Gate -> UnitStates]
<1> USE PatienceNat DEF TypeOK, NumbersOK
<1>1. CASE state[g] = "down" /\ CanWake(g)
  <2>1. Started(unit[g]) \in UnitStates
    BY DEF Started
  <2>2. /\ state' = [state EXCEPT ![g] = "starting"] /\ since' = [since EXCEPT ![g] = 0]
        /\ failures' = [failures EXCEPT ![g] = 0] /\ quiet' = [quiet EXCEPT ![g] = 0]
        /\ unit' = [unit EXCEPT ![g] = Started(@)]
    BY <1>1 DEF Wake
  <2> QED BY <2>1, <2>2
<1>2. CASE ~(state[g] = "down" /\ CanWake(g))
  BY <1>2 DEF Wake
<1> QED BY <1>1, <1>2

LEMMA MissesStay == \A f \in 0..Misses : (IF f = Misses THEN f ELSE f + 1) \in 0..Misses
<1> TAKE f \in 0..Misses
<1>1. Misses \in Nat
  OBVIOUS
<1> QED BY <1>1, Z3

LEMMA OlderStays == \A b \in Nat : \A n \in 0..b : Older(n, b) \in 0..b
BY DEF Older

\* A step of the probe in which no stop begins or ends.
LEMMA TickStepJobs ==
  ASSUME JobsOK, NEW g \in Gate, tick[g].at \notin {"sleep", "recover"},
         NEW x \in [at : {"none", "probed", "askedUp", "askedStarting"},
                    seen : {"none", "status", "busy", "miss", "active", "inactive"}],
         tick' = [tick EXCEPT ![g] = x], UNCHANGED <<hours, stop>>
  PROVE  JobsOK'
BY DEF JobsOK, Job

\* The probe of a server begins to stop it.
LEMMA TickStopJobs ==
  ASSUME JobsOK, NEW g \in Gate, NEW a \in {"sleep", "recover"},
         tick' = [tick EXCEPT ![g] = [at |-> a, seen |-> "none"]],
         stop' = [stop EXCEPT ![g]["tick"] = "console"], UNCHANGED hours
  PROVE  JobsOK'
BY DEF JobsOK, Job

\* A stop goes on.
LEMMA StopStepJobs ==
  ASSUME JobsOK, NEW g \in Gate, NEW j \in Job, stop[g][j] # "none",
         NEW x \in {"waiting", "systemd"},
         stop' = [stop EXCEPT ![g][j] = x], UNCHANGED <<hours, tick>>
  PROVE  JobsOK'
BY DEF JobsOK, Job

LEMMA DoneStep ==
  ASSUME done \in [Gate -> [stop : Time, start : Time]], NEW g \in Gate, NEW t \in Time,
         done' = [done EXCEPT ![g].stop = t] \/ done' = [done EXCEPT ![g].start = t]
  PROVE  done' \in [Gate -> [stop : Time, start : Time]]
<1>1. CASE done' = [done EXCEPT ![g].stop = t]
  BY <1>1
<1>2. CASE done' = [done EXCEPT ![g].start = t]
  BY <1>2
<1> QED BY <1>1, <1>2

\* States, misses, quiet and waits.
LEMMA NumbersStep == ASSUME TypeOK, [Next]_vars PROVE NumbersOK'
<1> USE PatienceNat DEF TypeOK, NumbersOK, Time, Job, vars, gateVars, fileVars
<1>1. ASSUME NEW g \in Gate, TickStatus(g) PROVE NumbersOK'
  <2>1. /\ failures' = [failures EXCEPT ![g] = 0] /\ since' = [since EXCEPT ![g] = 0]
        /\ \E s \in {"up", "stopping"} : state' = [state EXCEPT ![g] = s]
        /\ UNCHANGED quiet \/ \E n \in {0, quiet[g]} : quiet' = [quiet EXCEPT ![g] = n]
    BY <1>1 DEF TickStatus
  <2> QED BY <2>1
<1>2. ASSUME NEW g \in Gate, TickMiss(g) PROVE NumbersOK'
  <2>1. CASE Wake(g)
    BY <2>1, WakeTypes
  <2>2. CASE /\ failures' = [failures EXCEPT ![g] = IF @ = Misses THEN @ ELSE @ + 1]
             /\ since' = [since EXCEPT ![g] = IF failures[g] = 0 THEN 0 ELSE @]
             /\ UNCHANGED <<state, quiet>>
    <3>1. failures' \in [Gate -> 0..Misses]
      BY <2>2, MissesStay
    <3>2. since' \in [Gate -> 0..Patience]
      BY <2>2
    <3> QED BY <2>2, <3>1, <3>2
  <2>3. CASE UNCHANGED gateVars
    BY <2>3
  <2> QED
    <3> HIDE DEF NumbersOK
    <3> QED BY <1>2, <2>1, <2>2, <2>3 DEF TickMiss
<1>3. ASSUME NEW g \in Gate, TickAskedUp(g) PROVE NumbersOK'
  <2>1. CASE SetState(g, "down")
    BY <2>1, SetStateNumbers
  <2>2. CASE UNCHANGED <<state, failures, since, quiet>>
    BY <2>2
  <2>3. CASE /\ state' = [state EXCEPT ![g] = "starting"]
             /\ failures' = [failures EXCEPT ![g] = 0] /\ since' = [since EXCEPT ![g] = 0]
             /\ quiet' = [quiet EXCEPT ![g] = IF state[g] = "starting" THEN @ ELSE 0]
    BY <2>3
  <2> QED
    <3> HIDE DEF NumbersOK
    <3> QED BY <1>3, <2>1, <2>2, <2>3 DEF TickAskedUp
<1>4. ASSUME NEW g \in Gate, TickAskedStarting(g) PROVE NumbersOK'
  <2>1. CASE \E s \in {"down", "starting"} : SetState(g, s)
    BY <2>1, SetStateNumbers
  <2>2. CASE ~ \E s \in {"down", "starting"} : SetState(g, s)
    BY <1>4, <2>2 DEF TickAskedStarting
  <2> QED BY <2>1, <2>2
<1>5. ASSUME NEW g \in Gate, SleepEnds(g) PROVE NumbersOK'
  BY <1>5 DEF SleepEnds, Idle, Started, StopReturns
<1>6. ASSUME NEW g \in Gate, RecoverEnds(g) PROVE NumbersOK'
  BY <1>6 DEF RecoverEnds, Idle, Started, StopReturns
<1>7. ASSUME NEW g \in Gate, CloseForHours(g) PROVE NumbersOK'
  <2>1. CASE SetState(g, "stopping")
    BY <2>1, SetStateNumbers
  <2>2. CASE ~SetState(g, "stopping")
    BY <1>7, <2>2 DEF CloseForHours, BeginClosing
  <2> QED BY <2>1, <2>2
<1>8. ASSUME NEW g \in Gate, LateEnds(g) PROVE NumbersOK'
  BY <1>8, SetStateNumbers DEF LateEnds, BeginClosing
<1>9. ASSUME NEW g \in Gate, CloseEnds(g) PROVE NumbersOK'
  BY <1>9, SetStateNumbers DEF CloseEnds
<1>10. ASSUME NEW g \in Gate, OpenForHours(g) PROVE NumbersOK'
  BY <1>10, WakeTypes DEF OpenForHours
<1>11. ASSUME NEW g \in Gate, NEW j \in Job, StopConsole(g, j) PROVE NumbersOK'
  BY <1>11 DEF StopConsole, Cut, Stopped
<1>12. ASSUME NEW g \in Gate, NEW j \in Job, StopWaited(g, j) PROVE NumbersOK'
  BY <1>12 DEF StopWaited, Cut, Stopped
<1>13. ASSUME NEW g \in Gate, Ping(g) PROVE NumbersOK'
  BY <1>13, WakeTypes DEF Ping
<1>14. ASSUME NEW g \in Gate, UnitCrash(g) PROVE NumbersOK'
  BY <1>14 DEF UnitCrash, Fault, Cut
<1>15. ASSUME NEW g \in Gate, Restart(g) PROVE NumbersOK'
  BY <1>15 DEF Restart, Fault, Idle, NoHours, NoStop
<1>16. ASSUME NEW p \in Player, Join(p) PROVE NumbersOK'
  <2>1. CASE Wake(Server[p])
    BY <2>1, WakeTypes
  <2>2. CASE UNCHANGED <<state, failures, since>> /\ quiet' = [quiet EXCEPT ![Server[p]] = 0]
    BY <2>2
  <2>3. CASE UNCHANGED gateVars
    BY <2>3
  <2> QED
    <3> HIDE DEF NumbersOK
    <3> QED BY <1>16, <2>1, <2>2, <2>3 DEF Join
<1>17. ASSUME NEW p \in Player, Answered(p) PROVE NumbersOK'
  BY <1>17 DEF Answered, Piped
<1>18. ASSUME NEW p \in Player, Leave(p) PROVE NumbersOK'
  BY <1>18 DEF Leave
<1>19. CASE Minute
  <2>1. \A h \in Gate : /\ Older(quiet[h], IdleTime) \in 0..IdleTime
                        /\ Older(since[h], Patience) \in 0..Patience
    BY OlderStays
  <2> QED BY <1>19, <2>1 DEF Minute
<1>20. ASSUME NEW g \in Gate, TickProbe(g) \/ UnitStep(g) \/ Unhang(g) \/ UnitHang(g) \/
                              SwitchOff(g) \/ OpenByHand(g) \/ CloseByHand(g) \/ Reload(g) \/
                              StartByHand(g)
      PROVE  NumbersOK'
  <2>1. UNCHANGED <<state, failures, quiet, since>>
    BY <1>20 DEF TickProbe, UnitStep, Unhang, UnitHang, SwitchOff, OpenByHand, CloseByHand, Reload,
                 StartByHand
  <2> QED BY <2>1
<1>21. CASE UNCHANGED vars
  BY <1>21
<1> QED
  BY <1>1, <1>2, <1>3, <1>4, <1>5, <1>6, <1>7, <1>8, <1>9, <1>10, <1>11, <1>12, <1>13, <1>14, <1>15,
     <1>16, <1>17, <1>18, <1>19, <1>20, <1>21
     DEF Next, GateNext, TickNext, HoursNext, StopNext, PlayerNext, FaultNext, ActNext

\* What is either so or not.
LEMMA FlagsStep == ASSUME TypeOK, [Next]_vars PROVE FlagsOK'
<1> USE DEF TypeOK, FlagsOK, Time, Job, vars, gateVars, fileVars
<1>1. ASSUME NEW g \in Gate, TickProbe(g) PROVE FlagsOK'
  BY <1>1 DEF TickProbe, Idle
<1>2. ASSUME NEW g \in Gate, TickStatus(g) PROVE FlagsOK'
  BY <1>2 DEF TickStatus, Idle, ReleaseHolds, Piped
<1>3. ASSUME NEW g \in Gate, TickMiss(g) PROVE FlagsOK'
  BY <1>3 DEF TickMiss, Idle, Asked, Wake, FailHolds, Started
<1>4. ASSUME NEW g \in Gate, SleepEnds(g) PROVE FlagsOK'
  BY <1>4 DEF SleepEnds, Idle, Started, StopReturns
<1>5. ASSUME NEW g \in Gate, OpenForHours(g) PROVE FlagsOK'
  BY <1>5 DEF OpenForHours, Wake
<1>6. ASSUME NEW g \in Gate, Ping(g) PROVE FlagsOK'
  BY <1>6 DEF Ping, Wake, Started
<1>7. ASSUME NEW g \in Gate, Restart(g) PROVE FlagsOK'
  BY <1>7 DEF Restart, Fault, Idle, NoHours, NoStop
<1>8. ASSUME NEW g \in Gate, SwitchOff(g) PROVE FlagsOK'
  BY <1>8 DEF SwitchOff, Act
<1>9. ASSUME NEW g \in Gate, Reload(g) PROVE FlagsOK'
  BY <1>9 DEF Reload, Act
<1>10. ASSUME NEW p \in Player, Join(p) PROVE FlagsOK'
  BY <1>10 DEF Join, Piped, Wake, Started
<1>11. CASE Minute
  BY <1>11 DEF Minute, Older
<1>12. ASSUME NEW g \in Gate, TickAskedUp(g) \/ TickAskedStarting(g) \/ CloseEnds(g) \/ UnitStep(g)
                              \/ Unhang(g) \/ UnitCrash(g) \/ UnitHang(g) \/ OpenByHand(g) \/
                              CloseByHand(g) \/ StartByHand(g)
      PROVE  FlagsOK'
  <2>1. UNCHANGED <<probed, online, again, scheduled, off, escaped>>
    BY <1>12 DEF TickAskedUp, TickAskedStarting, CloseEnds, UnitStep, Unhang, UnitCrash, UnitHang, OpenByHand, CloseByHand, StartByHand
  <2> QED BY <2>1
<1>13. ASSUME NEW p \in Player, Answered(p) \/ Leave(p)
      PROVE  FlagsOK'
  <2>1. UNCHANGED <<probed, online, again, scheduled, off, escaped>>
    BY <1>13 DEF Answered, Leave
  <2> QED BY <2>1
<1>14. ASSUME NEW g \in Gate, NEW j \in Job, StopConsole(g, j) \/ StopWaited(g, j)
      PROVE  FlagsOK'
  <2>1. UNCHANGED <<probed, online, again, scheduled, off, escaped>>
    BY <1>14 DEF StopConsole, StopWaited
  <2> QED BY <2>1
<1>15. CASE UNCHANGED vars
  BY <1>15
<1>16. ASSUME NEW g \in Gate, RecoverEnds(g) \/ CloseForHours(g) \/ LateEnds(g)
      PROVE  FlagsOK'
  <2>1. UNCHANGED <<probed, online, again, scheduled, off>>
    BY <1>16 DEF RecoverEnds, CloseForHours, LateEnds
  <2>2. UNCHANGED escaped \/ \E b \in BOOLEAN : escaped' = [escaped EXCEPT ![g] = b]
    <3>1. CASE RecoverEnds(g)
      <4>1. (escaped[g] \/ (IsClosed(g) /\ ClosingPast(g))) \in BOOLEAN
        OBVIOUS
      <4> QED BY <3>1, <4>1 DEF RecoverEnds
    <3>2. CASE CloseForHours(g)
      <4>1. (escaped[g] \/ (state[g] = "down" /\ unit[g] \in {"booting", "running", "hung", "cycling"}))
              \in BOOLEAN
        OBVIOUS
      <4> QED BY <3>2, <4>1 DEF CloseForHours, BeginClosing
    <3>3. CASE LateEnds(g)
      BY <3>3 DEF LateEnds, BeginClosing
    <3> QED BY <1>16, <3>1, <3>2, <3>3
  <2> QED BY <2>1, <2>2
<1> QED
  BY <1>1, <1>2, <1>3, <1>4, <1>5, <1>6, <1>7, <1>8, <1>9, <1>10, <1>11, <1>12, <1>13, <1>14, <1>15,
     <1>16
     DEF Next, GateNext, TickNext, HoursNext, StopNext, PlayerNext, FaultNext, ActNext

\* Both coroutines, and that each is in a stop exactly while its stopServer is under way.
LEMMA JobsStep == ASSUME TypeOK, [Next]_vars PROVE JobsOK'
<1> USE DEF TypeOK, JobsOK, Time, Job, vars, gateVars, fileVars
<1>1. ASSUME NEW g \in Gate, TickProbe(g) PROVE JobsOK'
  BY <1>1 DEF TickProbe, Idle
<1>2. ASSUME NEW g \in Gate, TickStatus(g) PROVE JobsOK'
  <2>1. tick[g].at = "probed" /\ UNCHANGED hours
    BY <1>2 DEF TickStatus
  <2>2. CASE IsIdle(g)
    BY <1>2, <2>1, <2>2, TickStopJobs DEF TickStatus
  <2>3. CASE ~IsIdle(g)
    <3>1. tick' = [tick EXCEPT ![g] = [at |-> "none", seen |-> "none"]] /\ UNCHANGED stop
      BY <1>2, <2>3 DEF TickStatus, Idle
    <3> QED BY <2>1, <3>1, TickStepJobs
  <2> QED BY <2>2, <2>3
<1>3. ASSUME NEW g \in Gate, TickMiss(g) PROVE JobsOK'
  <2>1. tick[g].at = "probed" /\ UNCHANGED <<hours, stop>>
    BY <1>3 DEF TickMiss
  <2>2. PICK x \in [at : {"none", "askedUp", "askedStarting"}, seen : {"none", "active", "inactive"}] :
          tick' = [tick EXCEPT ![g] = x]
    BY <1>3 DEF TickMiss, Idle, Asked
  <2> QED BY <2>1, <2>2, TickStepJobs
<1>4. ASSUME NEW g \in Gate, TickAskedUp(g) PROVE JobsOK'
  <2>1. tick[g].at = "askedUp" /\ UNCHANGED hours
    BY <1>4 DEF TickAskedUp
  <2>2. CASE tick' = [tick EXCEPT ![g] = Idle]
    <3>1. UNCHANGED stop
      BY <1>4, <2>2 DEF TickAskedUp, Idle
    <3> QED BY <2>1, <2>2, <3>1, TickStepJobs DEF Idle
  <2>3. CASE tick' # [tick EXCEPT ![g] = Idle]
    BY <1>4, <2>1, <2>3, TickStopJobs DEF TickAskedUp
  <2> QED BY <2>2, <2>3
<1>5. ASSUME NEW g \in Gate, TickAskedStarting(g) PROVE JobsOK'
  BY <1>5, TickStepJobs DEF TickAskedStarting, Idle
<1>6. ASSUME NEW g \in Gate, SleepEnds(g) PROVE JobsOK'
  BY <1>6 DEF SleepEnds, Idle, Started, StopReturns
<1>7. ASSUME NEW g \in Gate, RecoverEnds(g) PROVE JobsOK'
  BY <1>7 DEF RecoverEnds, Idle, Started, StopReturns
<1>8. ASSUME NEW g \in Gate, CloseForHours(g) PROVE JobsOK'
  <2>1. hours[g].at = "none" /\ UNCHANGED tick /\ Last(g) \in Time
    BY <1>8, LastIsChange DEF CloseForHours, CloseDue, Closes
  <2>2. CASE UNCHANGED <<hours, stop>>
    BY <2>1, <2>2
  <2>3. CASE BeginClosing(g, Last(g))
    BY <2>1, <2>3 DEF BeginClosing
  <2>4. CASE hours' = [hours EXCEPT ![g] = [at |-> "late", boundary |-> Last(g)]] /\ UNCHANGED stop
    BY <2>1, <2>4
  <2> QED BY <1>8, <2>2, <2>3, <2>4 DEF CloseForHours
<1>9. ASSUME NEW g \in Gate, LateEnds(g) PROVE JobsOK'
  BY <1>9 DEF LateEnds, SetState, BeginClosing
<1>10. ASSUME NEW g \in Gate, CloseEnds(g) PROVE JobsOK'
  BY <1>10 DEF CloseEnds, SetState, NoHours, StopReturns
<1>11. ASSUME NEW g \in Gate, NEW j \in Job, StopConsole(g, j) PROVE JobsOK'
  BY <1>11, StopStepJobs DEF StopConsole
<1>12. ASSUME NEW g \in Gate, NEW j \in Job, StopWaited(g, j) PROVE JobsOK'
  BY <1>12, StopStepJobs DEF StopWaited
<1>13. ASSUME NEW g \in Gate, Restart(g) PROVE JobsOK'
  BY <1>13 DEF Restart, Fault, Idle, NoHours, NoStop
<1>14. ASSUME NEW g \in Gate, OpenForHours(g) \/ Ping(g) \/ UnitStep(g) \/ Unhang(g) \/ UnitCrash(g)
                              \/ UnitHang(g) \/ SwitchOff(g) \/ OpenByHand(g) \/ CloseByHand(g) \/
                              Reload(g) \/ StartByHand(g)
      PROVE  JobsOK'
  <2>1. UNCHANGED <<tick, hours, stop>>
    BY <1>14 DEF OpenForHours, Ping, UnitStep, Unhang, UnitCrash, UnitHang, SwitchOff, OpenByHand,
                 CloseByHand, Reload, StartByHand
  <2> QED BY <2>1
<1>15. ASSUME NEW p \in Player, Join(p) \/ Answered(p) \/ Leave(p)
      PROVE  JobsOK'
  <2>1. UNCHANGED <<tick, hours, stop>>
    BY <1>15 DEF Join, Answered, Leave
  <2> QED BY <2>1
<1>16. CASE Minute
  <2>1. UNCHANGED <<tick, hours, stop>>
    BY <1>16 DEF Minute
  <2> QED BY <2>1
<1>17. CASE UNCHANGED vars
  BY <1>17
<1> QED
  BY <1>1, <1>2, <1>3, <1>4, <1>5, <1>6, <1>7, <1>8, <1>9, <1>10, <1>11, <1>12, <1>13, <1>14, <1>15,
     <1>16, <1>17
     DEF Next, GateNext, TickNext, HoursNext, StopNext, PlayerNext, FaultNext, ActNext

\* The clock, the connections, the units and the files.
LEMMA RestStep == ASSUME TypeOK, [Next]_vars PROVE RestOK'
<1> USE DEF TypeOK, RestOK, Time, Job, vars, gateVars, fileVars
<1>1. ASSUME NEW g \in Gate, TickStatus(g) PROVE RestOK'
  BY <1>1 DEF TickStatus, Idle, ReleaseHolds, Piped
<1>2. ASSUME NEW g \in Gate, TickMiss(g) PROVE RestOK'
  <2>1. place' \in [Player -> Places]
    BY <1>2 DEF TickMiss, FailHolds
  <2>2. unit' \in [Gate -> UnitStates]
    BY <1>2, WakeTypes DEF TickMiss
  <2> QED BY <1>2, <2>1, <2>2 DEF TickMiss
<1>3. ASSUME NEW g \in Gate, TickAskedStarting(g) PROVE RestOK'
  BY <1>3 DEF TickAskedStarting, Idle, SetState, FailHolds
<1>4. ASSUME NEW g \in Gate, SleepEnds(g) PROVE RestOK'
  BY <1>4 DEF SleepEnds, Idle, Started, StopReturns
<1>5. ASSUME NEW g \in Gate, RecoverEnds(g) PROVE RestOK'
  BY <1>5 DEF RecoverEnds, Idle, Started, StopReturns
<1>6. ASSUME NEW g \in Gate, CloseForHours(g) PROVE RestOK'
  <2>1. Last(g) \in Time /\ now \in -1..MaxTime
    BY <1>6, LastIsChange DEF CloseForHours, CloseDue, Closes
  <2>2. UNCHANGED done \/ \E t \in Time : done' = [done EXCEPT ![g].stop = t]
    BY <1>6, <2>1 DEF CloseForHours
  <2>3. UNCHANGED marker \/ marker' = [marker EXCEPT ![g] = now]
    BY <1>6 DEF CloseForHours, BeginClosing
  <2>4. done' \in [Gate -> [stop : Time, start : Time]]
    BY <2>2, DoneStep
  <2>5. marker' \in [Gate -> -1..MaxTime]
    BY <2>1, <2>3
  <2> QED BY <1>6, <2>4, <2>5 DEF CloseForHours
<1>7. ASSUME NEW g \in Gate, LateEnds(g) PROVE RestOK'
  BY <1>7 DEF LateEnds, SetState, BeginClosing
<1>8. ASSUME NEW g \in Gate, CloseEnds(g) PROVE RestOK'
  <2>1. done' \in [Gate -> [stop : Time, start : Time]]
    BY <1>8 DEF CloseEnds
  <2>2. marker' \in [Gate -> -1..MaxTime]
    BY <1>8 DEF CloseEnds
  <2> QED BY <1>8, <2>1, <2>2 DEF CloseEnds
<1>9. ASSUME NEW g \in Gate, OpenForHours(g) PROVE RestOK'
  <2>1. Last(g) \in Time
    BY <1>9, LastIsChange DEF OpenForHours, OpenDue, Opens
  <2>2. done' \in [Gate -> [stop : Time, start : Time]]
    BY <1>9, <2>1 DEF OpenForHours
  <2> QED BY <1>9, <2>2, WakeTypes DEF OpenForHours
<1>10. ASSUME NEW g \in Gate, NEW j \in Job, StopConsole(g, j) PROVE RestOK'
  BY <1>10 DEF StopConsole, Cut, Stopped
<1>11. ASSUME NEW g \in Gate, NEW j \in Job, StopWaited(g, j) PROVE RestOK'
  BY <1>11 DEF StopWaited, Cut, Stopped
<1>12. ASSUME NEW g \in Gate, Ping(g) PROVE RestOK'
  BY <1>12, WakeTypes DEF Ping
<1>13. ASSUME NEW g \in Gate, UnitStep(g) PROVE RestOK'
  BY <1>13 DEF UnitStep
<1>14. ASSUME NEW g \in Gate, Unhang(g) PROVE RestOK'
  BY <1>14 DEF Unhang
<1>15. ASSUME NEW g \in Gate, UnitCrash(g) PROVE RestOK'
  BY <1>15 DEF UnitCrash, Fault, Cut
<1>16. ASSUME NEW g \in Gate, UnitHang(g) PROVE RestOK'
  BY <1>16 DEF UnitHang, Fault
<1>17. ASSUME NEW g \in Gate, Restart(g) PROVE RestOK'
  BY <1>17 DEF Restart, Fault, Idle, NoHours, NoStop
<1>18. ASSUME NEW g \in Gate, SwitchOff(g) PROVE RestOK'
  BY <1>18 DEF SwitchOff, Act
<1>19. ASSUME NEW g \in Gate, OpenByHand(g) PROVE RestOK'
  BY <1>19 DEF OpenByHand, Act
<1>20. ASSUME NEW g \in Gate, CloseByHand(g) PROVE RestOK'
  BY <1>20 DEF CloseByHand, Act
<1>21. ASSUME NEW g \in Gate, Reload(g) PROVE RestOK'
  BY <1>21 DEF Reload, Act
<1>22. ASSUME NEW g \in Gate, StartByHand(g) PROVE RestOK'
  BY <1>22 DEF StartByHand, Act, Started
<1>23. ASSUME NEW p \in Player, Join(p) PROVE RestOK'
  <2>1. place' \in [Player -> Places]
    <3>1. UNCHANGED place \/ \E x \in {"out", "held", "on"} : place' = [place EXCEPT ![p] = x]
      BY <1>23 DEF Join, Piped
    <3> QED BY <3>1
  <2>2. unit' \in [Gate -> UnitStates]
    BY <1>23, WakeTypes DEF Join
  <2> QED BY <1>23, <2>1, <2>2 DEF Join
<1>24. ASSUME NEW p \in Player, Answered(p) PROVE RestOK'
  BY <1>24 DEF Answered, Piped
<1>25. ASSUME NEW p \in Player, Leave(p) PROVE RestOK'
  BY <1>25 DEF Leave
<1>26. CASE Minute
  BY <1>26 DEF Minute, Older
<1>27. ASSUME NEW g \in Gate, TickProbe(g) \/ TickAskedUp(g)
      PROVE  RestOK'
  <2>1. UNCHANGED <<now, place, unit, until, done, marker, acts, faults>>
    BY <1>27 DEF TickProbe, TickAskedUp
  <2> QED BY <2>1
<1>28. CASE UNCHANGED vars
  BY <1>28
<1> QED
  BY <1>1, <1>2, <1>3, <1>4, <1>5, <1>6, <1>7, <1>8, <1>9, <1>10, <1>11, <1>12, <1>13, <1>14, <1>15,
     <1>16, <1>17, <1>18, <1>19, <1>20, <1>21, <1>22, <1>23, <1>24, <1>25, <1>26, <1>27, <1>28
     DEF Next, GateNext, TickNext, HoursNext, StopNext, PlayerNext, FaultNext, ActNext

LEMMA TypeStep == ASSUME TypeOK, [Next]_vars PROVE TypeOK'
BY NumbersStep, FlagsStep, JobsStep, RestStep DEF TypeOK, NumbersOK, FlagsOK, JobsOK, RestOK

-----------------------------------------------------------------------------
\* The invariant.

(* While the probe stops an idle server its gate is not up, so that nobody is    *)
(* piped to it, and nobody was on it or being handed over when the stop began.   *)
Asleep ==
  \A g \in Gate : tick[g].at = "sleep" =>
    state[g] # "up" /\ \A p \in Player : Server[p] = g => place[p] \notin {"on", "releasing"}

(* A closing is under way only with its marker, and never for longer than a stop *)
(* takes: another gate that reads the marker still believes it.                  *)
Closing ==
  \A g \in Gate : hours[g].at = "closing" => marker[g] \in 0..now /\ now - marker[g] <= StopTime

Inv == TypeOK /\ Asleep /\ Closing

\* A step of the probe that leaves it awake.
LEMMA AwakeStep ==
  ASSUME TypeOK, Asleep, NEW g \in Gate, NEW x, x.at # "sleep", tick' = [tick EXCEPT ![g] = x],
         \A h \in Gate : h # g => state'[h] = state[h],
         \A p \in Player : Server[p] # g => place'[p] = place[p]
  PROVE  Asleep'
<1> SUFFICES ASSUME NEW h \in Gate, tick'[h].at = "sleep"
             PROVE  /\ state'[h] # "up"
                    /\ \A p \in Player : Server[p] = h => place'[p] \notin {"on", "releasing"}
  BY DEF Asleep
<1>1. h # g /\ tick'[h] = tick[h]
  BY DEF TypeOK
<1> QED BY <1>1 DEF Asleep

LEMMA AsleepStep == ASSUME TypeOK, Asleep, [Next]_vars PROVE Asleep'
<1> USE DEF TypeOK, Asleep, vars, gateVars, fileVars
<1>1. ASSUME NEW g \in Gate, TickProbe(g) PROVE Asleep'
  BY <1>1, AwakeStep DEF TickProbe
<1>2. ASSUME NEW g \in Gate, TickStatus(g) PROVE Asleep'
  <2>1. \A p \in Player : Server[p] # g => place'[p] = place[p]
    BY <1>2 DEF TickStatus, ReleaseHolds, Held
  <2>2. \A h \in Gate : h # g => state'[h] = state[h]
    BY <1>2 DEF TickStatus
  <2>3. CASE IsIdle(g)
    <3>1. state' = [state EXCEPT ![g] = "stopping"]
          /\ tick' = [tick EXCEPT ![g] = [at |-> "sleep", seen |-> "none"]]
      BY <1>2, <2>3 DEF TickStatus
    <3>2. \A p \in Player : Server[p] = g => place[p] = "out" /\ place'[p] = "out"
      BY <1>2, <2>3 DEF TickStatus, ReleaseHolds, IsIdle, On, Holds, Held
    <3> QED BY <2>1, <3>1, <3>2
  <2>4. CASE ~IsIdle(g)
    <3>1. tick' = [tick EXCEPT ![g] = Idle]
      BY <1>2, <2>4 DEF TickStatus
    <3> QED BY <2>1, <2>2, <3>1, AwakeStep DEF Idle
  <2> QED BY <2>3, <2>4
<1>3. ASSUME NEW g \in Gate, TickMiss(g) PROVE Asleep'
  <2>1. \A p \in Player : Server[p] # g => place'[p] = place[p]
    BY <1>3 DEF TickMiss, FailHolds, Holds
  <2>2. \A h \in Gate : h # g => state'[h] = state[h]
    BY <1>3 DEF TickMiss, Wake
  <2>3. \E x \in [at : {"none", "askedUp", "askedStarting"}, seen : {"none", "active", "inactive"}] :
          tick' = [tick EXCEPT ![g] = x]
    BY <1>3 DEF TickMiss, Idle, Asked
  <2> QED BY <2>1, <2>2, <2>3, AwakeStep
<1>4. ASSUME NEW g \in Gate, TickAskedUp(g) PROVE Asleep'
  <2>1. UNCHANGED place
    BY <1>4 DEF TickAskedUp
  <2>2. \A h \in Gate : h # g => state'[h] = state[h]
    BY <1>4 DEF TickAskedUp, SetState
  <2>3. \E x \in [at : {"none", "recover"}, seen : {"none"}] : tick' = [tick EXCEPT ![g] = x]
    BY <1>4 DEF TickAskedUp, Idle
  <2> QED BY <2>1, <2>2, <2>3, AwakeStep
<1>5. ASSUME NEW g \in Gate, TickAskedStarting(g) PROVE Asleep'
  <2>1. \A p \in Player : Server[p] # g => place'[p] = place[p]
    BY <1>5 DEF TickAskedStarting, FailHolds, Holds
  <2>2. \A h \in Gate : h # g => state'[h] = state[h]
    BY <1>5 DEF TickAskedStarting, SetState
  <2> QED BY <1>5, <2>1, <2>2, AwakeStep DEF TickAskedStarting, Idle
<1>6. ASSUME NEW g \in Gate, SleepEnds(g) \/ RecoverEnds(g) PROVE Asleep'
  BY <1>6, AwakeStep DEF SleepEnds, RecoverEnds, Idle
<1>7. ASSUME NEW g \in Gate, CloseForHours(g) \/ LateEnds(g) \/ CloseEnds(g) PROVE Asleep'
  BY <1>7 DEF CloseForHours, LateEnds, CloseEnds, BeginClosing, SetState
<1>8. ASSUME NEW g \in Gate, OpenForHours(g) \/ Ping(g) PROVE Asleep'
  BY <1>8 DEF OpenForHours, Ping, Wake
<1>9. ASSUME NEW g \in Gate, StopNext(g) \/ UnitCrash(g) PROVE Asleep'
  BY <1>9 DEF StopNext, StopConsole, StopWaited, UnitCrash, Cut
<1>10. ASSUME NEW g \in Gate, UnitStep(g) \/ Unhang(g) \/ UnitHang(g) \/ ActNext(g) PROVE Asleep'
  BY <1>10 DEF UnitStep, Unhang, UnitHang, ActNext, SwitchOff, OpenByHand, CloseByHand,
              Reload, StartByHand
<1>11. ASSUME NEW g \in Gate, Restart(g) PROVE Asleep'
  BY <1>11 DEF Restart, Idle
<1>12. ASSUME NEW q \in Player, Join(q) PROVE Asleep'
  BY <1>12 DEF Join, Wake
<1>13. ASSUME NEW q \in Player, Answered(q) \/ Leave(q) PROVE Asleep'
  BY <1>13 DEF Answered, Leave
<1>14. CASE Minute
  BY <1>14 DEF Minute
<1>15. CASE UNCHANGED vars
  BY <1>15
<1> QED
  <2> HIDE DEF TypeOK, Asleep
  <2> QED BY <1>1, <1>2, <1>3, <1>4, <1>5, <1>6, <1>7, <1>8, <1>9, <1>10, <1>11, <1>12, <1>13,
             <1>14, <1>15
          DEF Next, GateNext, TickNext, HoursNext, FaultNext, PlayerNext

LEMMA ClosingStep == ASSUME TypeOK, Closing, [Next]_vars PROVE Closing'
<1> USE DEF TypeOK, Time, Closing, vars, gateVars, fileVars
<1>1. ASSUME NEW g \in Gate, TickNext(g) \/ StopNext(g) \/ Ping(g) \/ OpenForHours(g) PROVE Closing'
  <2>1. UNCHANGED <<now, hours, marker>>
    BY <1>1 DEF TickNext, TickProbe, TickStatus, TickMiss, TickAskedUp, TickAskedStarting, SleepEnds,
                RecoverEnds, StopNext, StopConsole, StopWaited, Ping, OpenForHours
  <2> QED BY <2>1
<1>2. ASSUME NEW g \in Gate, CloseForHours(g) PROVE Closing'
  <2>1. CASE BeginClosing(g, Last(g))
    BY <1>2, <2>1 DEF CloseForHours, BeginClosing
  <2>2. CASE /\ UNCHANGED marker
             /\ \E x \in [at : {"none", "late"}, boundary : {Last(g)}] :
                  hours' = [hours EXCEPT ![g] = x]
    BY <1>2, <2>2 DEF CloseForHours
  <2>3. CASE UNCHANGED <<marker, hours>>
    BY <1>2, <2>3 DEF CloseForHours
  <2> QED
    <3> HIDE DEF Closing
    <3> QED BY <1>2, <2>1, <2>2, <2>3 DEF CloseForHours
<1>3. ASSUME NEW g \in Gate, LateEnds(g) PROVE Closing'
  BY <1>3 DEF LateEnds, BeginClosing
<1>4. ASSUME NEW g \in Gate, CloseEnds(g) PROVE Closing'
  BY <1>4 DEF CloseEnds, NoHours
<1>5. ASSUME NEW g \in Gate, UnitStep(g) \/ Unhang(g) \/ UnitCrash(g) \/ UnitHang(g) \/ ActNext(g)
      PROVE  Closing'
  <2>1. UNCHANGED <<now, hours, marker>>
    BY <1>5 DEF UnitStep, Unhang, UnitCrash, UnitHang, ActNext, SwitchOff, OpenByHand, CloseByHand,
                Reload, StartByHand
  <2> QED BY <2>1
<1>6. ASSUME NEW g \in Gate, Restart(g) PROVE Closing'
  BY <1>6 DEF Restart, NoHours
<1>7. ASSUME NEW p \in Player, PlayerNext(p) PROVE Closing'
  <2>1. UNCHANGED <<now, hours, marker>>
    BY <1>7 DEF PlayerNext, Join, Answered, Leave
  <2> QED BY <2>1
<1>8. CASE Minute
  BY <1>8 DEF Minute
<1>9. CASE UNCHANGED vars
  BY <1>9
<1> QED
  <2> HIDE DEF TypeOK, Closing
  <2> QED BY <1>1, <1>2, <1>3, <1>4, <1>5, <1>6, <1>7, <1>8, <1>9 DEF Next, GateNext, HoursNext, FaultNext

LEMMA InitInv == Init => Inv
<1> SUFFICES ASSUME Init PROVE Inv
  OBVIOUS
<1>1. TypeOK
  BY PatienceNat DEF Init, TypeOK, Time, Job, Idle, NoHours, NoStop
<1>2. Asleep /\ Closing
  BY DEF Init, Asleep, Closing, Idle, NoHours
<1> QED BY <1>1, <1>2 DEF Inv

(* Types, idle stops and closings, through every step of gates, machine and        *)
(* administrators.                                                                 *)
THEOREM Invariance == Spec => []Inv
<1>1. Inv /\ [Next]_vars => Inv'
  BY TypeStep, AsleepStep, ClosingStep DEF Inv
<1> QED BY InitInv, <1>1, PTL DEF Spec

(* Every variable of the gates, their files and units keeps its range.             *)
THEOREM TypeCorrect == Spec => []TypeOK
<1>1. Inv => TypeOK
  BY DEF Inv
<1> QED BY Invariance, <1>1, PTL

-----------------------------------------------------------------------------
\* The three action properties.

StopStep ==
  \A g \in Gate : On(g) # {} /\ unit[g] = "running" /\ unit'[g] \in {"saving", "leaving"} =>
    hours[g].at = "closing" \/ tick[g].at = "recover"

LEMMA StopsAllowed == ASSUME Inv, [Next]_vars PROVE StopStep
<1> SUFFICES ASSUME NEW h \in Gate, On(h) # {}, unit[h] = "running", unit'[h] \in {"saving", "leaving"}
             PROVE  hours[h].at = "closing" \/ tick[h].at = "recover"
  BY DEF StopStep
<1>1. PICK j \in Job : StopConsole(h, j) \/ StopWaited(h, j)
  <2> USE DEF Inv, TypeOK, vars, gateVars, fileVars
  <2>1. ASSUME NEW g \in Gate, StopNext(g) PROVE g = h
    BY <2>1 DEF StopNext, StopConsole, StopWaited
  <2>2. ASSUME NEW g \in Gate, TickNext(g) \/ HoursNext(g) \/ Ping(g) PROVE FALSE
    BY <2>2 DEF TickNext, TickProbe, TickStatus, TickMiss, TickAskedUp, TickAskedStarting, SleepEnds,
                RecoverEnds, HoursNext, CloseForHours, LateEnds, CloseEnds, OpenForHours, Ping, Wake, Started
  <2>3. ASSUME NEW g \in Gate, UnitStep(g) \/ Unhang(g) \/ FaultNext(g) \/ ActNext(g) PROVE FALSE
    BY <2>3 DEF UnitStep, Unhang, FaultNext, UnitCrash, UnitHang, Restart, ActNext, SwitchOff, OpenByHand,
                CloseByHand, Reload, StartByHand, Started
  <2>4. ASSUME NEW p \in Player, PlayerNext(p) PROVE FALSE
    BY <2>4 DEF PlayerNext, Join, Answered, Leave, Wake, Started
  <2>5. ~Minute /\ ~UNCHANGED vars
    BY DEF Minute
  <2> HIDE DEF Inv, TypeOK, vars
  <2> QED BY <2>1, <2>2, <2>3, <2>4, <2>5 DEF Next, GateNext, StopNext
<1>2. stop[h][j] # "none"
  BY <1>1 DEF StopConsole, StopWaited
<1>3. CASE j = "hours"
  BY <1>2, <1>3 DEF Inv, TypeOK
<1>4. CASE j = "tick"
  <2>1. tick[h].at \in {"sleep", "recover"}
    BY <1>2, <1>4 DEF Inv, TypeOK
  <2>2. tick[h].at # "sleep"
    BY DEF Inv, Asleep, On
  <2> QED BY <2>1, <2>2
<1> QED BY <1>3, <1>4 DEF Job

(* A running server goes down under a player only for the end of its hours or when *)
(* recover starts it over: stopServer is reached by maybeSleep, recover and the closing, and while   *)
(* the first waits nobody can come in (server-gate.mjs, maybeSleep and join).      *)
THEOREM NobodyStopped == Spec => NoStopUnderPlayers
<1>1. Inv /\ [Next]_vars => StopStep
  BY StopsAllowed
<1> QED BY Invariance, <1>1, PTL DEF Spec, NoStopUnderPlayers, StopStep

WakeStep == \A g \in Gate : Starts(g) => CanWake(g) \/ acts' # acts \/ tick[g].at = "recover"

LEMMA WakesAllowed == ASSUME Inv, [Next]_vars PROVE WakeStep
<1> SUFFICES ASSUME NEW h \in Gate, Starts(h), acts' = acts
             PROVE  CanWake(h) \/ tick[h].at = "recover"
  BY DEF WakeStep
<1> USE DEF Inv, TypeOK, vars, gateVars, fileVars, Starts
<1>1. ASSUME NEW g \in Gate, TickNext(g) PROVE CanWake(h) \/ tick[h].at = "recover"
  <2>1. CASE TickProbe(g) \/ TickStatus(g) \/ TickAskedUp(g) \/ TickAskedStarting(g)
    <3>1. UNCHANGED unit
      BY <2>1 DEF TickProbe, TickStatus, TickAskedUp, TickAskedStarting
    <3> QED BY <3>1
  <2>2. CASE TickMiss(g) \/ SleepEnds(g)
    BY <2>2 DEF TickMiss, SleepEnds, WakesAfterStop, Wake
  <2>3. CASE RecoverEnds(g)
    BY <2>3 DEF RecoverEnds
  <2> QED BY <1>1, <2>1, <2>2, <2>3 DEF TickNext
<1>2. ASSUME NEW g \in Gate, HoursNext(g) \/ Ping(g) PROVE CanWake(h)
  BY <1>2 DEF HoursNext, CloseForHours, LateEnds, CloseEnds, OpenForHours, Ping, Wake
<1>3. ASSUME NEW g \in Gate, StopNext(g) PROVE FALSE
  <2>1. unit'[h] \in {unit[h], "saving", "leaving"}
    BY <1>3 DEF StopNext, StopConsole, StopWaited, Stopped
  <2> QED BY <2>1
<1>4. ASSUME NEW g \in Gate, UnitStep(g) \/ Unhang(g) \/ FaultNext(g) PROVE FALSE
  BY <1>4 DEF UnitStep, Unhang, FaultNext, UnitCrash, UnitHang, Restart
<1>5. ASSUME NEW g \in Gate, ActNext(g) PROVE FALSE
  BY <1>5 DEF ActNext, SwitchOff, OpenByHand, CloseByHand, Reload, StartByHand, Act
<1>6. ASSUME NEW p \in Player, PlayerNext(p) PROVE CanWake(h)
  BY <1>6 DEF PlayerNext, Join, Answered, Leave, Wake
<1>7. ~Minute /\ ~UNCHANGED vars
  BY DEF Minute
<1> HIDE DEF Inv, TypeOK, vars, Starts
<1> QED BY <1>1, <1>2, <1>3, <1>4, <1>5, <1>6, <1>7 DEF Next, GateNext

(* Every start of a gate has looked at the hours and the switch in the same step,  *)
(* also the one remembered while stopping (wake, canWake, maybeSleep); only the     *)
(* start at the end of recover looks at neither, after a hang or when a closing     *)
(* begun during isActive has reset unansweredSince.                                *)
THEOREM WokenInHours == Spec => WakesInHours
<1>1. Inv /\ [Next]_vars => WakeStep
  BY WakesAllowed
<1> QED BY Invariance, <1>1, PTL DEF Spec, WakesInHours, WakeStep

OpenStep ==
  \A g, h \in Gate : g # h /\ done'[g].start # done[g].start /\ unit'[g] # unit[g] =>
    hours[h].at # "closing"

LEMMA OpensAllowed == ASSUME Inv, [Next]_vars PROVE OpenStep
<1> SUFFICES ASSUME NEW g \in Gate, NEW h \in Gate, g # h, done'[g].start # done[g].start,
                    hours[h].at = "closing"
             PROVE  FALSE
  BY DEF OpenStep
<1>1. OpenForHours(g)
  <2> USE DEF Inv, TypeOK, vars, gateVars, fileVars
  <2>1. ASSUME NEW f \in Gate, OpenForHours(f) PROVE f = g
    BY <2>1 DEF OpenForHours
  <2>2. ASSUME NEW f \in Gate, TickNext(f) \/ StopNext(f) \/ Ping(f) PROVE FALSE
    BY <2>2 DEF TickNext, TickProbe, TickStatus, TickMiss, TickAskedUp, TickAskedStarting, SleepEnds,
                RecoverEnds, StopNext, StopConsole, StopWaited, Ping
  <2>3. ASSUME NEW f \in Gate, CloseForHours(f) \/ LateEnds(f) \/ CloseEnds(f) PROVE FALSE
    <3>1. CASE CloseForHours(f)
      <4>1. UNCHANGED done \/ done' = [done EXCEPT ![f].stop = Last(f)]
        BY <3>1 DEF CloseForHours
      <4>2. done[f] = [stop |-> done[f].stop, start |-> done[f].start]
        OBVIOUS
      <4>3. CASE done' = [done EXCEPT ![f].stop = Last(f)]
        <5>1. done'[g] = IF f = g THEN [done[g] EXCEPT !.stop = Last(f)] ELSE done[g]
          BY <4>3
        <5> QED BY <4>2, <5>1
      <4> QED BY <4>1, <4>3
    <3>2. CASE LateEnds(f)
      BY <3>2 DEF LateEnds
    <3>3. CASE CloseEnds(f)
      BY <3>3 DEF CloseEnds
    <3> QED BY <2>3, <3>1, <3>2, <3>3
  <2>4. ASSUME NEW f \in Gate, UnitStep(f) \/ Unhang(f) \/ FaultNext(f) \/ ActNext(f) PROVE FALSE
    BY <2>4 DEF UnitStep, Unhang, FaultNext, UnitCrash, UnitHang, Restart, ActNext, SwitchOff, OpenByHand,
                CloseByHand, Reload, StartByHand
  <2>5. ASSUME NEW p \in Player, PlayerNext(p) PROVE FALSE
    BY <2>5 DEF PlayerNext, Join, Answered, Leave
  <2>6. ~Minute /\ ~UNCHANGED vars
    BY DEF Minute
  <2> HIDE DEF Inv, TypeOK, vars
  <2> QED BY <2>1, <2>2, <2>3, <2>4, <2>5, <2>6 DEF Next, GateNext, HoursNext
<1>2. ~OtherGateStopping(g)
  BY <1>1 DEF OpenForHours, OpenDue
<1>3. marker[h] \in 0..now /\ now - marker[h] <= StopTime
  BY DEF Inv, Closing
<1>4. now \in Nat /\ StopTime < OtherStopMax /\ StopTime \in Nat /\ OtherStopMax \in Nat
  BY DEF Inv, TypeOK, Time
<1>5. marker[h] # -1 /\ now - marker[h] < OtherStopMax
  BY <1>3, <1>4
<1> QED BY <1>2, <1>5 DEF OtherGateStopping

(* No opening starts its server while another gate's closing stops one: the marker *)
(* is younger than otherStopMaxMs for as long as a stop takes (otherGateStopping). *)
THEOREM OpensAlone == Spec => OpensAfterClosing
<1>1. Inv /\ [Next]_vars => OpenStep
  BY OpensAllowed
<1> QED BY Invariance, <1>1, PTL DEF Spec, OpensAfterClosing, OpenStep

=============================================================================
