------------------------------- MODULE Launch -------------------------------
(***************************************************************************)
(* Starting the game: the handler of game:launch from the press of Play to *)
(* the exit of the game, the pack sync and the game files beside it, the   *)
(* token it fetches ahead and the calls that retire it, the player who     *)
(* signs out, and the install move that launches exclude.                  *)
(*                                                                         *)
(* Everything between two awaits of the main process is one step.          *)
(***************************************************************************)
EXTENDS InstallMove, FiniteSets

CONSTANTS
  MaxRuns,     \* bound: launches
  MaxSessions, \* bound: sign-ins
  MaxFailures, \* bound: failures of jobs, calls and steps of a launch
  NoRun

ASSUME LaunchAssumption ==
  /\ {MaxRuns, MaxFailures} \subseteq Nat /\ MaxSessions \in Nat \ {0}
  /\ NoRun \notin 1..MaxRuns

Run == 1..MaxRuns
Job == {"sync", "prepare"}

VARIABLES
  state,     \* gameStatus.state
  runId,     \* gameRunId
  pc,        \* the handler of each launch
  jobs,      \* the pack sync and the game files of each launch that still run
  ready,     \* whether a job failed: "wait" or "failed"
  leftover,  \* leftoverWork: the launch whose jobs the next one waits for
  proc,      \* the game of each launch
  auth,      \* authorization: the call for the token, with its two statements
  ticket,    \* the session each call for a token was made with
  retires,   \* a failed launch retires its token as soon as it has one
  session,   \* sessionUser's session, 0 when signed out
  sessions,  \* sessions so far
  tokens,    \* launcher_game_auth_tokens: launch and session of each
  revokes,   \* revokeGameAuth calls on their way, by session
  kept,      \* launches whose token no call is left to retire
  failures

runVars == <<state, runId, pc, jobs, ready, leftover, proc>>
authVars == <<auth, ticket, retires, session, sessions, tokens, revokes, kept>>
vars == <<runVars, authVars, failures, moveVars>>

HandlerPc == {"none", "leftover", "manifest", "files", "content", "install", "spawned", "done"}
Call == {"none", "sent", "retired", "issued", "got", "ready", "failed"}
Token == [run : Run, session : 1..MaxSessions]

TypeOK ==
  /\ MoveTypeOK
  /\ state \in {"idle", "starting", "running"} /\ runId \in 0..MaxRuns
  /\ pc \in [Run -> HandlerPc] /\ jobs \in [Run -> SUBSET Job] /\ ready \in [Run -> {"wait", "failed"}]
  /\ leftover \in Run \cup {NoRun} /\ proc \in [Run -> {"none", "alive", "gone"}]
  /\ auth \in [Run -> Call] /\ ticket \in [Run -> 0..MaxSessions] /\ retires \subseteq Run
  /\ session \in 0..MaxSessions /\ sessions \in 0..MaxSessions
  /\ tokens \subseteq Token /\ revokes \in [1..MaxSessions -> Nat] /\ kept \subseteq Run
  /\ failures \in 0..MaxFailures

Init ==
  /\ state = "idle" /\ runId = 0
  /\ pc = [r \in Run |-> "none"] /\ jobs = [r \in Run |-> {}] /\ ready = [r \in Run |-> "wait"]
  /\ leftover = NoRun /\ proc = [r \in Run |-> "none"]
  /\ auth = [r \in Run |-> "none"] /\ ticket = [r \in Run |-> 0] /\ retires = {}
  /\ session = 1 /\ sessions = 1 /\ tokens = {} /\ revokes = [s \in 1..MaxSessions |-> 0]
  /\ kept = {} /\ failures = 0
  /\ MoveInit

Fault == failures < MaxFailures /\ failures' = failures + 1

\* invokeFunction with the stored session: without one there is no call.
Revokes == IF session = 0 THEN revokes ELSE [revokes EXCEPT ![session] = @ + 1]

\* A token of a session that was signed out opens nothing.
Works(t) == t.session = session

-----------------------------------------------------------------------------
\* game:launch refuses a second launch and one beside a move.
Press ==
  /\ state = "idle" /\ ~Moving /\ runId < MaxRuns
  /\ runId' = runId + 1 /\ state' = "starting"
  /\ pc' = [pc EXCEPT ![runId'] = "leftover"]
  /\ UNCHANGED <<jobs, ready, leftover, proc, authVars, failures, moveVars>>

\* Mutant: the next launch does not wait.
LeftoverIgnored(r) ==
  /\ pc[r] = "leftover"
  /\ leftover' = NoRun
  /\ pc' = [pc EXCEPT ![r] = "manifest"]
  /\ UNCHANGED <<state, runId, jobs, ready, proc, authVars, failures, moveVars>>

\* What a failed launch left running is waited for, however it ends.
LeftoverDone(r) ==
  /\ pc[r] = "leftover"
  /\ leftover # NoRun => jobs[leftover] = {}
  /\ leftover' = NoRun
  /\ pc' = [pc EXCEPT ![r] = "manifest"]
  /\ UNCHANGED <<state, runId, jobs, ready, proc, authVars, failures, moveVars>>

\* The server is asked, the manifest is here and checked: both jobs and the token start.
ManifestArrives(r) ==
  /\ pc[r] = "manifest" /\ session # 0
  /\ jobs' = [jobs EXCEPT ![r] = Job]
  /\ auth' = [auth EXCEPT ![r] = "sent"] /\ ticket' = [ticket EXCEPT ![r] = session]
  /\ pc' = [pc EXCEPT ![r] = "files"]
  /\ UNCHANGED <<state, runId, ready, leftover, proc, retires, session, sessions, tokens, revokes,
                 kept, failures, moveVars>>

JobEnds(r, j) ==
  /\ j \in jobs[r]
  /\ jobs' = [jobs EXCEPT ![r] = @ \ {j}]
  /\ \/ UNCHANGED <<ready, failures>>
     \/ Fault /\ ready' = [ready EXCEPT ![r] = "failed"]
  /\ UNCHANGED <<state, runId, pc, leftover, proc, authVars, moveVars>>

FilesReady(r) ==
  /\ pc[r] = "files" /\ jobs[r] = {} /\ ready[r] = "wait"
  /\ pc' = [pc EXCEPT ![r] = "content"]
  /\ UNCHANGED <<state, runId, jobs, ready, leftover, proc, authVars, failures, moveVars>>

\* The player's own files are put in place, and the connection guard.
ContentReady(r) ==
  /\ pc[r] = "content"
  /\ pc' = [pc EXCEPT ![r] = "install"]
  /\ UNCHANGED <<state, runId, jobs, ready, leftover, proc, authVars, failures, moveVars>>

\* installAndLaunch: the last libraries, the token, the process.
Spawn(r) ==
  /\ pc[r] = "install" /\ auth[r] = "ready"
  /\ proc' = [proc EXCEPT ![r] = "alive"]
  /\ pc' = [pc EXCEPT ![r] = "spawned"]
  /\ UNCHANGED <<state, runId, jobs, ready, leftover, authVars, failures, moveVars>>

\* The handler goes on after the spawn; the game may be gone again by then.
Returned(r) ==
  /\ pc[r] = "spawned"
  /\ pc' = [pc EXCEPT ![r] = "done"]
  /\ state' = IF runId = r /\ state = "starting" THEN "running" ELSE state
  /\ UNCHANGED <<runId, jobs, ready, leftover, proc, authVars, failures, moveVars>>

\* Mutant: the last step waits for a token that will not come.
FailingBefore(r) ==
  \/ pc[r] = "manifest" /\ (Fault \/ (session = 0 /\ UNCHANGED failures))
  \/ pc[r] = "files" /\ ready[r] = "failed" /\ UNCHANGED failures
  \/ pc[r] \in {"content", "install"} /\ Fault

\* Whether this launch fails at this step.
Failing(r) ==
  \/ pc[r] = "manifest" /\ (Fault \/ (session = 0 /\ UNCHANGED failures))
  \/ pc[r] = "files" /\ ready[r] = "failed" /\ UNCHANGED failures
  \/ pc[r] \in {"content", "install"} /\ Fault
  \/ pc[r] = "install" /\ auth[r] = "failed" /\ UNCHANGED failures

\* Mutant: only a token that is here is retired, not one on its way.
LaunchFailsNow(r) ==
  /\ Failing(r)
  /\ pc' = [pc EXCEPT ![r] = "done"]
  /\ leftover' = IF pc[r] = "manifest" THEN leftover ELSE r
  /\ state' = IF runId = r THEN "idle" ELSE state
  /\ revokes' = IF auth[r] = "ready" THEN Revokes ELSE revokes
  /\ UNCHANGED <<runId, jobs, ready, proc, auth, ticket, retires, session, sessions, tokens, kept,
                 moveVars>>

\* The catch of the handler: what still runs is left for the next launch, and a token that
\* is here or on its way is retired by whoever is signed in.
LaunchFails(r) ==
  /\ Failing(r)
  /\ pc' = [pc EXCEPT ![r] = "done"]
  /\ leftover' = IF pc[r] = "manifest" THEN leftover ELSE r
  /\ state' = IF runId = r THEN "idle" ELSE state
  /\ IF session # 0 /\ auth[r] = "ready"
     THEN revokes' = Revokes /\ UNCHANGED retires
     ELSE /\ retires' = IF session # 0 /\ auth[r] # "none" THEN retires \cup {r} ELSE retires
          /\ UNCHANGED revokes
  /\ UNCHANGED <<runId, jobs, ready, proc, auth, ticket, session, sessions, tokens, kept, moveVars>>

\* minecraft-exit: the status is this run's only while no later one began; the token goes.
Exit(r) ==
  /\ proc[r] = "alive"
  /\ proc' = [proc EXCEPT ![r] = "gone"]
  /\ state' = IF runId = r THEN "idle" ELSE state
  /\ revokes' = Revokes
  /\ UNCHANGED <<runId, pc, jobs, ready, leftover, auth, ticket, retires, session, sessions, tokens,
                 kept, failures, moveVars>>

-----------------------------------------------------------------------------
AuthStep(r, from, to) == auth[r] = from /\ auth' = [auth EXCEPT ![r] = to]

\* gameAuth: the account's tokens go, in a statement of its own, then the new one comes.
RetireOld(r) ==
  /\ AuthStep(r, "sent", "retired") /\ ticket[r] = session
  /\ tokens' = {}
  /\ UNCHANGED <<runVars, ticket, retires, session, sessions, revokes, kept, failures, moveVars>>

Issue(r) ==
  /\ AuthStep(r, "retired", "issued")
  /\ tokens' = tokens \cup {[run |-> r, session |-> ticket[r]]}
  /\ UNCHANGED <<runVars, ticket, retires, session, sessions, revokes, kept, failures, moveVars>>

\* The answer is here; the addresses of the login server and the agent's file follow.
Answered(r) ==
  /\ AuthStep(r, "issued", "got")
  /\ UNCHANGED <<runVars, ticket, retires, session, sessions, tokens, revokes, kept, failures, moveVars>>

\* authorizing resolves; the launch may have failed in the meantime.
Authorized(r) ==
  /\ AuthStep(r, "got", "ready")
  /\ retires' = retires \ {r}
  /\ revokes' = IF r \in retires THEN Revokes ELSE revokes
  /\ UNCHANGED <<runVars, ticket, session, sessions, tokens, kept, failures, moveVars>>

\* The call or what follows it fails, and authorizing with it: nobody retires a token by then issued.
AuthFails(r) ==
  /\ auth[r] \in {"sent", "retired", "issued", "got"}
  /\ \/ Fault
     \/ auth[r] = "sent" /\ ticket[r] # session /\ UNCHANGED failures
  /\ auth' = [auth EXCEPT ![r] = "failed"]
  /\ retires' = retires \ {r}
  /\ kept' = IF auth[r] \in {"issued", "got"} THEN kept \cup {r} ELSE kept
  /\ UNCHANGED <<runVars, ticket, session, sessions, tokens, revokes, moveVars>>

\* revokeGameAuth deletes every token of the account, for a session that still lives.
RevokeLands(s) ==
  /\ revokes[s] > 0
  /\ revokes' = [revokes EXCEPT ![s] = @ - 1]
  /\ \/ tokens' = (IF s = session THEN {} ELSE tokens) /\ UNCHANGED <<kept, failures>>
     \/ Fault /\ kept' = kept \cup {t.run : t \in tokens} /\ UNCHANGED tokens
  /\ UNCHANGED <<runVars, auth, ticket, retires, session, sessions, moveVars>>

SignOut ==
  /\ session # 0
  /\ session' = 0
  /\ UNCHANGED <<runVars, auth, ticket, retires, sessions, tokens, revokes, kept, failures, moveVars>>

SignIn ==
  /\ session = 0 /\ sessions < MaxSessions
  /\ sessions' = sessions + 1 /\ session' = sessions'
  /\ UNCHANGED <<runVars, auth, ticket, retires, tokens, revokes, kept, failures, moveVars>>

-----------------------------------------------------------------------------
\* install:move refuses while the game is on or being started.
MoveBegins == state = "idle" /\ MoveStart /\ UNCHANGED <<runVars, authVars, failures>>

MoveGoesOn == MoveStep /\ UNCHANGED <<runVars, authVars, failures>>

\* The launcher is closed during a move, with no launch under way.
LauncherCloses ==
  /\ state = "idle" /\ \A r \in Run : jobs[r] = {} /\ pc[r] \in {"none", "done"}
  /\ MoveForgotten
  /\ UNCHANGED <<runVars, authVars, failures>>

HandlerStep(r) ==
  \/ LeftoverDone(r) \/ ManifestArrives(r) \/ FilesReady(r) \/ ContentReady(r) \/ Spawn(r)
  \/ Returned(r) \/ LaunchFails(r)

CallStep(r) == RetireOld(r) \/ Issue(r) \/ Answered(r) \/ Authorized(r) \/ AuthFails(r)

Next ==
  \/ Press
  \/ \E r \in Run : HandlerStep(r) \/ CallStep(r) \/ Exit(r) \/ \E j \in Job : JobEnds(r, j)
  \/ \E s \in 1..MaxSessions : RevokeLands(s)
  \/ SignOut \/ SignIn
  \/ MoveBegins \/ MoveGoesOn \/ LauncherCloses

Spec == Init /\ [][Next]_vars

\* Every await of a launch is a download or a call with a time limit, or a local file.
FairSpec ==
  /\ Spec
  /\ \A r \in Run : /\ WF_vars(HandlerStep(r)) /\ WF_vars(CallStep(r))
                    /\ WF_vars(\E j \in Job : JobEnds(r, j))

-----------------------------------------------------------------------------
Writes(r) == jobs[r] # {} \/ pc[r] \in {"content", "install"} \/ proc[r] = "alive"

\* Two launches never have their hands on the pack at the same time, a game that runs
\* included (launch-progress.ts: "so two runs never write the same files").
OneRunWrites == \A r, q \in Run : Writes(r) /\ Writes(q) => r = q

\* A token fetched ahead does not outlive its launch: when nothing is under way, none works
\* but one whose retiring call or whose own launch failed after it was issued.
NoTokenLeft ==
  /\ \A r \in Run : pc[r] \in {"none", "done"} /\ proc[r] # "alive" /\ auth[r] \in {"none", "ready", "failed"}
  /\ \A s \in 1..MaxSessions : revokes[s] = 0
  => \A t \in tokens : Works(t) => t.run \in kept

\* Whatever fails, a launch ends in a game or back at idle.
LaunchEnds == state = "starting" ~> state # "starting"

=============================================================================
