---------------------------- MODULE HostCallers ----------------------------
(***************************************************************************)
(* The coordinator under any callers: every agent session may poll for its *)
(* node with or without a claim, report any copy and release any epoch,    *)
(* and administrators submit what their panel last read.  Nothing else is  *)
(* assumed of the agents, so what holds here rests on the SQL alone.       *)
(***************************************************************************)
EXTENDS HostControl

CONSTANTS
  Administrator,
  Home     \* the node whose agent drew each session's random UUID

ASSUME HomeAssumption == Home \in [Session -> Node]

VARIABLES
  panel,    \* the form of each administrator's hosting panel, and what it shows
  promise,  \* history: for how long each session still holds a grant it was given
  silence   \* history: how long ago the last grant ran out, as far as a takeover asks

callerVars == <<panel, promise, silence>>
coordinationVars == <<controlVars, callerVars>>

\* Form and revision are read once or on demand; the state is refreshed by itself.
Panel == [revision : 1..MaxRevision, policy : Policy, owner : Node,
          requested : Node \cup {NoNode}]

CallersTypeOK ==
  /\ ControlTypeOK
  /\ panel \in [Administrator -> Panel]
  /\ promise \in [Session -> 0..LeaseTime]
  /\ silence \in 0..MinFailure

CallersInit ==
  /\ ControlInit
  /\ panel = [a \in Administrator |-> [revision |-> revision, policy |-> policy,
                                       owner |-> owner, requested |-> requested]]
  /\ promise = [s \in Session |-> 0]
  /\ silence = 0

AgentPoll(s, claim) ==
  /\ Poll(Home[s], s, claim)
  /\ promise' = IF Granted(Home[s], s, claim)
                THEN [promise EXCEPT ![s] = LeaseTime] ELSE promise
  /\ silence' = IF Granted(Home[s], s, claim) THEN 0 ELSE silence
  /\ UNCHANGED panel

AgentSnapshot(n, src, e, age, id) ==
  /\ RecordSnapshot(n, src, e, age, id)
  /\ UNCHANGED callerVars

\* A successful release gives up what is left of the caller's grant: nobody need wait for it.
AgentRelease(s, e) ==
  /\ Release(Home[s], s, e)
  /\ promise' = IF Releases(Home[s], s, e) THEN [promise EXCEPT ![s] = 0] ELSE promise
  /\ silence' = IF Releases(Home[s], s, e) THEN MinFailure ELSE silence
  /\ UNCHANGED panel

\* Every 15 seconds, and with the answer of a switch: what the panel shows.
Shows(a) == panel' = [panel EXCEPT ![a].owner = owner', ![a].requested = requested']

\* The form is filled too on the first read, on a reload and with the answer of a save.
Fills(a) ==
  panel' = [panel EXCEPT ![a] = [revision |-> revision', policy |-> policy',
                                 owner |-> owner', requested |-> requested']]

PanelRead(a) ==
  /\ UNCHANGED <<controlVars, promise, silence>>
  /\ Shows(a) \/ Fills(a)

\* Saving sends the form with the revision read with it.
PanelConfigure(a, p) ==
  /\ Configure(p, panel[a].revision)
  /\ Fills(a)
  /\ UNCHANGED <<promise, silence>>

\* The switch button of the node that is not shown as active.
PanelSwitch(a) ==
  /\ panel[a].requested = NoNode
  /\ Switch(Other(panel[a].owner))
  /\ Shows(a)
  /\ UNCHANGED <<promise, silence>>

\* The cancel button sends a switch to the node that is shown as active.
PanelCancel(a) ==
  /\ panel[a].requested # NoNode
  /\ Switch(panel[a].owner)
  /\ Shows(a)
  /\ UNCHANGED <<promise, silence>>

CallersTick ==
  /\ ControlTick
  /\ promise' = [s \in Session |-> IF promise[s] = 0 THEN 0 ELSE promise[s] - 1]
  /\ silence' = IF silence = MinFailure \/ \E s \in Session : promise[s] > 0
                THEN silence ELSE silence + 1
  /\ UNCHANGED panel

AgentNext(s) ==
  \/ \E claim \in BOOLEAN : AgentPoll(s, claim)
  \/ \E e \in 1..MaxEpoch : AgentRelease(s, e)

CopyNext(n) ==
  \E e \in 1..MaxEpoch, age \in 0..MaxAge, id \in Content :
    AgentSnapshot(n, Other(n), e, age, id)

AdminNext(a) ==
  \/ PanelRead(a) \/ PanelSwitch(a) \/ PanelCancel(a)
  \/ \E p \in Policies : PanelConfigure(a, p)

CallersNext ==
  \/ \E s \in Session : AgentNext(s)
  \/ \E n \in Node : CopyNext(n)
  \/ \E a \in Administrator : AdminNext(a)
  \/ CallersTick

CallersSpec == CallersInit /\ [][CallersNext]_coordinationVars

-----------------------------------------------------------------------------
(* Two sessions never hold a grant at once, whichever processes claim, of    *)
(* either node, across expiry, a recovery, a handoff and a shortened          *)
(* failure interval: a session's 60 seconds outlast everyone else's wait.     *)
GrantsExclude ==
  \A s, t \in Session : promise[s] > 0 /\ promise[t] > 0 => s = t

(* The row never says less than what a caller was told: as long as a session *)
(* counts on its grant it is the owner, and the lease lasts at least as long. *)
PromiseCovered ==
  \A s \in Session :
    promise[s] > 0 => session = s /\ owner = Home[s] /\ lease >= promise[s]

(* An administrator never overwrites a policy the panel had not read: a save  *)
(* replaces the policy its form started from, however many panels are open.   *)
NoLostPolicy ==
  [][ policy' # policy =>
        \E a \in Administrator : panel[a].policy = policy /\ panel'[a] # panel[a] ]_coordinationVars

EpochStep ==
  /\ epoch' >= epoch
  /\ owner' # owner \/ session' # session => epoch' > epoch

(* The epoch fences: it only grows, each change of owner starts a new one,    *)
(* and within an epoch neither owner nor session changes.                     *)
EpochFences == [][EpochStep]_coordinationVars

(* The other node takes over only when the last grant anybody was given ran    *)
(* out at least the shortest failure interval ago, or its holder released it,   *)
(* whatever policies were saved since; and then with a copy of the world of the *)
(* owner that goes, recorded in the epoch that ends and no older than the        *)
(* policy of that moment admits: what is lost is bounded.                        *)
TakeoverBounded ==
  [][ owner' # owner =>
        /\ silence = MinFailure
        /\ snap[owner'] # NoSnapshot
        /\ snap[owner'].source = owner /\ snap[owner'].epoch = epoch
        /\ snap[owner'].age <= policy.maxAge ]_coordinationVars

=============================================================================
