----------------------------- MODULE HostProofs -----------------------------
(***************************************************************************)
(* The hosts.  First the coordinator's promises, for any number of         *)
(* sessions and panels, any lease, failure interval and snapshot age.      *)
(*                                                                         *)
(* Then both nodes: only one node's servers are reachable, for every       *)
(* choice of the timers and however slow, crashed or cut off the agents    *)
(* are, as long as nobody plans a switch.  The argument follows one grant: *)
(* the answer that carries it, the authorization made of the answer and    *)
(* the port timeout made of the authorization all end before the lease     *)
(* they stand on does.                                                     *)
(***************************************************************************)
EXTENDS HostCallers, HostFailover, TLAPS

-----------------------------------------------------------------------------
\* The coordinator among any callers (HostCallers).

\* The owning session was drawn on the owning node.
OwnerIsHome == session # NoSession => owner = Home[session]

\* What the columns say of each other, next to what the callers were told.
Columns == RowsAreCopies /\ CurrentCopyIsOwners /\ RequestNamesOther /\ OwnerIsHome
CallersInv == CallersTypeOK /\ Columns /\ PromiseCovered

USE NullAssumption, TimeAssumption, BoundAssumption, HomeAssumption

(* A lease that covers someone's promise cannot be claimed by anyone: the     *)
(* failure interval of every policy is positive.                              *)
LEMMA PromiseBlocksClaims ==
  ASSUME CallersInv, NEW s \in Session, promise[s] > 0
  PROVE  /\ ~Claimable
         /\ \A t \in Session, c \in BOOLEAN : Granted(Home[t], t, c) => t = s
<1>1. session = s /\ owner = Home[s] /\ lease > 0 /\ lease \in Int
  BY DEF CallersInv, PromiseCovered, CallersTypeOK, ControlTypeOK
<1>2. policy.failure \in Nat
  BY DEF CallersInv, CallersTypeOK, ControlTypeOK, Policy
<1>3. ~Claimable
  BY <1>1, <1>2 DEF Claimable
<1> QED BY <1>1, <1>3 DEF Granted

LEMMA CallersInitInv == CallersInit => CallersInv
<1> SUFFICES ASSUME CallersInit PROVE CallersInv
  OBVIOUS
<1>1. DefaultPolicy \in Policy
  BY DEF DefaultPolicy, Policy, Node
<1>2. CallersTypeOK
  BY <1>1 DEF CallersInit, ControlInit, CallersTypeOK, ControlTypeOK, Panel, Node
<1>3. Columns
  BY DEF CallersInit, ControlInit, Columns, RowsAreCopies, CurrentCopyIsOwners, RequestNamesOther,
         OwnerIsHome, Node
<1>4. PromiseCovered
  BY DEF CallersInit, PromiseCovered
<1> QED BY <1>2, <1>3, <1>4 DEF CallersInv

LEMMA PollInv ==
  ASSUME CallersInv, NEW s \in Session, NEW c \in BOOLEAN, AgentPoll(s, c)
  PROVE  CallersInv'
<1> USE DEF CallersInv
<1>1. Home[s] \in Node
  OBVIOUS
<1>2. CASE Granted(Home[s], s, c) /\ session # s
  <2>1. /\ owner' = Home[s] /\ session' = s /\ epoch' = epoch + 1 /\ epoch < MaxEpoch
        /\ requested' = NoNode /\ handoff' = NoNode
        /\ lease' = LeaseTime /\ catalog' = Home[s]
        /\ UNCHANGED <<policy, revision, snap, panel>>
        /\ promise' = [promise EXCEPT ![s] = LeaseTime] /\ silence' = 0
    BY <1>2 DEF AgentPoll, Poll, NewOwner, Renew
  <2>2. CallersTypeOK'
    BY <1>1, <2>1 DEF CallersTypeOK, ControlTypeOK
  <2>3. Columns'
    BY <1>1, <2>1 DEF Columns, RowsAreCopies, CurrentCopyIsOwners, RequestNamesOther,
                      OwnerIsHome, CallersTypeOK, ControlTypeOK, SnapshotRow
  <2>4. \A t \in Session : t # s => promise[t] = 0
    BY <1>2, PromiseBlocksClaims DEF CallersTypeOK
  <2>5. PromiseCovered'
    BY <2>1, <2>4 DEF PromiseCovered, CallersTypeOK
  <2> QED BY <2>2, <2>3, <2>5
<1>3. CASE Granted(Home[s], s, c) /\ session = s
  <2>1. /\ UNCHANGED <<owner, session, epoch, requested, handoff, policy, revision, snap, panel>>
        /\ lease' = LeaseTime /\ catalog' = Home[s]
        /\ promise' = [promise EXCEPT ![s] = LeaseTime] /\ silence' = 0
    BY <1>3 DEF AgentPoll, Poll, Renew
  <2>2. \A t \in Session : t # s => promise[t] = 0
    BY <1>3, PromiseBlocksClaims DEF CallersTypeOK
  <2>3. owner = Home[s]
    BY <1>3 DEF Columns, OwnerIsHome
  <2>4. CallersTypeOK'
    BY <1>1, <2>1 DEF CallersTypeOK, ControlTypeOK
  <2>5. PromiseCovered'
    BY <1>3, <2>1, <2>2, <2>3 DEF PromiseCovered, CallersTypeOK
  <2> QED
    BY <2>1, <2>4, <2>5 DEF Columns, RowsAreCopies, CurrentCopyIsOwners, RequestNamesOther, OwnerIsHome
<1>4. CASE ~Granted(Home[s], s, c)
  <2>1. UNCHANGED coordinationVars
    BY <1>4 DEF AgentPoll, Poll, coordinationVars, controlVars, callerVars
  <2> QED
    BY <2>1 DEF coordinationVars, controlVars, callerVars, CallersTypeOK, ControlTypeOK, Columns,
                RowsAreCopies, CurrentCopyIsOwners, RequestNamesOther, OwnerIsHome, PromiseCovered
<1> QED BY <1>2, <1>3, <1>4

LEMMA SnapshotInv ==
  ASSUME CallersInv, NEW n \in Node, NEW e \in 1..MaxEpoch, NEW age \in 0..MaxAge, NEW id \in Content,
         AgentSnapshot(n, Other(n), e, age, id)
  PROVE  CallersInv'
<1> USE DEF CallersInv
<1>1. Other(n) \in Node /\ Other(n) # n
  BY DEF Other, Node
<1>2. UNCHANGED <<policy, revision, owner, session, epoch, lease, requested, handoff, catalog,
                  panel, promise, silence>>
  BY DEF AgentSnapshot, RecordSnapshot, callerVars
<1>3. CASE Accepts(Other(n), e)
  <2>1. snap' = [snap EXCEPT ![n] = [source |-> Other(n), epoch |-> e, age |-> age, id |-> id]]
    BY <1>3 DEF AgentSnapshot, RecordSnapshot
  <2>2. [source |-> Other(n), epoch |-> e, age |-> age, id |-> id] \in SnapshotRow
    BY <1>1 DEF SnapshotRow
  <2>3. CallersTypeOK'
    BY <1>2, <2>1, <2>2 DEF CallersTypeOK, ControlTypeOK
  <2>4. RowsAreCopies' /\ CurrentCopyIsOwners'
    BY <1>1, <1>2, <1>3, <2>1, <2>2 DEF Columns, RowsAreCopies, CurrentCopyIsOwners, Accepts,
                                       CallersTypeOK, ControlTypeOK
  <2> QED BY <1>2, <2>3, <2>4 DEF Columns, RequestNamesOther, OwnerIsHome, PromiseCovered
<1>4. CASE ~Accepts(Other(n), e)
  <2>1. snap' = snap
    BY <1>4 DEF AgentSnapshot, RecordSnapshot
  <2> QED
    BY <1>2, <2>1 DEF CallersTypeOK, ControlTypeOK, Columns, RowsAreCopies, CurrentCopyIsOwners,
                           RequestNamesOther, OwnerIsHome, PromiseCovered
<1> QED BY <1>3, <1>4

LEMMA ReleaseInv ==
  ASSUME CallersInv, NEW s \in Session, NEW e \in 1..MaxEpoch, AgentRelease(s, e)
  PROVE  CallersInv'
<1> USE DEF CallersInv
<1>1. UNCHANGED <<policy, revision, owner, session, epoch, requested, snap, catalog, panel>>
  BY DEF AgentRelease, Release
<1>2. CASE Releases(Home[s], s, e)
  <2>1. /\ lease' = -policy.failure /\ handoff' = requested
        /\ promise' = [promise EXCEPT ![s] = 0] /\ silence' = MinFailure
        /\ session = s /\ requested # NoNode
    BY <1>2 DEF AgentRelease, Release, Releases, ReleaseReady
  <2>2. CallersTypeOK'
    BY <1>1, <2>1 DEF CallersTypeOK, ControlTypeOK, Policy
  <2>3. PromiseCovered'
    BY <1>1, <2>1 DEF PromiseCovered, CallersTypeOK
  <2> QED
    BY <1>1, <2>1, <2>2, <2>3 DEF Columns, RowsAreCopies, CurrentCopyIsOwners, RequestNamesOther,
                                  OwnerIsHome
<1>3. CASE ~Releases(Home[s], s, e)
  <2>1. UNCHANGED <<lease, handoff, promise, silence>>
    BY <1>3 DEF AgentRelease, Release
  <2> QED
    BY <1>1, <2>1 DEF CallersTypeOK, ControlTypeOK, Columns, RowsAreCopies, CurrentCopyIsOwners,
                           RequestNamesOther, OwnerIsHome, PromiseCovered
<1> QED BY <1>2, <1>3

\* What a panel shows and fills in keeps its type.
LEMMA PanelType ==
  ASSUME panel \in [Administrator -> Panel], ControlTypeOK', NEW a \in Administrator,
         Shows(a) \/ Fills(a)
  PROVE  panel' \in [Administrator -> Panel]
<1>1. owner' \in Node /\ requested' \in Node \cup {NoNode}
  BY DEF ControlTypeOK
<1>2. [revision |-> revision', policy |-> policy', owner |-> owner', requested |-> requested'] \in Panel
  BY DEF ControlTypeOK, Panel
<1>3. [panel[a] EXCEPT !.owner = owner', !.requested = requested'] \in Panel
  BY <1>1 DEF Panel
<1> HIDE DEF Panel
<1>4. CASE Fills(a)
  BY <1>2, <1>4 DEF Fills
<1>5. CASE Shows(a)
  <2>1. panel' = [panel EXCEPT ![a] = [panel[a] EXCEPT !.owner = owner', !.requested = requested']]
    BY <1>5 DEF Shows
  <2> QED BY <1>3, <2>1
<1> QED BY <1>4, <1>5

LEMMA AdminInv ==
  ASSUME CallersInv, NEW a \in Administrator, AdminNext(a)
  PROVE  CallersInv'
<1> USE DEF CallersInv
<1>1. CASE PanelRead(a)
  <2>1. ControlTypeOK' /\ UNCHANGED <<controlVars, promise, silence>>
    BY <1>1 DEF PanelRead, controlVars, CallersTypeOK, ControlTypeOK
  <2>2. panel' \in [Administrator -> Panel]
    BY <1>1, <2>1, PanelType DEF PanelRead, CallersTypeOK
  <2> QED
    BY <2>1, <2>2 DEF controlVars, CallersTypeOK, Columns, RowsAreCopies,
                      CurrentCopyIsOwners, RequestNamesOther, OwnerIsHome, PromiseCovered
<1>2. ASSUME NEW p \in Policies, PanelConfigure(a, p) PROVE CallersInv'
  <2>1. /\ p \in Policy /\ policy' = p /\ revision' = revision + 1 /\ revision < MaxRevision
        /\ UNCHANGED <<owner, session, epoch, lease, handoff, snap, catalog, promise, silence>>
    BY <1>2 DEF PanelConfigure, Configure, ValidPolicy
  <2>2. requested' \in Node \cup {NoNode} /\ requested' # owner
    <3>1. p.primary \in Node /\ policy.primary \in Node
      BY <2>1 DEF Policy, CallersTypeOK, ControlTypeOK
    <3>2. requested' \in {requested, NoNode} \/ (requested' = p.primary /\ p.primary # owner)
      BY <1>2, <3>1 DEF PanelConfigure, Configure
    <3> QED BY <3>1, <3>2 DEF Columns, RequestNamesOther, CallersTypeOK, ControlTypeOK
  <2>3. ControlTypeOK'
    BY <2>1, <2>2 DEF CallersTypeOK, ControlTypeOK
  <2>4. CallersTypeOK'
    BY <1>2, <2>1, <2>3, PanelType DEF PanelConfigure, CallersTypeOK
  <2> QED
    BY <2>1, <2>2, <2>4 DEF Columns, RowsAreCopies, CurrentCopyIsOwners, RequestNamesOther,
                            OwnerIsHome, PromiseCovered
<1>3. ASSUME PanelSwitch(a) \/ PanelCancel(a) PROVE CallersInv'
  <2>1. PICK n \in Node : Switch(n)
    <3>1. Other(panel[a].owner) \in Node /\ panel[a].owner \in Node
      BY DEF Other, Node, CallersTypeOK, Panel
    <3> QED BY <1>3, <3>1 DEF PanelSwitch, PanelCancel
  <2>2. /\ revision' = revision + 1 /\ revision < MaxRevision
        /\ UNCHANGED <<policy, owner, session, epoch, lease, snap, catalog, promise, silence>>
        /\ \/ requested' = NoNode /\ handoff' = NoNode
           \/ requested' = n /\ n # owner /\ handoff' = handoff
    BY <1>3, <2>1 DEF PanelSwitch, PanelCancel, Switch
  <2>3. ControlTypeOK'
    BY <2>2 DEF CallersTypeOK, ControlTypeOK
  <2>4. CallersTypeOK'
    BY <1>3, <2>2, <2>3, PanelType DEF PanelSwitch, PanelCancel, CallersTypeOK
  <2> QED
    BY <2>2, <2>4 DEF Columns, RowsAreCopies, CurrentCopyIsOwners, RequestNamesOther,
                      OwnerIsHome, PromiseCovered, CallersTypeOK, ControlTypeOK
<1> QED BY <1>1, <1>2, <1>3 DEF AdminNext

LEMMA TickInv ==
  ASSUME CallersInv, CallersTick
  PROVE  CallersInv'
<1> USE DEF CallersInv
<1>1. /\ UNCHANGED <<policy, revision, owner, session, epoch, requested, handoff, catalog, panel>>
      /\ lease' = IF lease = -MaxFailure THEN lease ELSE lease - 1
      /\ snap' = [n \in Node |-> Older(snap[n])]
      /\ promise' = [s \in Session |-> IF promise[s] = 0 THEN 0 ELSE promise[s] - 1]
      /\ silence' = IF silence = MinFailure \/ \E s \in Session : promise[s] > 0
                    THEN silence ELSE silence + 1
  BY DEF CallersTick, ControlTick
<1>2. \A n \in Node :
        /\ Older(snap[n]) \in SnapshotRow \cup {NoSnapshot}
        /\ Older(snap[n]) # NoSnapshot /\ snap[n] # NoSnapshot =>
             Older(snap[n]).epoch = snap[n].epoch /\ Older(snap[n]).source = snap[n].source
        /\ snap[n] = NoSnapshot => Older(snap[n]) = NoSnapshot
  BY DEF Older, SnapshotRow, CallersTypeOK, ControlTypeOK
<1>3. CallersTypeOK'
  BY <1>1, <1>2 DEF CallersTypeOK, ControlTypeOK
<1>4. RowsAreCopies' /\ CurrentCopyIsOwners'
  BY <1>1, <1>2 DEF Columns, RowsAreCopies, CurrentCopyIsOwners
<1>5. PromiseCovered'
  BY <1>1 DEF PromiseCovered, CallersTypeOK, ControlTypeOK
<1> QED BY <1>1, <1>3, <1>4, <1>5 DEF Columns, RequestNamesOther, OwnerIsHome

LEMMA CallersNextInv == CallersInv /\ [CallersNext]_coordinationVars => CallersInv'
<1> SUFFICES ASSUME CallersInv, [CallersNext]_coordinationVars PROVE CallersInv'
  OBVIOUS
<1>1. CASE \E s \in Session : AgentNext(s)
  BY <1>1, PollInv, ReleaseInv DEF AgentNext
<1>2. CASE \E n \in Node : CopyNext(n)
  BY <1>2, SnapshotInv DEF CopyNext
<1>3. CASE \E a \in Administrator : AdminNext(a)
  BY <1>3, AdminInv
<1>4. CASE CallersTick
  BY <1>4, TickInv
<1>5. CASE UNCHANGED coordinationVars
  BY <1>5 DEF coordinationVars, controlVars, callerVars, CallersInv, CallersTypeOK, ControlTypeOK,
              Columns, RowsAreCopies, CurrentCopyIsOwners, RequestNamesOther, OwnerIsHome, PromiseCovered
<1> QED BY <1>1, <1>2, <1>3, <1>4, <1>5 DEF CallersNext

(* Every column keeps its range, the rows are copies of someone else's world,  *)
(* a request names the other node, and every grant told is covered by the row. *)
THEOREM Invariance == CallersSpec => []CallersInv
<1> QED BY CallersInitInv, CallersNextInv, PTL DEF CallersSpec

(* The two tables, the panels and what was promised keep their ranges.        *)
THEOREM CallersTypeCorrect == CallersSpec => []CallersTypeOK
<1> QED BY Invariance, PTL DEF CallersInv

(* At no time do two sessions hold a grant, whatever the callers do            *)
(* (launcher_host_poll and launcher_host_release).                             *)
THEOREM ExclusiveGrants == CallersSpec => []GrantsExclude
<1>1. CallersInv => GrantsExclude
  BY DEF CallersInv, PromiseCovered, GrantsExclude
<1> QED BY <1>1, Invariance, PTL

(* A row of the running epoch is a copy of the owner's world                   *)
(* (launcher_host_snapshot against launcher_host_poll).                        *)
THEOREM CopiesOfOwner == CallersSpec => []CurrentCopyIsOwners
<1> QED BY Invariance, PTL DEF CallersInv, Columns

(* A switch never names the owner, so its agent never hands the world to       *)
(* itself (the configure, switch and poll functions together).                 *)
THEOREM RequestsNameOther == CallersSpec => []RequestNamesOther
<1> QED BY Invariance, PTL DEF CallersInv, Columns

(* A poll keeps the owner, or starts an epoch for its session.                 *)
LEMMA PollOwner ==
  ASSUME CallersInv, NEW s \in Session, NEW c \in BOOLEAN, AgentPoll(s, c)
  PROVE  \/ UNCHANGED <<owner, session, epoch>>
         \/ /\ epoch' = epoch + 1 /\ owner' = Home[s] /\ session' = s
            /\ owner # Home[s] => Eligible(Home[s])
BY DEF AgentPoll, Poll, NewOwner, Granted

(* Only a poll changes owner, session or epoch.                                *)
LEMMA OnlyPollsMove ==
  ASSUME CallersInv, [CallersNext]_coordinationVars
  PROVE  UNCHANGED <<owner, session, epoch>> \/ \E s \in Session, c \in BOOLEAN : AgentPoll(s, c)
<1>1. CASE \E s \in Session, c \in BOOLEAN : AgentPoll(s, c)
  BY <1>1
<1>2. CASE \E s \in Session, e \in 1..MaxEpoch : AgentRelease(s, e)
  BY <1>2 DEF AgentRelease, Release
<1>3. CASE \E n \in Node : CopyNext(n)
  BY <1>3 DEF CopyNext, AgentSnapshot, RecordSnapshot
<1>4. CASE \E a \in Administrator : AdminNext(a)
  BY <1>4 DEF AdminNext, PanelRead, PanelConfigure, Configure, PanelSwitch, PanelCancel, Switch,
              controlVars
<1>5. CASE CallersTick \/ UNCHANGED coordinationVars
  BY <1>5 DEF CallersTick, ControlTick, coordinationVars, controlVars
<1> QED BY <1>1, <1>2, <1>3, <1>4, <1>5, Zenon DEF CallersNext, AgentNext

(* The epoch only grows, and a change of owner or session starts a new one.    *)
THEOREM FencingEpochs == CallersSpec => EpochFences
<1>1. CallersInv /\ [CallersNext]_coordinationVars => [EpochStep]_coordinationVars
  <2> SUFFICES ASSUME CallersInv, [CallersNext]_coordinationVars PROVE EpochStep
    OBVIOUS
  <2>1. epoch \in Int
    BY DEF CallersInv, CallersTypeOK, ControlTypeOK
  <2>2. CASE \E s \in Session, c \in BOOLEAN : AgentPoll(s, c)
    BY <2>1, <2>2, PollOwner DEF EpochStep
  <2>3. CASE ~\E s \in Session, c \in BOOLEAN : AgentPoll(s, c)
    <3>1. UNCHANGED <<owner, session, epoch>>
      BY <2>3, OnlyPollsMove
    <3> QED BY <2>1, <3>1 DEF EpochStep
  <2> QED BY <2>2, <2>3
<1> QED BY <1>1, Invariance, PTL DEF CallersSpec, EpochFences

\* The row's lease runs out no faster than silence is counted.
Silent == silence = MinFailure \/ silence >= -lease

LEMMA SilentStep ==
  ASSUME CallersInv, Silent, [CallersNext]_coordinationVars
  PROVE  Silent'
<1> USE DEF CallersInv
<1>1. /\ lease \in Int /\ silence \in 0..MinFailure /\ lease >= -MaxFailure
      /\ policy.failure \in Nat
      /\ \A s \in Session : promise[s] \in Nat
  BY DEF CallersTypeOK, ControlTypeOK, Policy
<1>2. ASSUME NEW s \in Session, NEW c \in BOOLEAN, AgentPoll(s, c) PROVE Silent'
  <2>1. CASE Granted(Home[s], s, c)
    BY <1>2, <2>1 DEF AgentPoll, Poll, Renew, Silent
  <2>2. CASE ~Granted(Home[s], s, c)
    BY <1>2, <2>2 DEF AgentPoll, Poll, Silent
  <2> QED BY <2>1, <2>2
<1>3. ASSUME NEW s \in Session, NEW e \in 1..MaxEpoch, AgentRelease(s, e) PROVE Silent'
  BY <1>3 DEF AgentRelease, Release, Silent
<1>4. ASSUME NEW n \in Node, CopyNext(n) PROVE Silent'
  BY <1>4 DEF CopyNext, AgentSnapshot, RecordSnapshot, callerVars, Silent
<1>5. ASSUME NEW a \in Administrator, AdminNext(a) PROVE Silent'
  BY <1>5 DEF AdminNext, PanelRead, PanelConfigure, Configure, PanelSwitch, PanelCancel, Switch,
              controlVars, Silent
<1>6. CASE CallersTick
  <2>1. lease' = lease \/ lease' = lease - 1
    BY <1>6 DEF CallersTick, ControlTick
  <2>2. CASE \E s \in Session : promise[s] > 0
    <3>1. PICK s \in Session : promise[s] > 0
      BY <2>2
    <3>2. lease > 0
      BY <1>1, <3>1 DEF PromiseCovered
    <3>3. silence' = silence
      BY <1>6, <2>2 DEF CallersTick
    <3>4. silence \in Int /\ silence >= 0 /\ lease' \in Int /\ lease' >= 0
      BY <1>1, <2>1, <3>2
    <3>5. \A x, y \in Int : x >= 0 /\ y >= 0 => x >= -y
      OBVIOUS
    <3> QED BY <3>3, <3>4, <3>5, Zenon DEF Silent
  <2>3. CASE ~\E s \in Session : promise[s] > 0
    <3>1. CASE silence = MinFailure
      BY <1>6, <3>1 DEF CallersTick, Silent
    <3>2. CASE silence # MinFailure
      <4>1. silence' = silence + 1
        BY <1>6, <2>3, <3>2 DEF CallersTick
      <4> QED BY <1>1, <2>1, <3>2, <4>1 DEF Silent
    <3> QED BY <3>1, <3>2
  <2> QED BY <2>2, <2>3
<1>7. CASE UNCHANGED coordinationVars
  BY <1>7 DEF coordinationVars, controlVars, callerVars, Silent
<1> QED BY <1>2, <1>3, <1>4, <1>5, <1>6, <1>7 DEF CallersNext, AgentNext

(* A takeover comes only after every grant ever given was released or ran out  *)
(* for at least the shortest failure interval, whatever policies were saved     *)
(* since, and with a copy of the world of the owner it replaces, recorded in     *)
(* the epoch that ends and no older than the policy admits.                      *)
THEOREM TakeoversBounded == CallersSpec => TakeoverBounded
<1> DEFINE Bounded == owner' # owner =>
                        /\ silence = MinFailure
                        /\ snap[owner'] # NoSnapshot
                        /\ snap[owner'].source = owner /\ snap[owner'].epoch = epoch
                        /\ snap[owner'].age <= policy.maxAge
<1>1. CallersInit => Silent
  BY DEF CallersInit, ControlInit, Silent
<1>2. CallersInv /\ Silent /\ [CallersNext]_coordinationVars => Silent'
  BY SilentStep
<1>3. CallersInv /\ Silent /\ [CallersNext]_coordinationVars => [Bounded]_coordinationVars
  <2> SUFFICES ASSUME CallersInv, Silent, [CallersNext]_coordinationVars, owner' # owner
               PROVE  Bounded
    OBVIOUS
  <2>1. PICK s \in Session, c \in BOOLEAN : AgentPoll(s, c)
    BY OnlyPollsMove
  <2>2. owner' = Home[s] /\ owner # Home[s] /\ Eligible(owner')
    BY <2>1, PollOwner
  <2>3. Claimable
    <3>1. Granted(Home[s], s, c)
      BY <2>1, <2>2 DEF AgentPoll, Poll
    <3> QED BY <2>2, <3>1 DEF Granted
  <2>4. /\ lease <= -policy.failure /\ lease \in Int /\ silence \in 0..MinFailure
        /\ policy.failure \in Nat /\ policy.failure >= MinFailure
    BY <2>3 DEF Claimable, CallersInv, CallersTypeOK, ControlTypeOK, Policy
  <2>5. silence = MinFailure
    BY <2>4 DEF Silent
  <2> QED BY <2>2, <2>5 DEF Eligible, HasSnapshot
<1> QED BY <1>1, <1>2, <1>3, Invariance, PTL DEF CallersSpec, TakeoverBounded

-----------------------------------------------------------------------------
(* A form is of some earlier revision, and one of the present revision shows  *)
(* the present policy.                                                        *)
FormsRead ==
  \A a \in Administrator :
    /\ panel[a].revision <= revision
    /\ panel[a].revision = revision => panel[a].policy = policy

\* A step of the policy or its revision takes the form of one panel along.
LEMMA FormStep ==
  ASSUME CallersInv, NEW a \in Administrator, AdminNext(a)
  PROVE  /\ \A b \in Administrator \ {a} : panel'[b] = panel[b]
         /\ \/ UNCHANGED <<policy, revision>>
            \/ revision' = revision + 1 /\ policy' = policy
            \/ /\ revision' = revision + 1 /\ panel[a].revision = revision
               /\ panel'[a].revision = revision' /\ panel'[a].policy = policy'
         /\ \/ panel'[a].revision = panel[a].revision /\ panel'[a].policy = panel[a].policy
            \/ panel'[a].revision = revision' /\ panel'[a].policy = policy'
<1>1. panel \in [Administrator -> Panel]  BY DEF CallersInv, CallersTypeOK
<1>2. Shows(a) \/ Fills(a)
  BY DEF AdminNext, PanelRead, PanelConfigure, PanelSwitch, PanelCancel
<1>3. \A b \in Administrator \ {a} : panel'[b] = panel[b]  BY <1>1, <1>2 DEF Shows, Fills
<1>4. CASE Shows(a)
  <2>1. panel'[a].revision = panel[a].revision /\ panel'[a].policy = panel[a].policy
    BY <1>1, <1>4 DEF Shows, Panel
  <2>2. CASE PanelRead(a)  BY <1>3, <2>1, <2>2 DEF PanelRead, controlVars
  <2>3. CASE PanelSwitch(a) \/ PanelCancel(a)
    <3>1. revision' = revision + 1 /\ policy' = policy
      BY <2>3 DEF PanelSwitch, PanelCancel, Switch
    <3> QED  BY <1>3, <2>1, <3>1
  <2>4. ASSUME NEW p \in Policies, PanelConfigure(a, p)
        PROVE  revision' = revision + 1 /\ Fills(a) /\ panel[a].revision = revision
    BY <2>4 DEF PanelConfigure, Configure
  <2>5. Fills(a) => panel'[a].revision = revision' /\ panel'[a].policy = policy'
    BY <1>1 DEF Fills
  <2> QED  BY <1>3, <2>1, <2>2, <2>3, <2>4, <2>5 DEF AdminNext
<1>5. CASE Fills(a)
  <2>1. panel'[a].revision = revision' /\ panel'[a].policy = policy'  BY <1>1, <1>5 DEF Fills
  <2>2. CASE PanelRead(a)  BY <1>3, <2>1, <2>2 DEF PanelRead, controlVars
  <2>3. CASE PanelSwitch(a) \/ PanelCancel(a)
    <3>1. revision' = revision + 1 /\ policy' = policy
      BY <2>3 DEF PanelSwitch, PanelCancel, Switch
    <3> QED  BY <1>3, <2>1, <3>1
  <2>4. ASSUME NEW p \in Policies, PanelConfigure(a, p)
        PROVE  revision' = revision + 1 /\ panel[a].revision = revision
    BY <2>4 DEF PanelConfigure, Configure
  <2> QED  BY <1>3, <2>1, <2>2, <2>3, <2>4 DEF AdminNext
<1> QED  BY <1>2, <1>4, <1>5

LEMMA OthersKeepForms ==
  ASSUME CallersInv, [CallersNext]_coordinationVars, ~\E a \in Administrator : AdminNext(a)
  PROVE  UNCHANGED <<policy, revision, panel>>
BY DEF CallersNext, AgentNext, CopyNext, AgentPoll, Poll, NewOwner, Renew, AgentSnapshot, RecordSnapshot,
       AgentRelease, Release, CallersTick, ControlTick,
       coordinationVars, controlVars, callerVars

LEMMA FormsReadStep == CallersInv /\ FormsRead /\ [CallersNext]_coordinationVars => FormsRead'
<1> SUFFICES ASSUME CallersInv, FormsRead, [CallersNext]_coordinationVars, NEW b \in Administrator
             PROVE  panel'[b].revision <= revision' /\ (panel'[b].revision = revision' => panel'[b].policy = policy')
  BY DEF FormsRead
<1>1. /\ panel[b].revision \in Int /\ revision \in Int /\ panel[b].revision <= revision
      /\ panel[b].revision = revision => panel[b].policy = policy
  <2>1. panel[b] \in Panel /\ revision \in Int
    BY DEF CallersInv, CallersTypeOK, ControlTypeOK
  <2>2. panel[b].revision \in Int
    BY <2>1 DEF Panel
  <2> QED BY <2>1, <2>2 DEF FormsRead
<1>2. ASSUME NEW a \in Administrator, AdminNext(a)
      PROVE  panel'[b].revision <= revision' /\ (panel'[b].revision = revision' => panel'[b].policy = policy')
  <2>1. CASE a = b
    <3>1. CASE panel'[a].revision = panel[a].revision /\ panel'[a].policy = panel[a].policy
      <4>1. \/ UNCHANGED <<policy, revision>> \/ revision' = revision + 1
        BY <1>2, FormStep
      <4> QED BY <1>1, <2>1, <3>1, <4>1
    <3>2. CASE panel'[a].revision = revision' /\ panel'[a].policy = policy'
      <4>1. revision' \in Int
        BY <1>1, <1>2, FormStep
      <4> QED BY <2>1, <3>2, <4>1
    <3> QED BY <1>2, <3>1, <3>2, FormStep
  <2>2. CASE a # b  BY <1>1, <1>2, <2>2, FormStep
  <2> QED  BY <2>1, <2>2
<1>3. CASE ~\E a \in Administrator : AdminNext(a)  BY <1>1, <1>3, OthersKeepForms
<1> QED  BY <1>2, <1>3

(* A policy is replaced only by an administrator whose form showed it: two    *)
(* panels open at once never overwrite each other unseen, because the save    *)
(* compares the revision and the form was read with it (launcher_host_admin). *)
THEOREM NoPolicyLost == CallersSpec => NoLostPolicy
<1>1. CallersInit => FormsRead
  <2> SUFFICES ASSUME CallersInit, NEW a \in Administrator
               PROVE  panel[a].revision = revision /\ panel[a].policy = policy /\ revision = 1
    BY DEF FormsRead
  <2> QED  BY DEF CallersInit, ControlInit
<1>2. CallersInv /\ FormsRead /\ [CallersNext]_coordinationVars =>
        [policy' # policy =>
           \E a \in Administrator : panel[a].policy = policy /\ panel'[a] # panel[a]]_coordinationVars
  <2> SUFFICES ASSUME CallersInv, FormsRead, [CallersNext]_coordinationVars, policy' # policy
               PROVE  \E a \in Administrator : panel[a].policy = policy /\ panel'[a] # panel[a]
    OBVIOUS
  <2>1. PICK a \in Administrator : AdminNext(a)  BY OthersKeepForms
  <2>2. panel[a].revision = revision /\ panel'[a].revision = revision + 1 /\ revision \in Int
    BY <2>1, FormStep DEF CallersInv, CallersTypeOK, ControlTypeOK
  <2>3. panel[a].policy = policy /\ panel'[a] # panel[a]  BY <2>2 DEF FormsRead
  <2> QED  BY <2>3
<1> QED  BY <1>1, <1>2, FormsReadStep, Invariance, PTL DEF CallersSpec, NoLostPolicy

-----------------------------------------------------------------------------
\* Both nodes (HostFailover).

HIDE HomeAssumption
USE SessionAssumption, TimerAssumption, WorldAssumption, EnvironmentAssumption

\* Administrators change what the standby may do, never the preferred node.
NoSwitch == SwitchTargets = {} /\ \A p \in Policies : p.primary = "vps"

-----------------------------------------------------------------------------
\* Operators and their types.

LEMMA CallShapes ==
  ASSUME NEW c \in Call
  PROVE  /\ c.phase \in {"idle", "sent", "answered", "blocked"}
         /\ c.phase \in {"answered", "blocked"} =>
              /\ c \in [phase : {"answered", "blocked"}, kind : {"poll", "read"},
                        age : 0..AnswerTime, body : Answer]
              /\ c.body \in Answer /\ c.age \in 0..AnswerTime
BY DEF Call, Idle, Sent

LEMMA MadeCalls ==
  /\ Idle \in Call
  /\ \A k \in {"poll", "read"} : Sent(k) \in Call
  /\ \A p \in {"answered", "blocked"}, k \in {"poll", "read"}, a \in 0..AnswerTime, b \in Answer :
       [phase |-> p, kind |-> k, age |-> a, body |-> b] \in Call
BY DEF Call, Sent

LEMMA TransShapes ==
  ASSUME NEW t \in Trans
  PROVE  /\ t.stage \in {"none", "restoring", "stopping", "copying", "releasing", "answered"}
         /\ t.stage \in {"stopping", "copying", "releasing", "answered"} =>
              t \in [stage : {"stopping", "copying", "releasing", "answered"},
                     epoch : 1..MaxEpoch, ok : BOOLEAN]
BY DEF Trans

LEMMA MadeTrans ==
  /\ Free \in Trans /\ [stage |-> "restoring"] \in Trans
  /\ \A st \in {"stopping", "copying", "releasing", "answered"}, e \in 1..MaxEpoch, b \in BOOLEAN :
       [stage |-> st, epoch |-> e, ok |-> b] \in Trans
BY DEF Trans, Free

LEMMA SyncShapes ==
  ASSUME NEW s \in Sync
  PROVE  /\ s.phase \in {"none", "asked", "begun", "copied"}
         /\ s.phase = "asked" => s.dir \in {"pull", "push"}
         /\ s.phase \in {"begun", "copied"} =>
              s \in [phase : {"begun", "copied"}, dir : {"pull", "push"}, epoch : 1..MaxEpoch,
                     age : 0..MaxAge + 1, late : BOOLEAN, id : Content]
BY DEF Sync, NoSync

LEMMA PollType ==
  ASSUME ControlTypeOK, NEW n \in Node, Poll(n, n, TRUE)
  PROVE  ControlTypeOK'
<1>1. CASE Granted(n, n, TRUE) /\ session # n
  <2>1. /\ owner' = n /\ session' = n /\ epoch' = epoch + 1 /\ epoch < MaxEpoch
        /\ requested' = NoNode /\ handoff' = NoNode /\ lease' = LeaseTime /\ catalog' = n
        /\ UNCHANGED <<policy, revision, snap>>
    BY <1>1 DEF Poll, NewOwner, Renew
  <2> QED BY <2>1 DEF ControlTypeOK
<1>2. CASE ~(Granted(n, n, TRUE) /\ session # n)
  <2>1. /\ UNCHANGED <<owner, session, epoch, requested, handoff, policy, revision, snap>>
        /\ lease' \in {lease, LeaseTime} /\ catalog' \in {catalog, n}
    BY <1>2 DEF Poll, Renew
  <2> QED BY <2>1 DEF ControlTypeOK
<1> QED BY <1>1, <1>2

LEMMA ReleaseType ==
  ASSUME ControlTypeOK, NEW n \in Node, NEW e, Release(n, n, e)
  PROVE  ControlTypeOK'
<1>1. policy.failure \in 1..MaxFailure
  BY DEF ControlTypeOK, Policy
<1>2. /\ UNCHANGED <<policy, revision, owner, session, epoch, requested, snap, catalog>>
      /\ lease' \in {lease, -policy.failure} /\ handoff' \in {handoff, requested}
  BY DEF Release
<1> QED BY <1>1, <1>2 DEF ControlTypeOK

LEMMA RecordType ==
  ASSUME ControlTypeOK, NEW n \in Node, NEW src \in Node, NEW e \in 1..MaxEpoch,
         NEW age \in 0..MaxAge + 1, NEW id \in Content, RecordSnapshot(n, src, e, age, id)
  PROVE  ControlTypeOK'
<1>1. [source |-> src, epoch |-> e, age |-> age, id |-> id] \in SnapshotRow
  BY DEF SnapshotRow
<1> QED BY <1>1 DEF RecordSnapshot, ControlTypeOK

LEMMA AdminType ==
  ASSUME ControlTypeOK, Admin
  PROVE  ControlTypeOK'
<1>1. ASSUME NEW p \in Policies, Configure(p, revision) PROVE ControlTypeOK'
  <2>1. /\ p \in Policy /\ policy' = p /\ revision' = revision + 1 /\ revision < MaxRevision
        /\ UNCHANGED <<owner, session, epoch, lease, handoff, snap, catalog>>
    BY <1>1 DEF Configure, ValidPolicy
  <2>2. requested' \in {requested, NoNode, p.primary}
    BY <1>1, <2>1 DEF Configure, Policy, ControlTypeOK
  <2> QED BY <2>1, <2>2 DEF ControlTypeOK, Policy
<1>2. ASSUME NEW n \in Node, Switch(n) PROVE ControlTypeOK'
  BY <1>2 DEF Switch, ControlTypeOK
<1> QED BY <1>1, <1>2 DEF Admin

LEMMA TickType ==
  ASSUME ControlTypeOK, ControlTick
  PROVE  ControlTypeOK'
<1>1. ASSUME NEW row \in SnapshotRow PROVE Older(row) \in SnapshotRow \cup {NoSnapshot}
  <2>1. CASE row = NoSnapshot \/ row.age > MaxAge
    BY <2>1 DEF Older
  <2>2. CASE ~(row = NoSnapshot \/ row.age > MaxAge)
    <3>1. Older(row) = [row EXCEPT !.age = row.age + 1]
      BY <2>2 DEF Older
    <3>2. row.age + 1 \in 0..MaxAge + 1
      BY <2>2 DEF SnapshotRow
    <3> QED BY <3>1, <3>2 DEF SnapshotRow
  <2> QED BY <2>1, <2>2
<1>2. Older(NoSnapshot) = NoSnapshot
  BY DEF Older
<1>3. \A n \in Node : Older(snap[n]) \in SnapshotRow \cup {NoSnapshot}
  BY <1>1, <1>2 DEF ControlTypeOK
<1> QED BY <1>3 DEF ControlTick, ControlTypeOK

-----------------------------------------------------------------------------
\* Type correctness, action by action.

\* What a fence changes keeps its type.
FencedOK ==
  /\ mode \in [Node -> Mode] /\ proxied \in [Node -> 0..MaxEpoch]
  /\ fenceDue \in [Node -> BOOLEAN] /\ ports \in [Node -> 0..PortTime]
  /\ role \in [Node -> {"fenced", "active", "proxy"}] /\ running \in [Node -> BOOLEAN]

LEMMA ClosedType ==
  ASSUME FencedOK, NEW n \in Node, Closed(n)
  PROVE  /\ ports' \in [Node -> 0..PortTime]
         /\ role' \in [Node -> {"fenced", "active", "proxy"}] /\ running' \in [Node -> BOOLEAN]
BY DEF Closed, FencedOK

LEMMA FenceType ==
  ASSUME FencedOK, NEW n \in Node,
         Fence(n) \/ UNCHANGED <<mode, proxied, fenceDue, ports, role, running>>
  PROVE  FencedOK'
<1>1. CASE Fence(n)
  <2>1. mode' \in [Node -> Mode] /\ proxied' \in [Node -> 0..MaxEpoch]
    BY <1>1 DEF Fence, FencedOK, Mode
  <2>2. CASE Locked(n)
    BY <1>1, <2>1, <2>2 DEF Fence, FencedOK
  <2>3. CASE ~Locked(n)
    BY <1>1, <2>1, <2>3, ClosedType DEF Fence, FencedOK
  <2> QED BY <2>2, <2>3
<1>2. CASE UNCHANGED <<mode, proxied, fenceDue, ports, role, running>>
  BY <1>2 DEF FencedOK
<1> QED BY <1>1, <1>2

LEMMA DroppedType ==
  ASSUME TypeOK, NEW n \in Node, Dropped(n)
  PROVE  /\ line' \in [base : Content, since : Content, lost : BOOLEAN]
         /\ line'.base = line.base /\ line'.since = line.since
         /\ line'.lost = (line.lost \/ (Ordered(n) /\ owner = n))
<1>1. line \in [base : Content, since : Content, lost : BOOLEAN]
  BY DEF TypeOK
<1>2. (line.lost \/ (Ordered(n) /\ owner = n)) \in BOOLEAN
  BY Zenon
<1>3. line' = [line EXCEPT !.lost = line.lost \/ (Ordered(n) /\ owner = n)]
  BY Zenon DEF Dropped
<1> QED BY <1>1, <1>2, <1>3

LEMMA CallType ==
  ASSUME TypeOK, NEW n \in Node, TickStart(n) \/ CoordinatorRead(n) \/ CoordinatorPoll(n)
                                 \/ ReadAnswer(n) \/ CallLost(n)
  PROVE  TypeOK'
<1> USE DEF controlVars, agentVars, hostVars, copyVars
<1>1. CASE TickStart(n)
  BY <1>1 DEF TickStart, TypeOK, ControlTypeOK, Call, Sent
<1>2. ASSUME ControlTypeOK', NEW g \in BOOLEAN, NEW r \in BOOLEAN PROVE StateOf(n, g, r) \in Answer
  BY <1>2 DEF StateOf, Answer, ControlTypeOK, TypeOK
<1>3. CASE CoordinatorRead(n)
  <2>1. ControlTypeOK'
    BY <1>3 DEF CoordinatorRead, TypeOK, ControlTypeOK
  <2>2. StateOf(n, FALSE, FALSE) \in Answer
    BY <1>2, <2>1
  <2>3. call' \in [Node -> Call]
    BY <1>3, <2>2, MadeCalls, 0 \in 0..AnswerTime DEF CoordinatorRead, TypeOK
  <2> QED BY <1>3, <2>1, <2>3 DEF CoordinatorRead, TypeOK
<1>4. CASE CoordinatorPoll(n)
  <2>1. ControlTypeOK'
    BY <1>4, PollType DEF CoordinatorPoll, TypeOK
  <2>2. Granted(n, n, TRUE) \in BOOLEAN /\ RestoreRequired(n, n, TRUE) \in BOOLEAN
    BY DEF Granted, RestoreRequired
  <2>3. StateOf(n, Granted(n, n, TRUE), RestoreRequired(n, n, TRUE)) \in Answer
    BY <1>2, <2>1, <2>2
  <2>4. call' \in [Node -> Call]
    BY <1>4, <2>3, MadeCalls, 0 \in 0..AnswerTime DEF CoordinatorPoll, TypeOK
  <2>5. owner' # owner => snap[n] \in SnapshotRow
    BY <1>4 DEF CoordinatorPoll, Poll, Granted, Eligible, HasSnapshot, NewOwner, TypeOK, ControlTypeOK
  <2>6. line' \in [base : Content, since : Content, lost : BOOLEAN]
    BY <1>4, <2>5 DEF CoordinatorPoll, TypeOK, SnapshotRow
  <2> QED BY <1>4, <2>1, <2>4, <2>6 DEF CoordinatorPoll, TypeOK
<1>5. CASE ReadAnswer(n)
  <2>1. call[n].body \in Answer
    BY <1>5, CallShapes DEF ReadAnswer, Answered, TypeOK
  <2>2. call' \in [Node -> Call] /\ mode' \in [Node -> Mode] /\ latest' \in [Node -> Node \cup {NoNode}]
    <3>1. /\ call \in [Node -> Call] /\ mode \in [Node -> Mode]
          /\ latest \in [Node -> Node \cup {NoNode}]
      BY DEF TypeOK
    <3>2. call[n].body.owner \in Node
      BY <2>1 DEF Answer
    <3>3. Sent("poll") \in Call /\ Idle \in Call
      BY DEF Call, Sent
    <3>4. latest' \in [Node -> Node \cup {NoNode}]
      BY <1>5, <3>1, <3>2 DEF ReadAnswer
    <3>5. mode' \in [Node -> Mode]
      BY <1>5, <3>1 DEF ReadAnswer, Mode
    <3>6. call' \in [Node -> Call]
      BY <1>5, <3>1, <3>3 DEF ReadAnswer
    <3> QED BY <3>4, <3>5, <3>6
  <2> QED BY <1>5, <2>2 DEF ReadAnswer, TypeOK, ControlTypeOK
<1>6. CASE CallLost(n)
  <2>1. faults' \in 0..MaxFaults
    BY <1>6 DEF CallLost, Fault, TypeOK
  <2>2. call' \in [Node -> Call]
    BY <1>6 DEF CallLost, TypeOK, Call
  <2>3. line' \in [base : Content, since : Content, lost : BOOLEAN]
    BY <1>6, DroppedType DEF CallLost
  <2> QED BY <1>6, <2>1, <2>2, <2>3 DEF CallLost, TypeOK, ControlTypeOK
<1> QED BY <1>1, <1>3, <1>4, <1>5, <1>6

LEMMA ReceivedType ==
  ASSUME TypeOK, NEW n \in Node, Received(n)
  PROVE  /\ call[n].body \in Answer /\ call[n].age \in 0..AnswerTime /\ call[n].kind = "poll"
         /\ latest' \in [Node -> Node \cup {NoNode}]
         /\ auth' \in [Node -> [role : {"active", "proxy", "none"}, left : 0..AuthTime]]
         /\ ControlTypeOK' /\ edits' \in Content /\ faults' \in 0..MaxFaults
<1>1. call[n].body \in Answer /\ call[n].age \in 0..AnswerTime /\ call[n].kind = "poll"
  BY CallShapes DEF Received, Answered, TypeOK
<1>2. Authorized(call[n].body) \in [role : {"active", "proxy", "none"}, left : 0..AuthTime]
  BY <1>1 DEF Authorized
<1> QED
  BY <1>1, <1>2 DEF Received, TypeOK, ControlTypeOK, Answer, controlVars

LEMMA SyncType ==
  ASSUME TypeOK, NEW dir \in {"pull", "push"}, Synchronize(dir) \/ UNCHANGED sync
  PROVE  sync' \in Sync
BY DEF Synchronize, TypeOK, Sync

RenewTyped ==
  /\ mode \in [Node -> Mode] /\ trans \in [Node -> Trans] /\ ports \in [Node -> 0..PortTime]
  /\ role \in [Node -> {"fenced", "active", "proxy"}]

LEMMA RenewType ==
  ASSUME TypeOK, NEW n \in Node, RenewActive(n) \/ RenewPassing(n) \/ StartActivation(n)
  PROVE  TypeOK'
<1> USE DEF hostVars, copyVars
<1>1. CASE RenewActive(n)
  <2>1. Received(n)
    BY <1>1 DEF RenewActive
  <2>2. UNCHANGED <<proxied, fenceDue, running, file, world>> /\ call' \in [Node -> Call]
    BY <1>1, MadeCalls DEF RenewActive, TypeOK
  <2>3. call[n].body.epoch \in 1..MaxEpoch
    BY <2>1, ReceivedType DEF Answer
  <2>8. RenewTyped
    BY DEF TypeOK, RenewTyped
  <2>4. ASSUME role[n] = "active" /\ call[n].body.requested \notin {NoNode, n}
       PROVE  RenewTyped'
    <3>1. /\ mode' = [mode EXCEPT ![n] = "handoff"] /\ ports' = [ports EXCEPT ![n] = 0]
          /\ role' = [role EXCEPT ![n] = "fenced"]
      BY <1>1, <2>4 DEF RenewActive
    <3>2. trans' = [trans EXCEPT ![n] =
                      [stage |-> "stopping", epoch |-> call[n].body.epoch, ok |-> FALSE]]
      BY <1>1, <2>4 DEF RenewActive
    <3>3. [stage |-> "stopping", epoch |-> call[n].body.epoch, ok |-> FALSE] \in Trans
      BY <2>3, MadeTrans
    <3>4. trans' \in [Node -> Trans]
      BY <3>2, <3>3 DEF TypeOK
    <3>5. mode' \in [Node -> Mode]
      BY <2>8, <3>1 DEF Mode, RenewTyped
    <3>6. role' \in [Node -> {"fenced", "active", "proxy"}] /\ ports' \in [Node -> 0..PortTime]
      BY <2>8, <3>1 DEF RenewTyped
    <3> QED BY <3>4, <3>5, <3>6 DEF RenewTyped
  <2>6. ASSUME ~(role[n] = "active" /\ call[n].body.requested \notin {NoNode, n})
       PROVE  RenewTyped'
    <3>1. mode' = mode /\ trans' = trans /\ role' = role
      BY <1>1, <2>6 DEF RenewActive
    <3>2. ports' = [ports EXCEPT ![n] = PortTime] \/ ports' = ports
      BY <1>1, <2>6 DEF RenewActive
    <3> QED BY <2>8, <3>1, <3>2 DEF RenewTyped
  <2>7. RenewTyped'
    BY <2>4, <2>6
  <2>5. late' \in BOOLEAN /\ sync' \in Sync
    <3>1. CASE sync.phase \in {"begun", "copied"} /\ sync' = [sync EXCEPT !.late = FALSE]
      <4> DEFINE S == [phase : {"begun", "copied"}, dir : {"pull", "push"}, epoch : 1..MaxEpoch,
                       age : 0..MaxAge + 1, late : BOOLEAN, id : Content]
      <4>2. sync \in S
        BY <3>1, SyncShapes DEF TypeOK
      <4>1. sync' \in S
        BY <3>1, <4>2
      <4> QED BY <1>1, <4>1 DEF RenewActive, TypeOK, Sync
    <3>2. CASE Synchronize("push") \/ UNCHANGED sync
      BY <1>1, <3>2, SyncType DEF RenewActive, TypeOK
    <3> QED BY <1>1, <3>1, <3>2 DEF RenewActive, MaybeSynchronize
  <2>9. line' \in [base : Content, since : Content, lost : BOOLEAN]
    BY <1>1, DroppedType DEF RenewActive
  <2> QED BY <2>1, <2>2, <2>5, <2>7, <2>9, ReceivedType DEF TypeOK, RenewTyped
<1>2. CASE RenewPassing(n)
  <2>1. line' \in [base : Content, since : Content, lost : BOOLEAN]
    BY <1>2, DroppedType DEF RenewPassing
  <2> QED BY <1>2, <2>1, ReceivedType, MadeCalls DEF RenewPassing, TypeOK
<1>3. CASE StartActivation(n)
  <2>1. Received(n)
    BY <1>3 DEF StartActivation
  <2>2. call[n].body \in Answer
    BY <2>1, ReceivedType
  <2>3. /\ UNCHANGED <<proxied, fenceDue, world, sync, late>> /\ call' \in [Node -> Call]
        /\ mode' \in [Node -> Mode] /\ trans' \in [Node -> Trans]
    BY <1>3, MadeCalls DEF StartActivation, TypeOK, Mode, Trans
  <2>4. file' \in [Node -> [restore : BOOLEAN, epoch : 0..MaxEpoch,
                           copy : SnapshotRow \cup {NoSnapshot}]]
    <3> DEFINE S == [restore : BOOLEAN, epoch : 0..MaxEpoch, copy : SnapshotRow \cup {NoSnapshot}]
               wanted == call[n].body.restore \/ (file[n].restore /\ file[n].epoch = call[n].body.epoch)
    <3>1. file \in [Node -> S]
      BY DEF TypeOK
    <3>2. /\ call[n].body.epoch \in 0..MaxEpoch
          /\ call[n].body.own \in SnapshotRow \cup {NoSnapshot}
      BY <2>2 DEF Answer
    <3>3. wanted \in BOOLEAN
      OBVIOUS
    <3>4. [restore |-> wanted, epoch |-> call[n].body.epoch, copy |-> call[n].body.own] \in S
      BY <3>2, <3>3
    <3>5. file' = [file EXCEPT ![n] = [restore |-> wanted, epoch |-> call[n].body.epoch,
                                       copy |-> call[n].body.own]]
      BY <1>3 DEF StartActivation
    <3> HIDE DEF S, wanted
    <3>6. file' \in [Node -> S]
      BY <3>1, <3>4, <3>5
    <3> QED BY <3>6 DEF S
  <2>5. /\ ports' \in [Node -> 0..PortTime] /\ running' \in [Node -> BOOLEAN]
        /\ role' \in [Node -> {"fenced", "active", "proxy"}]
    BY <1>3, ClosedType DEF StartActivation, TypeOK, FencedOK
  <2>6. line' \in [base : Content, since : Content, lost : BOOLEAN]
    BY <1>3 DEF StartActivation, TypeOK
  <2> QED BY <2>1, <2>3, <2>4, <2>5, <2>6, ReceivedType DEF TypeOK
<1> QED BY <1>1, <1>2, <1>3

LEMMA DeniedType ==
  ASSUME TypeOK, NEW n \in Node,
         Denied(n) \/ BecomeProxy(n) \/ NobodyServes(n) \/ Watchdog(n)
  PROVE  TypeOK'
<1> USE DEF controlVars, hostVars, copyVars
<1>1. FencedOK
  BY DEF TypeOK, FencedOK
<1>2. CASE Denied(n)
  <2>1. Received(n) /\ UNCHANGED <<trans, file, world, sync, late>>
    BY <1>2 DEF Denied
  <2>2. FencedOK'
    BY <1>1, <1>2, FenceType DEF Denied
  <2>3. call' \in [Node -> Call]
    <3> DEFINE S == [phase : {"answered", "blocked"}, kind : {"poll", "read"},
                     age : 0..AnswerTime, body : Answer]
    <3>2. call[n] \in S
      BY <2>1, CallShapes DEF Received, Answered, TypeOK
    <3>3. [call[n] EXCEPT !.phase = "blocked"] \in S
      BY <3>2
    <3>1. [call[n] EXCEPT !.phase = "blocked"] \in Call
      BY <3>3 DEF Call
    <3> QED BY <1>2, <3>1 DEF Denied, TypeOK
  <2>4. line' \in [base : Content, since : Content, lost : BOOLEAN]
    BY <1>2 DEF Denied, TypeOK
  <2> QED BY <2>1, <2>2, <2>3, <2>4, ReceivedType DEF TypeOK, FencedOK
<1>3. CASE BecomeProxy(n)
  <2>1. call[n].body \in Answer
    BY <1>3, CallShapes DEF BecomeProxy, TypeOK
  <2>4. call' \in [Node -> Call] /\ mode' \in [Node -> Mode]
    BY <1>3, MadeCalls DEF BecomeProxy, TypeOK, Mode
  <2>5. proxied' \in [Node -> 0..MaxEpoch]
    <3>1. proxied' = [proxied EXCEPT ![n] = call[n].body.epoch]
      BY <1>3 DEF BecomeProxy
    <3>2. call[n].body.epoch \in 0..MaxEpoch
      BY <2>1 DEF Answer
    <3> QED BY <3>1, <3>2 DEF TypeOK
  <2>6. role' \in [Node -> {"fenced", "active", "proxy"}] /\ running' \in [Node -> BOOLEAN]
    BY <1>3 DEF BecomeProxy, TypeOK
  <2>7. ports' \in [Node -> 0..PortTime]
    BY <1>3 DEF BecomeProxy, TypeOK
  <2>2. /\ call' \in [Node -> Call] /\ mode' \in [Node -> Mode]
        /\ proxied' \in [Node -> 0..MaxEpoch]
        /\ role' \in [Node -> {"fenced", "active", "proxy"}]
        /\ running' \in [Node -> BOOLEAN] /\ ports' \in [Node -> 0..PortTime]
    BY <2>4, <2>5, <2>6, <2>7
  <2>3. sync' \in Sync
    BY <1>3, SyncType DEF BecomeProxy, MaybeSynchronize
  <2> QED BY <1>3, <2>2, <2>3 DEF BecomeProxy, TypeOK, ControlTypeOK
<1>4. CASE NobodyServes(n)
  <2>1. FencedOK'
    BY <1>1, <1>4, FenceType DEF NobodyServes
  <2>2. call' \in [Node -> Call]
    BY <1>4, MadeCalls DEF NobodyServes, TypeOK
  <2> QED BY <1>4, <2>1, <2>2 DEF NobodyServes, TypeOK, ControlTypeOK, FencedOK
<1>5. CASE Watchdog(n)
  <2>1. FencedOK'
    BY <1>1, <1>5, FenceType DEF Watchdog
  <2> QED BY <1>5, <2>1 DEF Watchdog, TypeOK, ControlTypeOK, FencedOK
<1> QED BY <1>2, <1>3, <1>4, <1>5

LEMMA ActivationType ==
  ASSUME TypeOK, NEW n \in Node, ActivationDone(n) \/ ActivationFails(n)
  PROVE  TypeOK'
<1> USE DEF controlVars, hostVars, copyVars
<1>1. CASE ActivationDone(n)
  <2>7. /\ mode \in [Node -> Mode] /\ trans \in [Node -> Trans]
        /\ proxied \in [Node -> 0..MaxEpoch] /\ fenceDue \in [Node -> BOOLEAN]
        /\ role \in [Node -> {"fenced", "active", "proxy"}]
        /\ running \in [Node -> BOOLEAN] /\ ports \in [Node -> 0..PortTime]
    BY DEF TypeOK
  <2>8. PICK opens \in BOOLEAN :
          /\ mode' = [mode EXCEPT ![n] = IF opens THEN "active" ELSE "fenced"]
          /\ trans' = [trans EXCEPT ![n] = Free]
          /\ proxied' = [proxied EXCEPT ![n] = IF opens \/ mode[n] # "fenced" THEN 0 ELSE @]
          /\ fenceDue' = [fenceDue EXCEPT ![n] = FALSE]
          /\ role' = [role EXCEPT ![n] = IF opens THEN "active" ELSE "fenced"]
          /\ running' = [running EXCEPT ![n] = opens]
          /\ ports' = [ports EXCEPT ![n] = IF opens THEN PortTime ELSE 0]
    <3>1. (~fenceDue[n] /\ ~Stale(n) /\ latest[n] = n) \in BOOLEAN
      OBVIOUS
    <3> QED BY <1>1, <3>1, Zenon DEF ActivationDone
  <2>4. mode' \in [Node -> Mode] /\ trans' \in [Node -> Trans]
    BY <2>7, <2>8, MadeTrans DEF Mode
  <2>5. proxied' \in [Node -> 0..MaxEpoch] /\ fenceDue' \in [Node -> BOOLEAN]
    BY <2>7, <2>8
  <2>6. /\ role' \in [Node -> {"fenced", "active", "proxy"}]
        /\ running' \in [Node -> BOOLEAN] /\ ports' \in [Node -> 0..PortTime]
    BY <2>7, <2>8
  <2>1. /\ mode' \in [Node -> Mode] /\ trans' \in [Node -> Trans]
        /\ proxied' \in [Node -> 0..MaxEpoch] /\ fenceDue' \in [Node -> BOOLEAN]
        /\ role' \in [Node -> {"fenced", "active", "proxy"}]
        /\ running' \in [Node -> BOOLEAN] /\ ports' \in [Node -> 0..PortTime]
    BY <2>4, <2>5, <2>6
  <2>2. file' \in [Node -> [restore : BOOLEAN, epoch : 0..MaxEpoch,
                           copy : SnapshotRow \cup {NoSnapshot}]]
    <3>1. file' = [file EXCEPT ![n] = [file[n] EXCEPT !.restore = FALSE]]
      BY <1>1 DEF ActivationDone
    <3> DEFINE S == [restore : BOOLEAN, epoch : 0..MaxEpoch, copy : SnapshotRow \cup {NoSnapshot}]
    <3>3. file[n] \in S
      BY DEF TypeOK
    <3>2. [file[n] EXCEPT !.restore = FALSE] \in S
      BY <3>3
    <3>4. file \in [Node -> S]
      BY DEF TypeOK
    <3> HIDE DEF S
    <3>5. file' \in [Node -> S]
      BY <3>1, <3>2, <3>4
    <3> QED BY <3>5 DEF S
  <2>3. world' \in [Node -> Content]
    BY <1>1 DEF ActivationDone, TypeOK, CopyMatches, SnapshotRow
  <2> QED BY <1>1, <2>1, <2>2, <2>3 DEF ActivationDone, TypeOK, ControlTypeOK
<1>2. CASE ActivationFails(n)
  <2>3. /\ mode \in [Node -> Mode] /\ trans \in [Node -> Trans]
        /\ proxied \in [Node -> 0..MaxEpoch] /\ fenceDue \in [Node -> BOOLEAN]
        /\ faults \in 0..MaxFaults
    BY DEF TypeOK
  <2>4. /\ mode' = [mode EXCEPT ![n] = "fenced"] /\ trans' = [trans EXCEPT ![n] = Free]
        /\ proxied' = [proxied EXCEPT ![n] = IF mode[n] # "fenced" THEN 0 ELSE @]
        /\ fenceDue' = [fenceDue EXCEPT ![n] = FALSE]
        /\ faults' = faults \/ (faults < MaxFaults /\ faults' = faults + 1)
    BY <1>2 DEF ActivationFails, Fault
  <2>1. /\ mode' \in [Node -> Mode] /\ trans' \in [Node -> Trans]
        /\ proxied' \in [Node -> 0..MaxEpoch] /\ fenceDue' \in [Node -> BOOLEAN]
        /\ faults' \in 0..MaxFaults
    <3>1. faults' \in 0..MaxFaults
      BY <2>3, <2>4
    <3> QED BY <2>3, <2>4, <3>1, MadeTrans DEF Mode
  <2>2. /\ ports' \in [Node -> 0..PortTime] /\ running' \in [Node -> BOOLEAN]
        /\ role' \in [Node -> {"fenced", "active", "proxy"}]
    BY <1>2, ClosedType DEF ActivationFails, TypeOK, FencedOK
  <2> QED BY <1>2, <2>1, <2>2 DEF ActivationFails, TypeOK, ControlTypeOK
<1> QED BY <1>1, <1>2

LEMMA TransUpdate ==
  ASSUME TypeOK, NEW n \in Node, NEW st \in {"copying", "releasing", "answered"}, NEW b \in BOOLEAN,
         trans[n].stage \in {"stopping", "copying", "releasing"}
  PROVE  /\ [trans EXCEPT ![n].stage = st] \in [Node -> Trans]
         /\ [trans EXCEPT ![n].stage = st, ![n].ok = b] \in [Node -> Trans]
<1> DEFINE S == [stage : {"stopping", "copying", "releasing", "answered"}, epoch : 1..MaxEpoch,
                 ok : BOOLEAN]
<1>1. trans[n] \in S
  BY TransShapes DEF TypeOK
<1>2. [trans[n] EXCEPT !.stage = st] \in S
  BY <1>1
<1>3. [trans[n] EXCEPT !.stage = st, !.ok = b] \in S
  BY <1>1
<1>4. S \subseteq Trans
  BY DEF Trans
<1>5. trans \in [Node -> Trans]
  BY DEF TypeOK
<1> HIDE DEF S
<1> QED BY <1>2, <1>3, <1>4, <1>5

LEMMA HandoffType ==
  ASSUME TypeOK, NEW n \in Node,
         HandoffStopped(n) \/ CopySeen(n) \/ HandoffRelease(n) \/ HandoffReleased(n) \/ HandoffFails(n)
  PROVE  TypeOK'
<1> USE DEF controlVars, hostVars, copyVars
<1>1. FencedOK
  BY DEF TypeOK, FencedOK
<1>2. CASE HandoffStopped(n)
  <2>1. trans' \in [Node -> Trans]
    BY <1>2, TransUpdate DEF HandoffStopped
  <2>2. /\ ports' \in [Node -> 0..PortTime] /\ running' \in [Node -> BOOLEAN]
        /\ role' \in [Node -> {"fenced", "active", "proxy"}]
    BY <1>1, <1>2, ClosedType DEF HandoffStopped
  <2>3. fenceDue' \in [Node -> BOOLEAN]
    BY <1>2 DEF HandoffStopped, TypeOK
  <2>4. sync' \in Sync
    BY <1>2, SyncType DEF HandoffStopped
  <2> QED BY <1>2, <2>1, <2>2, <2>3, <2>4 DEF HandoffStopped, TypeOK, ControlTypeOK
<1>3. CASE CopySeen(n)
  <2>1. trans' \in [Node -> Trans]
    BY <1>3, TransUpdate DEF CopySeen
  <2>2. mode' \in [Node -> Mode]
    BY <1>3 DEF CopySeen, TypeOK, Mode
  <2> QED BY <1>3, <2>1, <2>2 DEF CopySeen, TypeOK, ControlTypeOK
<1>4. CASE HandoffRelease(n)
  <2>1. trans' \in [Node -> Trans]
    <3>1. Releases(n, n, trans[n].epoch) \in BOOLEAN
      BY DEF Releases, ReleaseReady, HasSnapshot
    <3> QED BY <1>4, <3>1, TransUpdate DEF HandoffRelease
  <2>2. ControlTypeOK'
    BY <1>4, ReleaseType DEF HandoffRelease, TypeOK
  <2> QED BY <1>4, <2>1, <2>2 DEF HandoffRelease, TypeOK
<1>5. CASE HandoffReleased(n)
  <2>1. trans' \in [Node -> Trans]
    BY <1>5, MadeTrans DEF HandoffReleased, TypeOK
  <2>2. mode' \in [Node -> Mode]
    BY <1>5 DEF HandoffReleased, TypeOK, Mode
  <2> QED BY <1>5, <2>1, <2>2 DEF HandoffReleased, TypeOK, ControlTypeOK
<1>6. CASE HandoffFails(n)
  <2>1. trans' \in [Node -> Trans]
    BY <1>6, MadeTrans DEF HandoffFails, TypeOK
  <2>2. FencedOK'
    BY <1>1, <1>6, FenceType DEF HandoffFails
  <2>3. faults' \in 0..MaxFaults
    BY <1>6 DEF HandoffFails, Fault, TypeOK
  <2> QED BY <1>6, <2>1, <2>2, <2>3 DEF HandoffFails, TypeOK, ControlTypeOK, FencedOK
<1> QED BY <1>2, <1>3, <1>4, <1>5, <1>6

LEMMA CopyEndsType ==
  ASSUME TypeOK, NEW b \in BOOLEAN,
         CopyEnds(b) \/ UNCHANGED <<trans, mode, proxied, fenceDue, ports, role, running>>
  PROVE  trans' \in [Node -> Trans] /\ FencedOK'
<1>1. FencedOK /\ trans \in [Node -> Trans] /\ "pc" \in Node
  BY DEF TypeOK, FencedOK, Node
<1>2. CASE UNCHANGED <<trans, mode, proxied, fenceDue, ports, role, running>>
  BY <1>1, <1>2 DEF FencedOK
<1>3. CASE CopyEnds(b) /\ trans["pc"].stage = "copying" /\ b
  <2>1. trans' \in [Node -> Trans]
    <3>1. trans' = [trans EXCEPT !["pc"].stage = "releasing"]
      BY <1>3 DEF CopyEnds
    <3> QED BY <1>1, <1>3, <3>1, TransUpdate
  <2>2. mode' \in [Node -> Mode]
    BY <1>1, <1>3 DEF CopyEnds, FencedOK, Mode
  <2> QED BY <1>1, <1>3, <2>1, <2>2 DEF CopyEnds, FencedOK
<1>4. CASE CopyEnds(b) /\ trans["pc"].stage = "copying" /\ ~b
  <2>1. trans' \in [Node -> Trans]
    BY <1>1, <1>4, MadeTrans DEF CopyEnds
  <2>2. FencedOK'
    BY <1>1, <1>4, FenceType DEF CopyEnds
  <2> QED BY <2>1, <2>2
<1>5. CASE CopyEnds(b) /\ trans["pc"].stage # "copying"
  BY <1>2, <1>5 DEF CopyEnds
<1> QED BY <1>2, <1>3, <1>4, <1>5

LEMMA CopyingType ==
  ASSUME TypeOK, Copying
  PROVE  TypeOK'
<1> USE DEF controlVars, agentVars, hostVars, copyVars
<1> DEFINE S == [phase : {"begun", "copied"}, dir : {"pull", "push"}, epoch : 1..MaxEpoch,
                 age : 0..MaxAge + 1, late : BOOLEAN, id : Content]
<1>1. CASE SyncBegins
  <2>1. trans' \in [Node -> Trans] /\ FencedOK'
    BY <1>1, CopyEndsType DEF SyncBegins
  <2>2. sync' \in Sync
    <3>1. sync.dir \in {"pull", "push"} /\ epoch \in 1..MaxEpoch /\ 0 \in Content
      BY <1>1, SyncShapes DEF SyncBegins, TypeOK, ControlTypeOK
    <3>2. [phase |-> "begun", dir |-> sync.dir, epoch |-> epoch, age |-> 0,
           late |-> trans["vps"].stage \in {"stopping", "copying"}, id |-> 0] \in S
      BY <3>1
    <3>3. sync' \in S \cup {NoSync}
      BY <1>1, <3>2 DEF SyncBegins
    <3> QED BY <3>3 DEF Sync
  <2> QED BY <1>1, <2>1, <2>2 DEF SyncBegins, TypeOK, ControlTypeOK, FencedOK
<1>2. CASE SyncCopies
  <2>1. sync \in S
    BY <1>2, SyncShapes DEF SyncCopies, TypeOK
  <2>2. world[Source(sync.dir)] \in Content
    BY DEF Source, TypeOK, Node
  <2>3. sync' \in S
    BY <1>2, <2>1, <2>2 DEF SyncCopies
  <2>4. sync' \in Sync
    BY <2>3 DEF Sync
  <2> QED BY <1>2, <2>4 DEF SyncCopies, TypeOK, ControlTypeOK
<1>3. CASE SyncPublishes
  <2>1. sync \in S
    BY <1>3, SyncShapes DEF SyncPublishes, TypeOK
  <2>2. Source(sync.dir) \in Node /\ Other(Source(sync.dir)) \in Node
    BY DEF Source, Other, Node
  <2>3. ControlTypeOK'
    BY <1>3, <2>1, <2>2, RecordType DEF SyncPublishes, TypeOK
  <2>4. trans' \in [Node -> Trans] /\ FencedOK'
    <3>1. Accepts(Source(sync.dir), sync.epoch) \in BOOLEAN
      BY DEF Accepts
    <3> QED BY <1>3, <3>1, CopyEndsType DEF SyncPublishes
  <2>5. sync' \in Sync /\ late' \in BOOLEAN
    BY <1>3, <2>1 DEF SyncPublishes, Sync, TypeOK
  <2> QED BY <1>3, <2>3, <2>4, <2>5 DEF SyncPublishes, TypeOK, FencedOK
<1>4. CASE SyncFails
  <2>1. trans' \in [Node -> Trans] /\ FencedOK'
    BY <1>4, CopyEndsType DEF SyncFails
  <2>2. sync' \in Sync /\ faults' \in 0..MaxFaults
    BY <1>4 DEF SyncFails, Sync, Fault, TypeOK
  <2> QED BY <1>4, <2>1, <2>2 DEF SyncFails, TypeOK, ControlTypeOK, FencedOK
<1> QED BY <1>1, <1>2, <1>3, <1>4 DEF Copying

LEMMA WorldType ==
  ASSUME TypeOK, (\E n \in Node : Play(n) \/ Crash(n)) \/ Admin
  PROVE  TypeOK'
<1> USE DEF controlVars, agentVars, hostVars, copyVars
<1>1. ASSUME NEW n \in Node, Play(n) PROVE TypeOK'
  <2>1. edits + 1 \in Content
    BY <1>1 DEF Play, TypeOK
  <2>2. edits' \in Content /\ world' \in [Node -> Content]
    BY <1>1, <2>1 DEF Play, TypeOK
  <2> QED BY <1>1, <2>2 DEF Play, TypeOK, ControlTypeOK
<1>2. ASSUME NEW n \in Node, Crash(n) PROVE TypeOK'
  <2>1. mode' \in [Node -> Mode]
    BY <1>2 DEF Crash, TypeOK, Mode
  <2>2. call' \in [Node -> Call] /\ trans' \in [Node -> Trans]
    BY <1>2, MadeCalls, MadeTrans DEF Crash, TypeOK
  <2>3. latest' \in [Node -> Node \cup {NoNode}] /\ proxied' \in [Node -> 0..MaxEpoch]
    BY <1>2 DEF Crash, TypeOK
  <2>4. /\ auth' \in [Node -> [role : {"active", "proxy", "none"}, left : 0..AuthTime]]
        /\ fenceDue' \in [Node -> BOOLEAN]
    BY <1>2 DEF Crash, TypeOK
  <2>5. /\ ports' \in [Node -> 0..PortTime] /\ running' \in [Node -> BOOLEAN]
        /\ role' \in [Node -> {"fenced", "active", "proxy"}]
    BY <1>2, ClosedType DEF Crash, TypeOK, FencedOK
  <2>6. sync' \in Sync /\ faults' \in 0..MaxFaults
    BY <1>2 DEF Crash, Sync, Fault, TypeOK
  <2>7. line' \in [base : Content, since : Content, lost : BOOLEAN]
    BY <1>2, DroppedType DEF Crash
  <2> QED BY <1>2, <2>1, <2>2, <2>3, <2>4, <2>5, <2>6, <2>7 DEF Crash, TypeOK, ControlTypeOK
<1>3. CASE Admin
  <2>1. ControlTypeOK'
    BY <1>3, AdminType DEF TypeOK
  <2> QED BY <1>3, <2>1 DEF Admin, TypeOK
<1> QED BY <1>1, <1>2, <1>3

LEMMA AgedCall ==
  ASSUME NEW c \in Call, c.phase = "answered" => c.age < AnswerTime
  PROVE  /\ Aged(c) \in Call /\ Aged(c).phase = c.phase
         /\ c.phase \in {"answered", "blocked"} => Aged(c).body = c.body /\ Aged(c).kind = c.kind
         /\ c.phase = "answered" => Aged(c).age = c.age + 1
<1>1. CASE c.phase # "answered"
  BY <1>1 DEF Aged
<1>2. CASE c.phase = "answered"
  <2> DEFINE S == [phase : {"answered", "blocked"}, kind : {"poll", "read"},
                   age : 0..AnswerTime, body : Answer]
  <2>1. c \in S
    BY <1>2, CallShapes
  <2>2. Aged(c) = [c EXCEPT !.age = c.age + 1]
    BY <1>2 DEF Aged
  <2>3. c.age + 1 \in 0..AnswerTime
    BY <1>2, <2>1
  <2>4. /\ [c EXCEPT !.age = c.age + 1] \in S /\ [c EXCEPT !.age = c.age + 1].age = c.age + 1
        /\ [c EXCEPT !.age = c.age + 1].phase = c.phase /\ [c EXCEPT !.age = c.age + 1].body = c.body
        /\ [c EXCEPT !.age = c.age + 1].kind = c.kind
    BY <2>1, <2>3
  <2> QED BY <2>2, <2>4 DEF Call
<1> QED BY <1>1, <1>2

LEMMA PassingType ==
  ASSUME TypeOK, Tick
  PROVE  TypeOK'
<1>1. ControlTypeOK'
  BY TickType DEF Tick, TypeOK
<1>2. call' \in [Node -> Call]
  BY AgedCall DEF Tick, TypeOK
<1>3. auth' \in [Node -> [role : {"active", "proxy", "none"}, left : 0..AuthTime]]
  <2> DEFINE S == [role : {"active", "proxy", "none"}, left : 0..AuthTime]
  <2>1. \A n \in Node : auth[n] \in S
    BY DEF TypeOK
  <2>2. \A n \in Node : (IF auth[n].left = 0 THEN 0 ELSE auth[n].left - 1) \in 0..AuthTime
    BY <2>1
  <2>3. \A n \in Node : [auth[n] EXCEPT !.left = IF auth[n].left = 0 THEN 0 ELSE auth[n].left - 1] \in S
    BY <2>1, <2>2
  <2> QED BY <2>3 DEF Tick
<1>4. ports' \in [Node -> 0..PortTime]
  <2>1. \A n \in Node : ports[n] \in 0..PortTime
    BY DEF TypeOK
  <2>2. \A n \in Node : (IF ports[n] = 0 THEN 0 ELSE ports[n] - 1) \in 0..PortTime
    BY <2>1
  <2> QED BY <2>2 DEF Tick
<1>5. sync' \in Sync
  <2> DEFINE S == [phase : {"begun", "copied"}, dir : {"pull", "push"}, epoch : 1..MaxEpoch,
                   age : 0..MaxAge + 1, late : BOOLEAN, id : Content]
  <2>1. CASE sync.phase \in {"begun", "copied"} /\ sync.age <= MaxAge
    <3>1. sync \in S
      BY <2>1, SyncShapes DEF TypeOK
    <3>2. sync.age + 1 \in 0..MaxAge + 1
      BY <2>1, <3>1
    <3>3. [sync EXCEPT !.age = sync.age + 1] \in S
      BY <3>1, <3>2
    <3> QED BY <2>1, <3>3 DEF Tick, Sync
  <2>2. CASE ~(sync.phase \in {"begun", "copied"} /\ sync.age <= MaxAge)
    BY <2>2 DEF Tick, TypeOK
  <2> QED BY <2>1, <2>2
<1> QED BY <1>1, <1>2, <1>3, <1>4, <1>5 DEF Tick, TypeOK

LEMMA InitType == Init => TypeOK
<1> SUFFICES ASSUME Init PROVE TypeOK
  OBVIOUS
<1>1. ControlTypeOK
  <2>1. DefaultPolicy \in Policy
    BY DEF DefaultPolicy, Policy, Node
  <2> QED BY <2>1 DEF Init, ControlInit, ControlTypeOK, Node
<1>2. mode \in [Node -> Mode]
  BY DEF Init, Mode
<1>3. call \in [Node -> Call] /\ trans \in [Node -> Trans]
  BY MadeCalls, MadeTrans DEF Init
<1>4. latest \in [Node -> Node \cup {NoNode}] /\ proxied \in [Node -> 0..MaxEpoch]
  BY DEF Init
<1>5. /\ auth \in [Node -> [role : {"active", "proxy", "none"}, left : 0..AuthTime]]
      /\ fenceDue \in [Node -> BOOLEAN]
  BY DEF Init
<1>6. /\ ports \in [Node -> 0..PortTime] /\ running \in [Node -> BOOLEAN]
      /\ role \in [Node -> {"fenced", "active", "proxy"}]
  BY DEF Init
<1>7. file \in [Node -> [restore : BOOLEAN, epoch : 0..MaxEpoch, copy : SnapshotRow \cup {NoSnapshot}]]
  BY DEF Init
<1>8. sync \in Sync /\ late \in BOOLEAN
  BY DEF Init, Sync
<1>9. world \in [Node -> Content] /\ edits \in Content /\ faults \in 0..MaxFaults
      /\ line \in [base : Content, since : Content, lost : BOOLEAN]
  BY DEF Init
<1> QED BY <1>1, <1>2, <1>3, <1>4, <1>5, <1>6, <1>7, <1>8, <1>9 DEF TypeOK

LEMMA NextType == TypeOK /\ [Next]_vars => TypeOK'
<1> SUFFICES ASSUME TypeOK, [Next]_vars PROVE TypeOK'
  OBVIOUS
<1>1. CASE \E n \in Node : Agent(n)
  BY <1>1, CallType, RenewType, DeniedType, ActivationType, HandoffType, WorldType DEF Agent
<1>2. CASE Copying
  BY <1>2, CopyingType
<1>3. CASE Admin
  BY <1>3, WorldType
<1>4. CASE Tick
  BY <1>4, PassingType
<1>5. CASE UNCHANGED vars
  BY <1>5 DEF vars, controlVars, agentVars, hostVars, copyVars, TypeOK, ControlTypeOK
<1> QED BY <1>1, <1>2, <1>3, <1>4, <1>5 DEF Next

(* Every variable of the agents, the hosts and the coordinator keeps its range. *)
THEOREM TypeCorrect == Spec => []TypeOK
<1> QED BY InitType, NextType, PTL DEF Spec

-----------------------------------------------------------------------------
\* Without planned switches no handoff begins.
Quiet ==
  /\ requested = NoNode /\ handoff = NoNode /\ policy.primary = "vps"
  /\ \A n \in Node :
       /\ trans[n].stage \in {"none", "restoring"}
       /\ call[n].phase \in {"answered", "blocked"} => call[n].body.requested = NoNode

\* A refused answer that still waits for the driver has withdrawn the authorization.
Withdrawn == \A n \in Node : call[n].phase = "blocked" => auth[n].role # "active"

\* The lease's session is its owner's, so a renewal never changes the owner.
Matched == session \in {NoSession, owner}

Inv == TypeOK /\ Quiet /\ Withdrawn /\ Matched /\ GrantsBacked

\* A step in which the coordinator stands still and the agents' evidence only shrinks.
Shrinks(m) ==
  /\ \/ call'[m] = call[m]
     \/ call'[m].phase \in {"idle", "sent"}
     \/ call'[m].phase = "answered" /\ ~call'[m].body.granted
     \/ call'[m].phase = "blocked" /\ auth'[m].role # "active"
  /\ auth'[m] = auth[m] \/ auth'[m].role # "active"
  /\ \/ ports'[m] = ports[m] /\ role'[m] = role[m]
     \/ ports'[m] = 0
     \/ role'[m] # "active"

LEMMA ShrinkingEvidence ==
  ASSUME TypeOK, Withdrawn, GrantsBacked, UNCHANGED <<owner, lease>>, \A m \in Node : Shrinks(m)
  PROVE  Withdrawn' /\ GrantsBacked'
<1> SUFFICES ASSUME NEW m \in Node
             PROVE  GrantChain(m)' /\ (call'[m].phase = "blocked" => auth'[m].role # "active")
  BY DEF GrantsBacked, Withdrawn
<1>1. GrantChain(m) /\ Shrinks(m) /\ (call[m].phase = "blocked" => auth[m].role # "active")
  BY DEF GrantsBacked, Withdrawn
<1>2. ports[m] \in Nat
  BY DEF TypeOK
<1> QED BY <1>1, <1>2 DEF Shrinks, GrantChain, Serves

\* A fence only closes.
LEMMA FenceShrinks ==
  ASSUME TypeOK, NEW n \in Node, NEW m \in Node,
         Fence(n) \/ UNCHANGED <<mode, proxied, fenceDue, ports, role, running>>
  PROVE  (ports'[m] = ports[m] /\ role'[m] = role[m]) \/ ports'[m] = 0
<1>1. ports \in [Node -> 0..PortTime] /\ role \in [Node -> {"fenced", "active", "proxy"}]
  BY DEF TypeOK
<1> QED BY <1>1 DEF Fence, Closed

\* A grant in force keeps every other node's claim away.
LEMMA BackedLease ==
  ASSUME TypeOK, GrantsBacked, NEW n \in Node,
         \/ call[n].phase = "answered" /\ call[n].body.granted
         \/ auth[n].role = "active" /\ auth[n].left > 0
         \/ Serves(n)
  PROVE  owner = n /\ lease > 0 /\ ~Claimable
<1>1. /\ GrantChain(n) /\ lease \in Int /\ policy.failure \in 1..MaxFailure
      /\ ports[n] \in Nat /\ auth[n].left \in Nat
  <2>1. GrantChain(n)
    BY DEF GrantsBacked
  <2>2. ControlTypeOK /\ ports[n] \in 0..PortTime
    BY DEF TypeOK
  <2>3. auth[n] \in [role : {"active", "proxy", "none"}, left : 0..AuthTime]
    BY DEF TypeOK
  <2>4. lease \in Int /\ policy.failure \in 1..MaxFailure
    BY <2>2 DEF ControlTypeOK, Policy
  <2> QED BY <2>1, <2>2, <2>3, <2>4
<1>2. call[n].phase = "answered" => call[n].age \in 0..AnswerTime
  BY CallShapes DEF TypeOK
<1>3. owner = n /\ lease > 0
  <2>1. CASE call[n].phase = "answered" /\ call[n].body.granted
    BY <1>1, <1>2, <2>1 DEF GrantChain
  <2>2. CASE auth[n].role = "active" /\ auth[n].left > 0
    BY <1>1, <2>2 DEF GrantChain
  <2>3. CASE Serves(n)
    BY <1>1, <2>3 DEF GrantChain, Serves
  <2> QED BY <2>1, <2>2, <2>3
<1> QED BY <1>1, <1>3 DEF Claimable

\* What Quiet needs of a step that leaves the switch columns alone.
LEMMA StaysQuiet ==
  ASSUME Quiet, UNCHANGED <<requested, handoff>>, policy'.primary = policy.primary,
         \A m \in Node : /\ trans'[m] = trans[m] \/ trans'[m].stage \in {"none", "restoring"}
                         /\ \/ call'[m].phase \in {"idle", "sent"}
                            \/ call'[m].body.requested = NoNode
                            \/ /\ call[m].phase \in {"answered", "blocked"}
                               /\ call'[m].body = call[m].body
  PROVE  Quiet'
BY DEF Quiet

LEMMA PollBacks ==
  ASSUME Inv, NEW n \in Node, CoordinatorPoll(n)
  PROVE  Quiet' /\ Withdrawn' /\ Matched' /\ GrantsBacked'
<1> DEFINE granted == Granted(n, n, TRUE)
<1>1. /\ Poll(n, n, TRUE) /\ UNCHANGED <<trans, auth, role, ports>>
      /\ call' = [call EXCEPT ![n] = [phase |-> "answered", kind |-> "poll", age |-> 0,
                      body |-> StateOf(n, granted, RestoreRequired(n, n, TRUE))]]
  BY DEF CoordinatorPoll, agentVars, hostVars
<1>2. /\ call'[n].phase = "answered" /\ call'[n].age = 0 /\ call'[n].body.granted = granted
      /\ call'[n].body.requested = requested'
      /\ \A m \in Node \ {n} : call'[m] = call[m]
  BY <1>1 DEF StateOf, Inv, TypeOK
<1>3. /\ policy' = policy /\ requested' \in {requested, NoNode} /\ handoff' \in {handoff, NoNode}
  BY <1>1 DEF Poll, NewOwner
<1>4. Quiet'
  BY <1>1, <1>2, <1>3 DEF Inv, Quiet
<1>5. Withdrawn'
  BY <1>1, <1>2 DEF Inv, Withdrawn
<1>6. CASE ~granted
  <2>1. UNCHANGED <<owner, session, lease>>
    BY <1>1, <1>6 DEF Poll
  <2>2. \A m \in Node : Shrinks(m)
    BY <1>1, <1>2, <1>6 DEF Shrinks
  <2> QED BY <1>4, <2>1, <2>2, ShrinkingEvidence DEF Inv, Matched
<1>7. CASE granted
  <2>1. owner' = n /\ lease' = LeaseTime /\ session' = n
    <3>1. CASE session = n
      <4>1. owner = n
        BY <3>1 DEF Inv, Matched
      <4> QED BY <1>1, <1>7, <3>1, <4>1 DEF Poll, Renew
    <3>2. CASE session # n
      BY <1>1, <1>7, <3>2 DEF Poll, NewOwner, Renew
    <3> QED BY <3>1, <3>2
  <2>2. ASSUME NEW m \in Node \ {n} PROVE GrantChain(m)'
    <3>1. call'[m] = call[m] /\ auth'[m] = auth[m] /\ Serves(m)' = Serves(m)
      BY <1>1, <1>2 DEF Serves
    <3>2. ~(\/ call[m].phase = "answered" /\ call[m].body.granted
            \/ auth[m].role = "active" /\ auth[m].left > 0
            \/ Serves(m))
      <4>1. owner = n \/ Claimable
        BY <1>7 DEF Granted
      <4> QED BY <4>1, BackedLease DEF Inv
    <3> QED BY <3>1, <3>2 DEF GrantChain
  <2>3. GrantChain(n)'
    <3>1. auth[n].left \in 0..AuthTime /\ ports[n] \in 0..PortTime
      BY DEF Inv, TypeOK
    <3>2. auth'[n] = auth[n] /\ ports'[n] = ports[n]
      BY <1>1
    <3>3. auth'[n].left \in 0..AuthTime /\ ports'[n] \in 0..PortTime /\ call'[n].age = 0
      BY <1>2, <3>1, <3>2
    <3>4. /\ lease' >= LeaseTime - call'[n].age
          /\ lease' >= LeaseTime - AnswerTime - AuthTime + auth'[n].left
          /\ lease' >= LeaseTime - AnswerTime - AuthTime - PortTime + ports'[n]
      <4> HIDE DEF granted
      <4> QED BY <2>1, <3>3
    <3> QED BY <2>1, <3>4 DEF GrantChain
  <2>4. GrantsBacked'
    BY <2>2, <2>3 DEF GrantsBacked
  <2> QED BY <1>4, <1>5, <2>1, <2>4 DEF Matched
<1> QED BY <1>6, <1>7

LEMMA TickBacks ==
  ASSUME Inv, Tick
  PROVE  Quiet' /\ Withdrawn' /\ Matched' /\ GrantsBacked'
<1>1. /\ UNCHANGED <<owner, session, policy, requested, handoff, trans, role>>
      /\ lease' = IF lease = -MaxFailure THEN lease ELSE lease - 1
      /\ call' = [n \in Node |-> Aged(call[n])]
      /\ auth' = [n \in Node |-> [auth[n] EXCEPT !.left = IF @ = 0 THEN 0 ELSE @ - 1]]
      /\ ports' = [n \in Node |-> IF ports[n] = 0 THEN 0 ELSE ports[n] - 1]
  BY DEF Tick, ControlTick
<1>2. ASSUME NEW n \in Node
      PROVE  /\ call'[n].phase = call[n].phase
             /\ call[n].phase \in {"answered", "blocked"} => call'[n].body = call[n].body
             /\ call[n].phase = "answered" =>
                  call[n].age \in 0..AnswerTime /\ call'[n].age = call[n].age + 1
  <2>1. call[n] \in Call /\ (call[n].phase = "answered" => call[n].age < AnswerTime)
    BY DEF Inv, TypeOK, Tick
  <2>2. call'[n] = Aged(call[n])
    BY <1>1
  <2> QED BY <2>1, <2>2, AgedCall, CallShapes
<1>3. ASSUME NEW n \in Node
      PROVE  /\ auth[n].left \in 0..AuthTime /\ auth'[n].role = auth[n].role
             /\ auth'[n].left > 0 => auth[n].left > 0 /\ auth'[n].left = auth[n].left - 1
  <2>1. auth[n] \in [role : {"active", "proxy", "none"}, left : 0..AuthTime]
    BY DEF Inv, TypeOK
  <2>2. auth'[n] = [auth[n] EXCEPT !.left = IF auth[n].left = 0 THEN 0 ELSE auth[n].left - 1]
    BY <1>1
  <2>3. auth'[n].role = auth[n].role /\ auth'[n].left = IF auth[n].left = 0 THEN 0 ELSE auth[n].left - 1
    BY <2>1, <2>2
  <2>4. auth[n].left \in 0..AuthTime
    BY <2>1
  <2> QED BY <2>3, <2>4
<1>4. ASSUME NEW n \in Node
      PROVE  /\ ports[n] \in 0..PortTime
             /\ Serves(n)' => Serves(n) /\ ports'[n] = ports[n] - 1
  <2>1. ports[n] \in 0..PortTime
    BY DEF Inv, TypeOK
  <2> QED BY <1>1, <2>1 DEF Serves
<1>5. Quiet'
  BY <1>1, <1>2, StaysQuiet, CallShapes DEF Inv, TypeOK
<1>6. Withdrawn'
  BY <1>2, <1>3 DEF Inv, Withdrawn
<1>7. ASSUME NEW n \in Node PROVE GrantChain(n)'
  <2>1. GrantChain(n) /\ lease \in Int
    BY DEF Inv, GrantsBacked, TypeOK, ControlTypeOK
  <2>2. lease > 0 => lease' = lease - 1
    BY <1>1, <2>1
  <2>3. /\ call'[n].phase = "answered" /\ call'[n].body.granted
        => owner' = n /\ lease' >= LeaseTime - call'[n].age
    <3> SUFFICES ASSUME call'[n].phase = "answered", call'[n].body.granted
                 PROVE  owner' = n /\ lease' >= LeaseTime - call'[n].age
      OBVIOUS
    <3>1. call[n].phase = "answered" /\ call[n].body.granted
      BY <1>2
    <3>2. owner = n /\ lease > 0
      BY <3>1, BackedLease DEF Inv
    <3>3. lease >= LeaseTime - call[n].age
      BY <2>1, <3>1 DEF GrantChain
    <3>4. lease' = lease - 1 /\ owner' = n
      BY <1>1, <2>2, <3>2
    <3>5. call[n].age \in 0..AnswerTime /\ call'[n].age = call[n].age + 1
      BY <1>2, <3>1
    <3> QED BY <2>1, <3>3, <3>4, <3>5
  <2>4. /\ auth'[n].role = "active" /\ auth'[n].left > 0
        => owner' = n /\ lease' >= LeaseTime - AnswerTime - AuthTime + auth'[n].left
    <3> SUFFICES ASSUME auth'[n].role = "active", auth'[n].left > 0
                 PROVE  owner' = n /\ lease' >= LeaseTime - AnswerTime - AuthTime + auth'[n].left
      OBVIOUS
    <3>1. auth[n].role = "active" /\ auth[n].left > 0 /\ auth'[n].left = auth[n].left - 1
      BY <1>3
    <3>2. owner = n /\ lease > 0
      BY <3>1, BackedLease DEF Inv
    <3>3. lease >= LeaseTime - AnswerTime - AuthTime + auth[n].left
      BY <2>1, <3>1 DEF GrantChain
    <3>4. lease' = lease - 1 /\ owner' = n
      BY <1>1, <2>2, <3>2
    <3>5. auth[n].left \in 0..AuthTime
      BY <1>3
    <3> QED BY <2>1, <3>1, <3>3, <3>4, <3>5
  <2>5. Serves(n)'
        => owner' = n /\ lease' >= LeaseTime - AnswerTime - AuthTime - PortTime + ports'[n]
    <3> SUFFICES ASSUME Serves(n)'
                 PROVE  owner' = n /\ lease' >= LeaseTime - AnswerTime - AuthTime - PortTime + ports'[n]
      OBVIOUS
    <3>1. Serves(n) /\ ports'[n] = ports[n] - 1 /\ ports[n] \in 0..PortTime
      BY <1>4
    <3>2. owner = n /\ lease > 0
      BY <3>1, BackedLease DEF Inv
    <3>3. lease >= LeaseTime - AnswerTime - AuthTime - PortTime + ports[n]
      BY <2>1, <3>1 DEF GrantChain
    <3>4. lease' = lease - 1 /\ owner' = n
      BY <1>1, <2>2, <3>2
    <3> QED BY <2>1, <3>1, <3>3, <3>4
  <2> QED BY <2>3, <2>4, <2>5 DEF GrantChain
<1> QED BY <1>1, <1>5, <1>6, <1>7 DEF Inv, Matched, GrantsBacked

\* An answer that grants is acted on while its lease stands.
LEMMA GrantBacks ==
  ASSUME Inv, NEW n \in Node, RenewActive(n) \/ RenewPassing(n) \/ StartActivation(n)
  PROVE  Quiet' /\ Withdrawn' /\ Matched' /\ GrantsBacked'
<1>1. Received(n) /\ call[n].body.granted /\ call' = [call EXCEPT ![n] = Idle]
  BY DEF RenewActive, RenewPassing, StartActivation
<1>2. /\ call[n].phase = "answered" /\ call[n].body.requested = NoNode
      /\ UNCHANGED <<owner, session, lease, policy, requested, handoff>>
      /\ auth' = [auth EXCEPT ![n] = [role |-> "active", left |-> AuthTime]]
  BY <1>1 DEF Received, Answered, Authorized, controlVars, Inv, Quiet
<1>3. /\ \/ ports' = ports /\ role' = role
         \/ ports' = [ports EXCEPT ![n] = PortTime] /\ role' = role
         \/ ports' = [ports EXCEPT ![n] = 0] /\ role' = [role EXCEPT ![n] = "fenced"]
      /\ trans' = trans \/ trans' = [trans EXCEPT ![n] = [stage |-> "restoring"]]
  BY <1>2 DEF RenewActive, RenewPassing, StartActivation, Closed, hostVars
<1>4. Quiet'
  <2>1. call \in [Node -> Call] /\ trans \in [Node -> Trans] /\ Quiet
    BY DEF Inv, TypeOK
  <2>2. ASSUME NEW m \in Node
        PROVE  /\ trans'[m] = trans[m] \/ trans'[m].stage \in {"none", "restoring"}
               /\ \/ call'[m].phase \in {"idle", "sent"}
                  \/ call'[m].body.requested = NoNode
                  \/ /\ call[m].phase \in {"answered", "blocked"}
                     /\ call'[m].body = call[m].body
    <3>1. trans'[m] = trans[m] \/ trans'[m].stage \in {"none", "restoring"}
      BY <1>3, <2>1
    <3>2. CASE m = n
      BY <1>1, <2>1, <3>1, <3>2 DEF Idle
    <3>3. CASE m # n
      <4>1. call'[m] = call[m] /\ call[m].phase \in {"idle", "sent", "answered", "blocked"}
        BY <1>1, <2>1, <3>3, CallShapes
      <4> QED BY <3>1, <4>1
    <3> QED BY <3>2, <3>3
  <2> QED BY <1>2, <2>1, <2>2, StaysQuiet
<1>5. Withdrawn'
  BY <1>1, <1>2 DEF Inv, Withdrawn, TypeOK, Idle
<1>6. ASSUME NEW m \in Node \ {n} PROVE GrantChain(m)'
  <2>1. GrantChain(m) /\ call'[m] = call[m] /\ auth'[m] = auth[m]
    BY <1>1, <1>2 DEF Inv, GrantsBacked, TypeOK
  <2>2. ports'[m] = ports[m] /\ role'[m] = role[m]
    BY <1>3 DEF Inv, TypeOK
  <2> QED BY <1>2, <2>1, <2>2 DEF GrantChain, Serves
<1>7. GrantChain(n)'
  <2>1. GrantChain(n) /\ lease \in Int /\ call[n].age \in 0..AnswerTime
    <3>1. GrantChain(n) /\ TypeOK
      BY DEF Inv, GrantsBacked
    <3>2. lease \in Int /\ call[n] \in Call
      BY <3>1 DEF TypeOK, ControlTypeOK
    <3> QED BY <1>2, <3>1, <3>2, CallShapes
  <2>2. owner = n /\ lease >= LeaseTime - AnswerTime
    BY <1>1, <1>2, <2>1 DEF GrantChain
  <2>3. /\ call'[n].phase = "idle"
        /\ auth'[n] = [role |-> "active", left |-> AuthTime]
        /\ ports'[n] \in 0..PortTime
    BY <1>1, <1>2, <1>3 DEF Inv, TypeOK, Idle
  <2>4. owner' = n /\ lease' = lease
    BY <1>2, <2>2
  <2>5. auth'[n].left = AuthTime
    BY <2>3
  <2>6. /\ lease' >= LeaseTime - AnswerTime - AuthTime + auth'[n].left
        /\ lease' >= LeaseTime - AnswerTime - AuthTime - PortTime + ports'[n]
    BY <2>1, <2>2, <2>3, <2>4, <2>5
  <2> QED BY <2>3, <2>4, <2>6 DEF GrantChain
<1> QED BY <1>2, <1>4, <1>5, <1>6, <1>7 DEF Inv, Matched, GrantsBacked

\* The ports of an activation open under an authorization that still stands.
LEMMA ActivationBacks ==
  ASSUME Inv, NEW n \in Node, ActivationDone(n)
  PROVE  Quiet' /\ Withdrawn' /\ Matched' /\ GrantsBacked'
<1> DEFINE opens == ~fenceDue[n] /\ ~Stale(n) /\ latest[n] = n
<1>1. /\ UNCHANGED <<owner, session, lease, policy, requested, handoff, call, auth>>
      /\ trans' = [trans EXCEPT ![n] = Free]
      /\ ports' = [ports EXCEPT ![n] = IF opens THEN PortTime ELSE 0]
      /\ role' = [role EXCEPT ![n] = IF opens THEN "active" ELSE "fenced"]
  BY DEF ActivationDone, controlVars
<1>2. Quiet'
  BY <1>1 DEF Inv, Quiet, TypeOK, Free
<1>3. Withdrawn' /\ Matched'
  BY <1>1 DEF Inv, Withdrawn, Matched
<1>4. ASSUME NEW m \in Node PROVE GrantChain(m)'
  <2>1. GrantChain(m) /\ UNCHANGED <<owner, lease>> /\ call'[m] = call[m] /\ auth'[m] = auth[m]
    BY <1>1 DEF Inv, GrantsBacked
  <2>2. CASE m # n \/ ~opens
    <3>1. (ports'[m] = ports[m] /\ role'[m] = role[m]) \/ ports'[m] = 0
      BY <1>1, <2>2 DEF Inv, TypeOK
    <3> QED BY <2>1, <3>1 DEF GrantChain, Serves
  <2>3. CASE m = n /\ opens
    <3>1. auth[m].role = "active" /\ auth[m].left # 0 /\ auth[m].left \in 0..AuthTime
      BY <2>3 DEF Stale, Inv, TypeOK
    <3>2. owner = m /\ lease >= LeaseTime - AnswerTime - AuthTime + auth[m].left /\ lease \in Int
      <4>1. lease \in Int
        BY DEF Inv, TypeOK, ControlTypeOK
      <4>2. auth[m].left > 0
        BY <3>1
      <4> QED BY <2>1, <3>1, <4>1, <4>2 DEF GrantChain
    <3>3. ports'[m] = PortTime
      BY <1>1, <2>3 DEF Inv, TypeOK
    <3>4. lease >= LeaseTime - AnswerTime - AuthTime - PortTime + ports'[m]
      BY <3>1, <3>2, <3>3
    <3> QED BY <2>1, <3>2, <3>4 DEF GrantChain
  <2> QED BY <2>2, <2>3
<1> QED BY <1>2, <1>3, <1>4 DEF GrantsBacked

\* Nobody asks for a handoff, so every other step only narrows what an agent may do.
LEMMA NarrowingBacks ==
  ASSUME Inv, NEW n \in Node,
         \/ TickStart(n) \/ CoordinatorRead(n) \/ ReadAnswer(n) \/ CallLost(n)
         \/ Denied(n) \/ BecomeProxy(n) \/ NobodyServes(n) \/ Watchdog(n)
         \/ ActivationFails(n) \/ Play(n) \/ Crash(n)
  PROVE  Quiet' /\ Withdrawn' /\ Matched' /\ GrantsBacked'
<1> USE DEF controlVars, agentVars, hostVars, copyVars
<1>1. UNCHANGED <<owner, session, lease, policy, requested, handoff>>
  BY DEF TickStart, CoordinatorRead, ReadAnswer, CallLost, Denied, Received, BecomeProxy,
         NobodyServes, Watchdog, ActivationFails, Play, Crash
<1>2. ASSUME NEW m \in Node PROVE trans'[m] \in {trans[m], Free}
  BY DEF TickStart, CoordinatorRead, ReadAnswer, CallLost, Denied, Received, BecomeProxy,
         NobodyServes, Watchdog, ActivationFails, Play, Crash, Inv, TypeOK
<1>3. ASSUME NEW m \in Node
      PROVE  /\ Shrinks(m)
             /\ \/ call'[m].phase \in {"idle", "sent"}
                \/ call'[m].body.requested = NoNode
                \/ /\ call[m].phase \in {"answered", "blocked"}
                   /\ call'[m].body = call[m].body
                \/ call'[m] = call[m]
  <2>1. /\ call \in [Node -> Call] /\ ports \in [Node -> 0..PortTime]
        /\ role \in [Node -> {"fenced", "active", "proxy"}]
        /\ DOMAIN auth = Node /\ TypeOK
    BY DEF Inv, TypeOK
  <2>2. CASE m # n
    <3>1. call'[m] = call[m] /\ auth'[m] = auth[m] /\ ports'[m] = ports[m] /\ role'[m] = role[m]
      BY <2>1, <2>2 DEF TickStart, CoordinatorRead, ReadAnswer, CallLost, Denied, Received,
           BecomeProxy, NobodyServes, Watchdog, ActivationFails, Play, Crash, Fence, Closed
    <3> QED BY <3>1 DEF Shrinks
  <2>3. CASE m = n /\ TickStart(n)
    BY <2>1, <2>3 DEF TickStart, Shrinks, Sent
  <2>4. CASE m = n /\ CoordinatorRead(n)
    <3>1. call'[n] = [phase |-> "answered", kind |-> "read", age |-> 0, body |-> StateOf(n, FALSE, FALSE)]
      BY <2>1, <2>4 DEF CoordinatorRead
    <3>2. call'[n].phase = "answered" /\ ~call'[n].body.granted /\ call'[n].body.requested = NoNode
      BY <1>1, <3>1 DEF StateOf, Inv, Quiet
    <3> QED BY <2>4, <3>2 DEF CoordinatorRead, Shrinks
  <2>5. CASE m = n /\ ReadAnswer(n)
    BY <2>1, <2>5 DEF ReadAnswer, Shrinks, Sent, Idle
  <2>6. CASE m = n /\ (CallLost(n) \/ NobodyServes(n) \/ Crash(n))
    <3>1. call'[n] = Idle
      BY <2>1, <2>6 DEF CallLost, NobodyServes, Crash
    <3>2. (ports'[n] = ports[n] /\ role'[n] = role[n]) \/ ports'[n] = 0
      BY <2>1, <2>6, FenceShrinks DEF CallLost, NobodyServes, Crash, Closed
    <3>3. auth'[n] = auth[n] \/ auth'[n].role # "active"
      BY <2>1, <2>6 DEF CallLost, NobodyServes, Crash
    <3> QED BY <2>6, <3>1, <3>2, <3>3 DEF Shrinks, Idle
  <2>7. CASE m = n /\ Denied(n)
    <3>1. call[n].phase = "answered" /\ ~call[n].body.granted
      BY <2>7 DEF Denied, Received, Answered
    <3>2. call'[n] = [call[n] EXCEPT !.phase = "blocked"]
      BY <2>1, <2>7 DEF Denied
    <3>3. call'[n].phase = "blocked" /\ call'[n].body = call[n].body
      BY <2>1, <3>1, <3>2, CallShapes
    <3>4. auth'[n].role # "active"
      BY <2>1, <2>7, <3>1 DEF Denied, Received, Authorized
    <3>5. (ports'[n] = ports[n] /\ role'[n] = role[n]) \/ ports'[n] = 0
      BY <2>1, <2>7, FenceShrinks DEF Denied
    <3> QED BY <2>7, <3>1, <3>3, <3>4, <3>5 DEF Shrinks
  <2>8. CASE m = n /\ BecomeProxy(n)
    <3> DEFINE role1 == IF proxied[n] = call[n].body.epoch THEN role[n] ELSE "proxy"
    <3>1. call'[n] = Idle /\ auth' = auth /\ role'[n] = role1
      BY <2>1, <2>8 DEF BecomeProxy
    <3>2. auth[n].role # "active"
      BY <2>8 DEF BecomeProxy, Inv, Withdrawn
    <3>3. ports'[n] = IF MayPermit(n, role1) THEN PortTime
                      ELSE IF proxied[n] = call[n].body.epoch THEN ports[n] ELSE 0
      BY <2>1, <2>8 DEF BecomeProxy
    <3>4. \/ ports'[n] = ports[n] /\ role'[n] = role[n]
          \/ ports'[n] = 0
          \/ role'[n] # "active"
      BY <3>1, <3>2, <3>3 DEF MayPermit
    <3> QED BY <2>8, <3>1, <3>4 DEF Shrinks, Idle
  <2>9. CASE m = n /\ (Watchdog(n) \/ ActivationFails(n) \/ Play(n))
    <3>1. call' = call /\ auth' = auth
      BY <2>9 DEF Watchdog, ActivationFails, Play
    <3>2. (ports'[n] = ports[n] /\ role'[n] = role[n]) \/ ports'[n] = 0
      BY <2>1, <2>9, FenceShrinks DEF Watchdog, ActivationFails, Play, Closed
    <3> QED BY <2>9, <3>1, <3>2 DEF Shrinks
  <2> QED BY <2>2, <2>3, <2>4, <2>5, <2>6, <2>7, <2>8, <2>9
<1>4. Quiet'
  BY <1>1, <1>2, <1>3 DEF Inv, Quiet, Free
<1>5. Withdrawn' /\ GrantsBacked'
  BY <1>1, <1>3, ShrinkingEvidence DEF Inv
<1> QED BY <1>1, <1>4, <1>5 DEF Inv, Matched

\* A copy that ends continues no handoff, for there is none.
LEMMA CopyingBacks ==
  ASSUME Inv, Copying
  PROVE  Quiet' /\ Withdrawn' /\ Matched' /\ GrantsBacked'
<1>1. /\ UNCHANGED <<owner, session, lease, policy, requested, handoff, call, auth>>
      /\ \/ UNCHANGED <<trans, ports, role>>
         \/ \E b \in BOOLEAN : CopyEnds(b)
  BY DEF Copying, SyncBegins, SyncCopies, SyncPublishes, SyncFails, RecordSnapshot, Accepts,
         controlVars, agentVars, hostVars
<1>2. "pc" \in Node /\ trans["pc"].stage \in {"none", "restoring"}
  BY DEF Node, Inv, Quiet
<1>3. UNCHANGED <<trans, ports, role>>
  BY <1>1, <1>2 DEF CopyEnds
<1>4. \A m \in Node : Shrinks(m)
  BY <1>1, <1>3 DEF Shrinks
<1>5. Withdrawn' /\ GrantsBacked'
  BY <1>1, <1>4, ShrinkingEvidence DEF Inv
<1>6. Quiet'
  BY <1>1, <1>3 DEF Inv, Quiet
<1> QED BY <1>1, <1>5, <1>6 DEF Inv, Matched

\* A handoff's steps need a handoff.
LEMMA NoHandoff ==
  ASSUME Inv, NEW n \in Node
  PROVE  ~(HandoffStopped(n) \/ CopySeen(n) \/ HandoffRelease(n) \/ HandoffReleased(n)
           \/ HandoffFails(n))
BY DEF Inv, Quiet, HandoffStopped, CopySeen, HandoffRelease, HandoffReleased, HandoffFails

LEMMA AdminBacks ==
  ASSUME NoSwitch, Inv, Admin
  PROVE  Quiet' /\ Withdrawn' /\ Matched' /\ GrantsBacked'
<1>1. PICK p \in Policies : Configure(p, revision)
  BY DEF Admin, NoSwitch
<1>2. p.primary = "vps" /\ policy.primary = "vps"
  BY DEF NoSwitch, Inv, Quiet
<1>3. /\ UNCHANGED <<owner, session, lease, handoff, requested, call, auth, trans, ports, role>>
      /\ policy' = p
  BY <1>1, <1>2 DEF Configure, Admin, agentVars, hostVars
<1>4. \A m \in Node : Shrinks(m)
  BY <1>3 DEF Shrinks
<1>5. Withdrawn' /\ GrantsBacked'
  BY <1>3, <1>4, ShrinkingEvidence DEF Inv
<1>6. Quiet'
  BY <1>2, <1>3 DEF Inv, Quiet
<1> QED BY <1>3, <1>5, <1>6 DEF Inv, Matched

LEMMA InitInv == NoSwitch /\ Init => Inv
<1> SUFFICES ASSUME NoSwitch, Init PROVE Inv
  OBVIOUS
<1>1. TypeOK
  BY InitType
<1>2. Quiet /\ Withdrawn /\ Matched
  BY DEF Init, ControlInit, DefaultPolicy, Quiet, Withdrawn, Matched, Free, Idle
<1>3. GrantsBacked
  BY DEF Init, GrantsBacked, GrantChain, Serves, Idle
<1> QED BY <1>1, <1>2, <1>3 DEF Inv

LEMMA NextInv == NoSwitch /\ Inv /\ [Next]_vars => Inv'
<1> SUFFICES ASSUME NoSwitch, Inv, [Next]_vars PROVE Inv'
  OBVIOUS
<1>1. TypeOK'
  BY NextType DEF Inv
<1>2. ASSUME NEW n \in Node, Agent(n) PROVE Quiet' /\ Withdrawn' /\ Matched' /\ GrantsBacked'
  BY <1>2, PollBacks, GrantBacks, ActivationBacks, NarrowingBacks, NoHandoff DEF Agent
<1>3. CASE UNCHANGED vars
  <2>1. UNCHANGED <<owner, session, lease, policy, requested, handoff, call, auth, trans, ports, role>>
    BY <1>3 DEF vars, controlVars, agentVars, hostVars
  <2> QED BY <1>1, <2>1 DEF Inv, Quiet, Withdrawn, Matched, GrantsBacked, GrantChain, Serves
<1> QED BY <1>1, <1>2, <1>3, CopyingBacks, AdminBacks, TickBacks DEF Next, Inv

(* Without planned switches every answer, authorization and open port is backed  *)
(* by its owner's lease, whatever the timers are as long as 8, 12 and 20 seconds *)
(* fit into 60 (TimerAssumption).                                                *)
THEOREM BackedGrants == ASSUME NoSwitch PROVE Spec => []GrantsBacked
<1>1. Init => Inv
  BY InitInv
<1>2. Inv /\ [Next]_vars => Inv'
  BY NextInv
<1>3. Inv => GrantsBacked
  BY DEF Inv
<1> QED BY <1>1, <1>2, <1>3, PTL DEF Spec

(* Without planned switches players never reach the servers of both nodes,       *)
(* however slow, crashed or cut off the two agents are.                          *)
THEOREM ExclusiveHost == ASSUME NoSwitch PROVE Spec => []ExclusiveService
<1>1. GrantsBacked => ExclusiveService
  <2>1. "vps" \in Node /\ "pc" \in Node /\ "vps" # "pc"
    BY DEF Node
  <2> QED BY <2>1 DEF GrantsBacked, GrantChain, ExclusiveService
<1> QED BY <1>1, BackedGrants, PTL

-----------------------------------------------------------------------------
\* What is released has stopped: no assumption on who switches, and when.

Releasing == {"copying", "releasing", "answered"}

\* A handoff that waits for its copy, or for its release, has stopped the servers.
Stopped == \A n \in Node : trans[n].stage \in Releasing => ~running[n] /\ role[n] # "active"

\* A fence only stops.
LEMMA FenceStops ==
  ASSUME FencedOK, NEW n \in Node,
         \/ Fence(n) \/ Closed(n)
         \/ UNCHANGED <<mode, proxied, fenceDue, ports, role, running>>
  PROVE  \A m \in Node : /\ running'[m] => running[m]
                         /\ role'[m] = "active" => role[m] = "active"
BY DEF FencedOK, Fence, Closed

\* No step opens a node that was stopped for a handoff and is still in it.
LEMMA StaysStopped ==
  ASSUME Stopped, NEW m \in Node,
         \/ trans'[m].stage \notin Releasing
         \/ ~running'[m] /\ role'[m] # "active"
         \/ /\ trans[m].stage \in Releasing
            /\ running'[m] => running[m]
            /\ role'[m] = "active" => role[m] = "active"
  PROVE  trans'[m].stage \in Releasing => ~running'[m] /\ role'[m] # "active"
BY DEF Stopped

LEMMA AgentStops ==
  ASSUME TypeOK, Stopped, NEW n \in Node, Agent(n)
  PROVE  Stopped'
<1> USE DEF hostVars, agentVars, copyVars
<1>1. /\ FencedOK /\ trans \in [Node -> Trans] /\ DOMAIN running = Node /\ DOMAIN role = Node
      /\ DOMAIN trans = Node
  BY DEF TypeOK, FencedOK
<1> DEFINE Same(m) == trans'[m] = trans[m] \/ trans'[m] = Free
           Shuts(m) == (running'[m] => running[m]) /\ (role'[m] = "active" => role[m] = "active")
<1>2. ASSUME NEW m \in Node, Same(m), Shuts(m)
      PROVE  trans'[m].stage \in Releasing => ~running'[m] /\ role'[m] # "active"
  BY <1>2, StaysStopped DEF Free, Releasing
<1>3. CASE \/ TickStart(n) \/ CoordinatorPoll(n) \/ CoordinatorRead(n) \/ ReadAnswer(n)
           \/ RenewPassing(n) \/ Play(n) \/ CallLost(n)
  <2>1. UNCHANGED <<trans, running, role>>
    BY <1>3 DEF TickStart, CoordinatorPoll, CoordinatorRead, ReadAnswer, RenewPassing, Play, CallLost
  <2> QED BY <2>1 DEF Stopped
<1>4. CASE \/ Denied(n) \/ NobodyServes(n) \/ Watchdog(n) \/ HandoffFails(n)
           \/ ActivationFails(n) \/ Crash(n)
  <2>1. ASSUME NEW m \in Node PROVE Same(m)
    BY <1>1, <1>4 DEF Denied, NobodyServes, Watchdog, HandoffFails, ActivationFails, Crash
  <2>2. ASSUME NEW m \in Node PROVE Shuts(m)
    <3>1. \/ Fence(n) \/ Closed(n)
          \/ UNCHANGED <<mode, proxied, fenceDue, ports, role, running>>
      BY <1>4 DEF Denied, NobodyServes, Watchdog, HandoffFails, ActivationFails, Crash
    <3> QED BY <1>1, <3>1, FenceStops
  <2> QED BY <1>2, <2>1, <2>2 DEF Stopped
<1>5. CASE BecomeProxy(n)
  <2>1. ASSUME NEW m \in Node PROVE Same(m) /\ Shuts(m)
    BY <1>1, <1>5 DEF BecomeProxy, FencedOK
  <2> QED BY <1>2, <2>1 DEF Stopped
<1>6. CASE RenewActive(n)
  <2>1. UNCHANGED running
    BY <1>6 DEF RenewActive
  <2>2. CASE UNCHANGED <<trans, role>>
    BY <2>1, <2>2 DEF Stopped
  <2>3. CASE ~UNCHANGED <<trans, role>>
    <3>1. \E e : trans' = [trans EXCEPT ![n] = [stage |-> "stopping", epoch |-> e, ok |-> FALSE]]
      BY <1>6, <2>3 DEF RenewActive
    <3>2. role' = [role EXCEPT ![n] = "fenced"]
      BY <1>6, <2>3 DEF RenewActive
    <3>3. ASSUME NEW m \in Node
          PROVE  trans'[m].stage \in Releasing => ~running'[m] /\ role'[m] # "active"
      <4>1. CASE m = n
        <5>1. trans'[m].stage = "stopping"
          BY <1>1, <3>1, <4>1
        <5> QED BY <5>1 DEF Releasing
      <4>2. CASE m # n
        <5>1. trans'[m] = trans[m] /\ role'[m] = role[m] /\ running'[m] = running[m]
          BY <1>1, <2>1, <3>1, <3>2, <4>2
        <5> QED BY <5>1 DEF Stopped
      <4> QED BY <4>1, <4>2
    <3> QED BY <3>3 DEF Stopped
  <2> QED BY <2>2, <2>3
<1>7. CASE StartActivation(n) \/ ActivationDone(n)
  <2>1. trans'[n].stage \in {"none", "restoring"}
    BY <1>1, <1>7 DEF StartActivation, ActivationDone, Free
  <2>2. ASSUME NEW m \in Node, m # n
        PROVE  trans'[m] = trans[m] /\ role'[m] = role[m] /\ running'[m] = running[m]
    BY <1>1, <1>7, <2>2 DEF StartActivation, ActivationDone, Closed
  <2>3. \A m \in Node : trans'[m].stage \in Releasing => ~running'[m] /\ role'[m] # "active"
    BY <2>1, <2>2, StaysStopped DEF Releasing
  <2> QED BY <2>3 DEF Stopped
<1>8. CASE HandoffStopped(n)
  <2>1. ~running'[n] /\ role'[n] # "active"
    BY <1>1, <1>8 DEF HandoffStopped, Closed
  <2>2. ASSUME NEW m \in Node, m # n
        PROVE  trans'[m] = trans[m] /\ role'[m] = role[m] /\ running'[m] = running[m]
    BY <1>1, <1>8, <2>2 DEF HandoffStopped, Closed
  <2> QED BY <2>1, <2>2 DEF Stopped
<1>9. CASE CopySeen(n) \/ HandoffRelease(n) \/ HandoffReleased(n)
  <2>1. trans[n].stage \in Releasing /\ UNCHANGED <<running, role>>
    BY <1>9 DEF CopySeen, HandoffRelease, HandoffReleased, Releasing
  <2>2. ASSUME NEW m \in Node, m # n PROVE trans'[m] = trans[m]
    BY <1>1, <1>9, <2>2 DEF CopySeen, HandoffRelease, HandoffReleased
  <2> QED BY <2>1, <2>2 DEF Stopped
<1> QED BY <1>3, <1>4, <1>5, <1>6, <1>7, <1>8, <1>9 DEF Agent

LEMMA NextStops == TypeOK /\ Stopped /\ [Next]_vars => Stopped'
<1> SUFFICES ASSUME TypeOK, Stopped, [Next]_vars PROVE Stopped'
  OBVIOUS
<1> USE DEF hostVars, agentVars
<1>1. CASE Copying
  <2>1. \/ UNCHANGED <<trans, running, role>>
        \/ \E b \in BOOLEAN : CopyEnds(b)
    BY <1>1 DEF Copying, SyncBegins, SyncCopies, SyncPublishes, SyncFails, Accepts
  <2>2. ASSUME NEW b \in BOOLEAN, CopyEnds(b) PROVE Stopped'
    <3>1. FencedOK /\ DOMAIN trans = Node /\ "pc" \in Node
      BY DEF TypeOK, FencedOK, Node
    <3>2. \/ Fence("pc")
          \/ UNCHANGED <<mode, proxied, fenceDue, ports, role, running>>
          \/ UNCHANGED <<proxied, fenceDue, ports, role, running>>
      BY <2>2 DEF CopyEnds
    <3>3. \A m \in Node : (running'[m] => running[m]) /\ (role'[m] = "active" => role[m] = "active")
      BY <3>1, <3>2, FenceStops
    <3>4. ASSUME NEW m \in Node
          PROVE  trans'[m].stage \in Releasing => trans[m].stage \in Releasing
      BY <2>2, <3>1 DEF CopyEnds, Free, Releasing
    <3> QED BY <3>3, <3>4 DEF Stopped
  <2> QED BY <2>1, <2>2 DEF Stopped
<1>2. CASE Admin \/ Tick \/ UNCHANGED vars
  <2>1. UNCHANGED <<trans, running, role>>
    BY <1>2 DEF Admin, Tick, vars
  <2> QED BY <2>1 DEF Stopped
<1> QED BY <1>1, <1>2, AgentStops DEF Next

\* Only the release of a handoff names the node that may take over.
LEMMA HandoffNamed ==
  ASSUME TypeOK, Stopped, [Next]_vars, handoff' # handoff, handoff' # NoNode
  PROVE  ~running[owner] /\ ~Serves(owner)
<1> USE DEF controlVars
<1>1. ASSUME NEW n \in Node, Agent(n)
      PROVE  HandoffRelease(n)
  BY <1>1 DEF Agent, TickStart, CoordinatorPoll, Poll, NewOwner, CoordinatorRead, ReadAnswer,
       RenewActive, RenewPassing, StartActivation, Denied, Received, BecomeProxy, NobodyServes,
       Watchdog, ActivationDone, ActivationFails, HandoffStopped, CopySeen, HandoffReleased,
       HandoffFails, Play, CallLost, Crash
<1>2. ~Copying /\ ~Admin /\ ~Tick /\ ~UNCHANGED vars
  BY DEF Copying, SyncBegins, SyncCopies, SyncPublishes, SyncFails, RecordSnapshot, Admin,
     Configure, Switch, Tick, ControlTick, vars
<1>3. PICK n \in Node : HandoffRelease(n)
  BY <1>1, <1>2 DEF Next
<1>4. owner = n /\ trans[n].stage = "releasing"
  BY <1>3 DEF HandoffRelease, Release, Releases
<1> QED BY <1>4 DEF Stopped, Releasing, Serves

(* What lets the standby take over comes after the owner's units have stopped and *)
(* its ports are closed, whatever fails in the handoff and however often it is    *)
(* begun again.                                                                   *)
THEOREM ReleasesStopped == Spec => ReleaseAfterStop
<1>1. Init => TypeOK /\ Stopped
  <2>1. Init => Stopped
    BY DEF Init, Stopped, Free, Releasing
  <2> QED BY <2>1, InitType
<1>2. TypeOK /\ Stopped /\ [Next]_vars => (TypeOK /\ Stopped)'
  BY NextType, NextStops
<1>3. TypeOK /\ Stopped /\ [Next]_vars =>
        [handoff' # handoff /\ handoff' # NoNode => ~running[owner] /\ ~Serves(owner)]_vars
  BY HandoffNamed
<1> QED BY <1>1, <1>2, <1>3, PTL DEF Spec, ReleaseAfterStop

-----------------------------------------------------------------------------
\* Servers start from the world of the line.

\* A grant its owner has not handled is of the running epoch and names its copy, and
\* one that orders a restore names the copy the line stands on.
AnswersCurrent ==
  \A n \in Node : owner = n /\ call[n].phase = "answered" =>
    /\ call[n].body.granted => call[n].body.epoch = epoch /\ call[n].body.own.id = snap[n].id
    /\ call[n].body.restore =>
         call[n].body.granted /\ call[n].kind = "poll" /\ snap[n].id = line.base

\* The owner's disk holds the line, or its state file still asks for the copy.
LineHeld ==
  \A n \in Node : owner = n /\ ~Ordered(n) /\ ~line.lost =>
    /\ trans[n].stage = "restoring" => file[n].epoch = epoch
    /\ file[n].restore /\ file[n].epoch = epoch =>
         file[n].copy.id = line.base /\ snap[n].id = line.base
    /\ \/ file[n].restore /\ file[n].epoch = epoch
       \/ world[n] = line.base
       \/ world[n] > line.since

\* Before the first grant no agent has one.
NoneYet ==
  session = NoSession =>
    \A n \in Node : /\ trans[n].stage # "restoring" /\ ~file[n].restore
                    /\ call[n].phase = "answered" => ~call[n].body.granted

LineInv ==
  /\ TypeOK /\ Matched /\ AnswersCurrent /\ LineHeld /\ NoneYet
  /\ line.since <= edits

\* Steps that move no world and no epoch, and let an order go only as a lost one.
LineKept ==
  /\ UNCHANGED <<owner, session, epoch, edits, file, world>>
  /\ line'.base = line.base /\ line'.since = line.since
  /\ line.lost => line'.lost
  /\ \A m \in Node :
       /\ owner = m => snap'[m].id = snap[m].id
       /\ trans'[m].stage = "restoring" => trans[m].stage = "restoring"
       /\ call'[m].phase = "answered" =>
            call[m].phase = "answered" /\ call'[m].body = call[m].body /\ call'[m].kind = call[m].kind
       /\ owner = m /\ Ordered(m) => line'.lost \/ Ordered(m)'

LEMMA KeptLine ==
  ASSUME LineInv, TypeOK', LineKept
  PROVE  LineInv'
<1>1. Matched' /\ NoneYet' /\ line'.since <= edits'
  BY DEF LineInv, LineKept, Matched, NoneYet
<1>2. AnswersCurrent'
  <2>1. ASSUME NEW m \in Node, owner' = m, call'[m].phase = "answered"
        PROVE  /\ owner = m /\ call[m].phase = "answered" /\ call'[m].body = call[m].body
               /\ call'[m].kind = call[m].kind /\ snap'[m].id = snap[m].id
               /\ epoch' = epoch /\ line'.base = line.base
    BY <2>1 DEF LineKept
  <2> QED BY <2>1 DEF LineInv, AnswersCurrent
<1>3. LineHeld'
  <2>1. ASSUME NEW m \in Node, owner' = m, ~Ordered(m)', ~line'.lost
        PROVE  /\ owner = m /\ ~Ordered(m) /\ ~line.lost
               /\ trans'[m].stage = "restoring" => trans[m].stage = "restoring"
               /\ snap'[m].id = snap[m].id
               /\ UNCHANGED <<epoch, file, world>>
               /\ line'.base = line.base /\ line'.since = line.since
    BY <2>1 DEF LineKept
  <2> QED BY <2>1 DEF LineInv, LineHeld
<1> QED BY <1>1, <1>2, <1>3 DEF LineInv

\* A copy that is recorded, and the clock, leave the owner's row its id.
LEMMA RowKept ==
  ASSUME TypeOK, NEW m \in Node, owner = m,
         \/ UNCHANGED snap
         \/ ControlTick
         \/ \E src \in Node : \E e, age, id : RecordSnapshot(Other(src), src, e, age, id)
  PROVE  snap'[m].id = snap[m].id
<1>1. snap \in [Node -> SnapshotRow \cup {NoSnapshot}]
  BY DEF TypeOK, ControlTypeOK
<1>2. CASE UNCHANGED snap
  BY <1>2
<1>3. CASE ControlTick
  <2>1. snap'[m] = Older(snap[m])
    BY <1>3 DEF ControlTick
  <2>2. CASE snap[m] = NoSnapshot \/ snap[m].age > MaxAge
    BY <2>1, <2>2 DEF Older
  <2>3. CASE ~(snap[m] = NoSnapshot \/ snap[m].age > MaxAge)
    <3>1. snap[m] \in SnapshotRow
      BY <1>1, <2>3
    <3>2. snap'[m] = [snap[m] EXCEPT !.age = snap[m].age + 1]
      BY <2>1, <2>3 DEF Older
    <3> QED BY <3>1, <3>2 DEF SnapshotRow
  <2> QED BY <2>2, <2>3
<1>4. ASSUME NEW src \in Node, NEW e, NEW age, NEW id,
             RecordSnapshot(Other(src), src, e, age, id)
      PROVE  snap'[m].id = snap[m].id
  <2>1. CASE Accepts(src, e)
    <3>1. Other(src) # m
      BY <2>1 DEF Accepts, Other, Node
    <3> QED BY <1>1, <1>4, <2>1, <3>1 DEF RecordSnapshot
  <2>2. CASE ~Accepts(src, e)
    BY <1>4, <2>2 DEF RecordSnapshot
  <2> QED BY <2>1, <2>2
<1> QED BY <1>2, <1>3, <1>4

\* An answer that is thrown away takes its order with it, as a lost one.
LEMMA DroppedLine ==
  ASSUME LineInv, TypeOK', NEW n \in Node, Dropped(n), call' = [call EXCEPT ![n] = Idle],
         UNCHANGED <<owner, session, epoch, edits, file, world, snap>>,
         \A m \in Node : trans'[m].stage = "restoring" => trans[m].stage = "restoring"
  PROVE  LineInv'
<1>1. /\ line'.base = line.base /\ line'.since = line.since
      /\ line.lost => line'.lost
      /\ Ordered(n) /\ owner = n => line'.lost
  BY DroppedType DEF LineInv
<1>2. ASSUME NEW m \in Node
      PROVE  /\ call'[m].phase = "answered" => call'[m] = call[m]
             /\ owner = m /\ Ordered(m) => line'.lost \/ Ordered(m)'
  <2>1. call'[m] = IF m = n THEN Idle ELSE call[m]
    BY DEF LineInv, TypeOK
  <2>2. CASE m = n
    BY <1>1, <2>1, <2>2 DEF Idle
  <2>3. CASE m # n
    BY <2>1, <2>3 DEF Ordered
  <2> QED BY <2>2, <2>3
<1>3. LineKept
  BY <1>1, <1>2 DEF LineKept
<1> QED BY <1>3, KeptLine

\* The steps of an agent that handle no grant.
LEMMA AgentKeepsLine ==
  ASSUME LineInv, TypeOK', NEW n \in Node,
         \/ TickStart(n) \/ ReadAnswer(n) \/ RenewActive(n) \/ RenewPassing(n) \/ Denied(n)
         \/ BecomeProxy(n) \/ NobodyServes(n) \/ Watchdog(n) \/ ActivationFails(n)
         \/ HandoffStopped(n) \/ CopySeen(n) \/ HandoffRelease(n) \/ HandoffReleased(n)
         \/ HandoffFails(n) \/ CallLost(n) \/ Crash(n)
  PROVE  LineInv'
<1> USE DEF controlVars, agentVars, hostVars, copyVars
<1>1. /\ call \in [Node -> Call] /\ trans \in [Node -> Trans] /\ DOMAIN trans = Node
      /\ TypeOK /\ AnswersCurrent
  BY DEF LineInv, TypeOK
<1>2. UNCHANGED <<owner, session, epoch, edits, file, world, snap>>
  BY DEF TickStart, ReadAnswer, RenewActive, RenewPassing, Received, Denied, BecomeProxy,
         NobodyServes, Watchdog, ActivationFails, HandoffStopped, CopySeen, HandoffRelease,
         Release, HandoffReleased, HandoffFails, CallLost, Crash
<1>3. ASSUME NEW m \in Node PROVE trans'[m].stage = "restoring" => trans[m].stage = "restoring"
  <2>1. CASE UNCHANGED trans
    BY <2>1
  <2>2. CASE trans' = [trans EXCEPT ![n] = Free]
    BY <1>1, <2>2 DEF Free
  <2>3. CASE \E e : trans' = [trans EXCEPT ![n] = [stage |-> "stopping", epoch |-> e, ok |-> FALSE]]
    BY <1>1, <2>3
  <2>4. CASE HandoffStopped(n) \/ CopySeen(n) \/ HandoffRelease(n)
    <3>1. trans[n].stage \in {"stopping", "copying", "releasing"}
      BY <2>4 DEF HandoffStopped, CopySeen, HandoffRelease
    <3>2. trans'[n].stage \in {"copying", "releasing", "answered"}
      BY <1>1, <2>4, <3>1, TransShapes DEF HandoffStopped, CopySeen, HandoffRelease
    <3>3. m # n => trans'[m] = trans[m]
      BY <1>1, <2>4 DEF HandoffStopped, CopySeen, HandoffRelease
    <3> QED BY <3>2, <3>3
  <2>5. \/ UNCHANGED trans \/ trans' = [trans EXCEPT ![n] = Free]
        \/ \E e : trans' = [trans EXCEPT ![n] = [stage |-> "stopping", epoch |-> e, ok |-> FALSE]]
        \/ HandoffStopped(n) \/ CopySeen(n) \/ HandoffRelease(n)
    BY DEF TickStart, ReadAnswer, RenewActive, RenewPassing, Denied, BecomeProxy,
         NobodyServes, Watchdog, ActivationFails, HandoffReleased, HandoffFails, CallLost, Crash
  <2> QED BY <2>1, <2>2, <2>3, <2>4, <2>5
<1>4. CASE RenewActive(n) \/ RenewPassing(n) \/ CallLost(n) \/ Crash(n)
  <2>1. Dropped(n) /\ call' = [call EXCEPT ![n] = Idle]
    BY <1>4 DEF RenewActive, RenewPassing, CallLost, Crash
  <2> QED BY <1>2, <1>3, <2>1, DroppedLine
<1>5. CASE \/ TickStart(n) \/ ReadAnswer(n) \/ Denied(n) \/ BecomeProxy(n) \/ NobodyServes(n)
           \/ Watchdog(n) \/ ActivationFails(n) \/ HandoffStopped(n) \/ CopySeen(n)
           \/ HandoffRelease(n) \/ HandoffReleased(n) \/ HandoffFails(n)
  <2>1. UNCHANGED line
    BY <1>5 DEF TickStart, ReadAnswer, Denied, BecomeProxy, NobodyServes, Watchdog,
         ActivationFails, HandoffStopped, CopySeen, HandoffRelease, HandoffReleased, HandoffFails
  <2>2. \/ UNCHANGED call
        \/ Denied(n) /\ call' = [call EXCEPT ![n] = [@ EXCEPT !.phase = "blocked"]]
        \/ /\ \E c \in {Idle, Sent("poll"), Sent("read")} : call' = [call EXCEPT ![n] = c]
           /\ call[n] = Idle \/ call[n].phase = "blocked" \/ Answered(n, "read")
    BY <1>5 DEF TickStart, ReadAnswer, Denied, BecomeProxy, NobodyServes, Watchdog,
         ActivationFails, HandoffStopped, CopySeen, HandoffRelease, HandoffReleased, HandoffFails
  <2>3. CASE UNCHANGED call
    <3>1. LineKept
      BY <1>2, <1>3, <2>1, <2>3 DEF LineKept, Ordered
    <3> QED BY <3>1, KeptLine
  <2>4. CASE ~UNCHANGED call
    <3>1. owner = n => ~Ordered(n)
      BY <1>1, <2>2, <2>4 DEF AnswersCurrent, Ordered, Answered, Idle, Denied, Received
    <3>2. CASE Denied(n) /\ call' = [call EXCEPT ![n] = [@ EXCEPT !.phase = "blocked"]]
      <4>1. call[n].phase = "answered"
        BY <3>2 DEF Denied, Received, Answered
      <4>2. call'[n].phase = "blocked" /\ \A m \in Node \ {n} : call'[m] = call[m]
        BY <1>1, <3>2, <4>1, CallShapes
      <4> QED BY <1>2, <1>3, <2>1, <3>1, <4>2, KeptLine DEF LineKept, Ordered
    <3>3. CASE \E c \in {Idle, Sent("poll"), Sent("read")} : call' = [call EXCEPT ![n] = c]
      <4>1. call'[n].phase # "answered" /\ \A m \in Node \ {n} : call'[m] = call[m]
        BY <1>1, <3>3 DEF Idle, Sent
      <4> QED BY <1>2, <1>3, <2>1, <3>1, <4>1, KeptLine DEF LineKept, Ordered
    <3> QED BY <2>2, <2>4, <3>2, <3>3
  <2> QED BY <2>3, <2>4
<1> QED BY <1>4, <1>5

\* The copies, administrators and the clock move no world, epoch or order.
LEMMA OthersKeepLine ==
  ASSUME LineInv, TypeOK', Copying \/ Admin \/ Tick \/ UNCHANGED vars
  PROVE  LineInv'
<1> USE DEF controlVars, agentVars, hostVars, copyVars
<1>1. /\ UNCHANGED <<owner, session, epoch, edits, file, world, line>>
      /\ \/ UNCHANGED call
         \/ Tick /\ call' = [m \in Node |-> Aged(call[m])]
  BY DEF Copying, SyncBegins, SyncCopies, SyncPublishes, SyncFails, RecordSnapshot, Admin,
         Configure, Switch, Tick, ControlTick, vars
<1>2. ASSUME NEW m \in Node, owner = m PROVE snap'[m].id = snap[m].id
  <2>1. CASE SyncPublishes
    <3>1. sync \in Sync /\ sync.phase = "copied"
      BY <2>1 DEF SyncPublishes, LineInv, TypeOK
    <3>2. Source(sync.dir) \in Node
      BY <3>1, SyncShapes DEF Source, Node
    <3>3. RecordSnapshot(Other(Source(sync.dir)), Source(sync.dir), sync.epoch, sync.age, sync.id)
      BY <2>1 DEF SyncPublishes
    <3> QED BY <1>2, <3>2, <3>3, RowKept DEF LineInv
  <2>2. CASE Tick
    BY <1>2, <2>2, RowKept DEF Tick, LineInv
  <2>3. CASE ~SyncPublishes /\ ~Tick
    BY <2>3 DEF Copying, SyncBegins, SyncCopies, SyncFails, Admin, Configure, Switch, vars
  <2> QED BY <2>1, <2>2, <2>3
<1>3. ASSUME NEW m \in Node PROVE trans'[m].stage = "restoring" => trans[m].stage = "restoring"
  <2>1. \/ UNCHANGED trans
        \/ \E b \in BOOLEAN : CopyEnds(b)
    BY DEF Copying, SyncBegins, SyncCopies, SyncPublishes, SyncFails, Accepts, Admin, Tick, vars
  <2>2. CASE UNCHANGED trans
    BY <2>2
  <2>3. ASSUME NEW b \in BOOLEAN, CopyEnds(b), ~UNCHANGED trans
        PROVE  trans'[m].stage = "restoring" => trans[m].stage = "restoring"
    <3>1. trans \in [Node -> Trans] /\ "pc" \in Node
      BY DEF LineInv, TypeOK, Node
    <3>2. /\ trans["pc"].stage = "copying"
          /\ \/ trans' = [trans EXCEPT !["pc"].stage = "releasing"]
             \/ trans' = [trans EXCEPT !["pc"] = Free]
      BY <2>3 DEF CopyEnds
    <3>3. trans'["pc"].stage \in {"releasing", "none"}
      BY <3>1, <3>2, TransShapes DEF Free
    <3>4. m # "pc" => trans'[m] = trans[m]
      BY <3>1, <3>2
    <3> QED BY <3>3, <3>4
  <2> QED BY <2>1, <2>2, <2>3
<1>4. ASSUME NEW m \in Node
      PROVE  /\ call'[m].phase = call[m].phase
             /\ call[m].phase = "answered" =>
                  call'[m].body = call[m].body /\ call'[m].kind = call[m].kind
  <2>1. CASE UNCHANGED call
    BY <2>1
  <2>2. CASE Tick /\ call' = [k \in Node |-> Aged(call[k])]
    <3>1. call[m] \in Call /\ (call[m].phase = "answered" => call[m].age < AnswerTime)
      BY <2>2 DEF Tick, LineInv, TypeOK
    <3>2. call'[m] = Aged(call[m])
      BY <2>2
    <3> QED BY <3>1, <3>2, AgedCall
  <2> QED BY <1>1, <2>1, <2>2
<1>5. LineKept
  BY <1>1, <1>2, <1>3, <1>4 DEF LineKept, Ordered
<1> QED BY <1>5, KeptLine

\* A takeover starts a line at the copy it names; another grant leaves the line alone.
LEMMA PollLine ==
  ASSUME LineInv, TypeOK', NEW n \in Node, CoordinatorPoll(n)
  PROVE  LineInv'
<1> USE DEF agentVars, hostVars, copyVars
<1> DEFINE granted == Granted(n, n, TRUE)
           restore == RestoreRequired(n, n, TRUE)
           body == StateOf(n, granted, restore)
<1>1. /\ UNCHANGED <<trans, file, world, edits, snap>> /\ TypeOK /\ Poll(n, n, TRUE)
      /\ call[n].phase = "sent" /\ call \in [Node -> Call]
  <2>1. UNCHANGED <<trans, file, world, edits>> /\ Poll(n, n, TRUE) /\ call[n] = Sent("poll")
    BY DEF CoordinatorPoll
  <2>2. UNCHANGED snap
    BY <2>1 DEF Poll
  <2>3. TypeOK /\ call \in [Node -> Call]
    BY DEF LineInv, TypeOK
  <2>4. call[n].phase = "sent"
    BY <2>1 DEF Sent
  <2> QED BY <2>1, <2>2, <2>3, <2>4
<1>2. /\ call'[n].phase = "answered" /\ call'[n].kind = "poll" /\ call'[n].body = body
      /\ \A m \in Node \ {n} : call'[m] = call[m]
  BY <1>1 DEF CoordinatorPoll
<1>3. /\ body.granted = granted /\ body.restore = restore /\ body.epoch = epoch'
      /\ body.own = snap[n]
  BY DEF StateOf
<1>4. restore <=> granted /\ owner # n
  BY DEF RestoreRequired
<1> HIDE DEF granted, restore, body
<1>5. CASE ~granted \/ session = n
  <2>1. UNCHANGED <<owner, session, epoch>> /\ UNCHANGED line
    BY <1>1, <1>5 DEF Poll, CoordinatorPoll, granted
  <2>2. owner = n \/ ~granted
    <3>1. n # NoSession
      BY SessionAssumption, NullAssumption
    <3> QED BY <1>5, <3>1 DEF LineInv, Matched
  <2>3. ~restore
    BY <1>4, <2>2
  <2>4. AnswersCurrent'
    <3>1. ASSUME NEW m \in Node, owner' = m, call'[m].phase = "answered", m # n
          PROVE  call[m].phase = "answered" /\ call'[m] = call[m] /\ owner = m
      BY <1>2, <2>1, <3>1
    <3> QED BY <1>1, <1>2, <1>3, <2>1, <2>3, <3>1 DEF LineInv, AnswersCurrent
  <2>5. LineHeld'
    <3>1. ASSUME NEW m \in Node, ~Ordered(m)' PROVE ~Ordered(m)
      BY <1>1, <1>2, <3>1 DEF Ordered
    <3> QED BY <1>1, <2>1, <3>1 DEF LineInv, LineHeld
  <2>6. NoneYet'
    <3>1. session = NoSession => ~granted
      BY <1>5, SessionAssumption, NullAssumption
    <3> QED BY <1>1, <1>2, <1>3, <2>1, <3>1 DEF LineInv, NoneYet
  <2>7. Matched' /\ line'.since <= edits'
    BY <1>1, <2>1 DEF LineInv, Matched
  <2> QED BY <2>4, <2>5, <2>6, <2>7 DEF LineInv
<1>6. CASE granted /\ session # n
  <2>1. owner' = n /\ session' = n
    BY <1>1, <1>6 DEF Poll, NewOwner, granted
  <2>2. Matched' /\ NoneYet'
    <3>1. n # NoSession
      BY SessionAssumption, NullAssumption
    <3> QED BY <2>1, <3>1 DEF Matched, NoneYet
  <2>3. CASE owner = n
    <3>1. session = NoSession /\ UNCHANGED line /\ ~restore
      BY <1>4, <1>6, <2>1, <2>3 DEF CoordinatorPoll, LineInv, Matched
    <3>2. trans[n].stage # "restoring" /\ ~file[n].restore
      BY <3>1 DEF LineInv, NoneYet
    <3>3. AnswersCurrent'
      BY <1>1, <1>2, <1>3, <2>1, <3>1 DEF AnswersCurrent
    <3>4. LineHeld'
      <4>1. ~Ordered(n)
        BY <1>1 DEF Ordered
      <4> QED BY <1>1, <2>1, <2>3, <3>1, <3>2, <4>1 DEF LineInv, LineHeld
    <3> QED BY <1>1, <2>2, <3>1, <3>3, <3>4 DEF LineInv
  <2>4. CASE owner # n
    <3>1. line' = [base |-> snap[n].id, since |-> edits, lost |-> FALSE]
      BY <2>1, <2>4 DEF CoordinatorPoll
    <3>2. restore
      BY <1>4, <1>6, <2>4
    <3>3. AnswersCurrent'
      BY <1>1, <1>2, <1>3, <1>6, <2>1, <3>1 DEF AnswersCurrent
    <3>4. LineHeld'
      BY <1>2, <1>3, <2>1, <3>2 DEF LineHeld, Ordered
    <3>5. line'.since <= edits'
      BY <1>1, <3>1 DEF TypeOK
    <3> QED BY <2>2, <3>3, <3>4, <3>5 DEF LineInv
  <2> QED BY <2>3, <2>4
<1> QED BY <1>5, <1>6

LEMMA ReadLine ==
  ASSUME LineInv, TypeOK', NEW n \in Node, CoordinatorRead(n)
  PROVE  LineInv'
<1> USE DEF controlVars, agentVars, hostVars, copyVars
<1>1. /\ UNCHANGED <<owner, session, epoch, snap, trans, file, world, edits, line>>
      /\ call[n].phase = "sent" /\ call \in [Node -> Call]
  BY DEF CoordinatorRead, Sent, LineInv, TypeOK
<1>2. /\ call'[n].body = StateOf(n, FALSE, FALSE)
      /\ \A m \in Node \ {n} : call'[m] = call[m]
  BY <1>1 DEF CoordinatorRead
<1>3. ~call'[n].body.granted /\ ~call'[n].body.restore
  BY <1>2 DEF StateOf
<1>4. Matched' /\ AnswersCurrent' /\ NoneYet' /\ line'.since <= edits'
  BY <1>1, <1>2, <1>3 DEF LineInv, Matched, AnswersCurrent, NoneYet
<1>5. LineHeld'
  <2>1. ASSUME NEW m \in Node, ~Ordered(m)' PROVE ~Ordered(m)
    BY <1>1, <1>2, <2>1 DEF Ordered
  <2> QED BY <1>1, <2>1 DEF LineInv, LineHeld
<1> QED BY <1>4, <1>5 DEF LineInv

\* The state file of an activation carries the order, or the marker of an earlier one.
LEMMA StartLine ==
  ASSUME LineInv, TypeOK', NEW n \in Node, StartActivation(n)
  PROVE  LineInv'
<1> USE DEF controlVars, copyVars
<1> DEFINE body == call[n].body
           kept == body.restore \/ (file[n].restore /\ file[n].epoch = body.epoch)
<1>1. /\ UNCHANGED <<owner, session, epoch, snap, world, edits, line>>
      /\ call[n].phase = "answered" /\ body.granted
      /\ TypeOK /\ DOMAIN call = Node /\ DOMAIN trans = Node /\ DOMAIN file = Node
  BY DEF StartActivation, Received, Answered, LineInv, TypeOK
<1>2. /\ call'[n] = Idle /\ \A m \in Node \ {n} : call'[m] = call[m]
      /\ \A m \in Node \ {n} : trans'[m] = trans[m] /\ file'[m] = file[m]
      /\ file'[n] = [restore |-> kept, epoch |-> body.epoch, copy |-> body.own]
  BY <1>1 DEF StartActivation
<1>3. session # NoSession
  BY <1>1 DEF LineInv, NoneYet
<1>4. Matched' /\ NoneYet' /\ line'.since <= edits'
  BY <1>1, <1>3 DEF LineInv, Matched, NoneYet
<1>5. AnswersCurrent'
  BY <1>1, <1>2 DEF LineInv, AnswersCurrent, Idle
<1>6. LineHeld'
  <2>1. ASSUME NEW m \in Node \ {n} PROVE Ordered(m)' <=> Ordered(m)
    BY <1>2, <2>1 DEF Ordered
  <2>2. ASSUME owner = n, ~line.lost
        PROVE  /\ file'[n].epoch = epoch
               /\ file'[n].restore => file'[n].copy.id = line.base /\ snap[n].id = line.base
               /\ file'[n].restore \/ world[n] = line.base \/ world[n] > line.since
    <3>1. body.epoch = epoch /\ body.own.id = snap[n].id
      BY <1>1, <2>2 DEF LineInv, AnswersCurrent
    <3>2. /\ file'[n].restore = kept /\ file'[n].epoch = body.epoch /\ file'[n].copy = body.own
      BY <1>2
    <3>3. CASE body.restore
      <4>1. snap[n].id = line.base
        BY <1>1, <2>2, <3>3 DEF LineInv, AnswersCurrent
      <4> QED BY <3>1, <3>2, <3>3, <4>1
    <3>4. CASE ~body.restore
      <4>1. ~Ordered(n)
        BY <3>4 DEF Ordered
      <4>2. /\ file[n].restore /\ file[n].epoch = epoch => snap[n].id = line.base
            /\ \/ file[n].restore /\ file[n].epoch = epoch
               \/ world[n] = line.base
               \/ world[n] > line.since
        BY <2>2, <4>1 DEF LineInv, LineHeld
      <4> QED BY <3>1, <3>2, <3>4, <4>2
    <3> QED BY <3>3, <3>4
  <2>3. ASSUME NEW m \in Node, owner' = m, ~Ordered(m)', ~line'.lost
        PROVE  /\ trans'[m].stage = "restoring" => file'[m].epoch = epoch'
               /\ file'[m].restore /\ file'[m].epoch = epoch' =>
                    file'[m].copy.id = line'.base /\ snap'[m].id = line'.base
               /\ \/ file'[m].restore /\ file'[m].epoch = epoch'
                  \/ world'[m] = line'.base
                  \/ world'[m] > line'.since
    <3>1. CASE m = n
      BY <1>1, <2>2, <2>3, <3>1
    <3>2. CASE m # n
      BY <1>1, <1>2, <2>1, <2>3, <3>2 DEF LineInv, LineHeld
    <3> QED BY <3>1, <3>2
  <2> QED BY <2>3 DEF LineHeld
<1> QED BY <1>4, <1>5, <1>6 DEF LineInv

\* The restore puts the line's copy on the owner's disk before the marker goes.
LEMMA DoneLine ==
  ASSUME LineInv, TypeOK', NEW n \in Node, ActivationDone(n)
  PROVE  LineInv'
<1> USE DEF controlVars, copyVars
<1>1. /\ UNCHANGED <<owner, session, epoch, snap, edits, line, call>>
      /\ trans[n].stage = "restoring"
      /\ TypeOK /\ DOMAIN world = Node /\ DOMAIN trans = Node /\ DOMAIN file = Node
      /\ world' = IF file[n].restore THEN [world EXCEPT ![n] = file[n].copy.id] ELSE world
      /\ file' = [file EXCEPT ![n].restore = FALSE]
      /\ trans' = [trans EXCEPT ![n] = Free]
  BY DEF ActivationDone, LineInv, TypeOK
<1>2. /\ trans'[n].stage = "none" /\ ~file'[n].restore
      /\ world'[n] = IF file[n].restore THEN file[n].copy.id ELSE world[n]
      /\ \A m \in Node \ {n} : trans'[m] = trans[m] /\ file'[m] = file[m] /\ world'[m] = world[m]
  <2>1. file[n] \in [restore : BOOLEAN, epoch : 0..MaxEpoch, copy : SnapshotRow \cup {NoSnapshot}]
    BY <1>1 DEF TypeOK
  <2>2. file'[n] = [file[n] EXCEPT !.restore = FALSE]
    BY <1>1
  <2> QED BY <1>1, <2>1, <2>2 DEF Free
<1>3. Matched' /\ NoneYet' /\ AnswersCurrent' /\ line'.since <= edits'
  BY <1>1, <1>2 DEF LineInv, Matched, NoneYet, AnswersCurrent
<1>4. ASSUME owner = n, ~Ordered(n), ~line.lost
      PROVE  world'[n] = line.base \/ world'[n] > line.since
  BY <1>1, <1>2, <1>4 DEF LineInv, LineHeld
<1>5. LineHeld'
  <2>1. ASSUME NEW m \in Node, owner' = m, ~Ordered(m)', ~line'.lost
        PROVE  /\ trans'[m].stage = "restoring" => file'[m].epoch = epoch'
               /\ file'[m].restore /\ file'[m].epoch = epoch' =>
                    file'[m].copy.id = line'.base /\ snap'[m].id = line'.base
               /\ \/ file'[m].restore /\ file'[m].epoch = epoch'
                  \/ world'[m] = line'.base
                  \/ world'[m] > line'.since
    <3>1. owner = m /\ ~Ordered(m) /\ ~line.lost
      BY <1>1, <2>1 DEF Ordered
    <3>2. CASE m = n
      BY <1>1, <1>2, <1>4, <3>1, <3>2
    <3>3. CASE m # n
      BY <1>1, <1>2, <3>1, <3>3 DEF LineInv, LineHeld
    <3> QED BY <3>2, <3>3
  <2> QED BY <2>1 DEF LineHeld
<1> QED BY <1>3, <1>5 DEF LineInv

LEMMA PlayLine ==
  ASSUME LineInv, TypeOK', NEW n \in Node, Play(n)
  PROVE  LineInv'
<1> USE DEF controlVars, agentVars, copyVars
<1>1. /\ UNCHANGED <<owner, session, epoch, snap, line, call, trans, file>>
      /\ edits' = edits + 1 /\ world' = [world EXCEPT ![n] = edits + 1]
      /\ edits \in Nat /\ line.since \in Nat /\ line.since <= edits /\ DOMAIN world = Node
  BY DEF Play, LineInv, TypeOK
<1>2. ASSUME NEW m \in Node
      PROVE  world'[m] = world[m] \/ world'[m] > line.since
  BY <1>1
<1>3. Matched' /\ NoneYet' /\ AnswersCurrent' /\ line'.since <= edits'
  BY <1>1 DEF LineInv, Matched, NoneYet, AnswersCurrent
<1>4. LineHeld'
  BY <1>1, <1>2 DEF LineInv, LineHeld, Ordered
<1> QED BY <1>3, <1>4 DEF LineInv

LEMMA InitLine == Init => LineInv
<1> SUFFICES ASSUME Init PROVE LineInv
  OBVIOUS
<1>1. /\ owner = "vps" /\ session = NoSession /\ edits = 1
      /\ call = [n \in Node |-> Idle] /\ trans = [n \in Node |-> Free]
      /\ file = [n \in Node |-> [restore |-> FALSE, epoch |-> 0, copy |-> NoSnapshot]]
      /\ world = [n \in Node |-> IF n = "vps" THEN 1 ELSE 0]
      /\ line = [base |-> 1, since |-> 1, lost |-> FALSE]
  BY DEF Init, ControlInit
<1>2. Matched /\ AnswersCurrent /\ LineHeld /\ NoneYet /\ line.since <= edits
  BY <1>1 DEF Matched, AnswersCurrent, LineHeld, NoneYet, Idle, Free
<1> QED BY <1>2, InitType DEF LineInv

LEMMA NextLine == LineInv /\ [Next]_vars => LineInv'
<1> SUFFICES ASSUME LineInv, [Next]_vars PROVE LineInv'
  OBVIOUS
<1>1. TypeOK'
  BY NextType DEF LineInv
<1>2. ASSUME NEW n \in Node, Agent(n) PROVE LineInv'
  BY <1>1, <1>2, AgentKeepsLine, PollLine, ReadLine, StartLine, DoneLine, PlayLine DEF Agent
<1> QED BY <1>1, <1>2, OthersKeepLine DEF Next

\* Servers that start are those of an activation that is done.
LEMMA StartsByActivation ==
  ASSUME TypeOK, Next, NEW n \in Node, ~running[n], running'[n]
  PROVE  ActivationDone(n)
<1> USE DEF hostVars, copyVars
<1>1. FencedOK /\ DOMAIN running = Node
  BY DEF TypeOK, FencedOK
<1>2. ASSUME Copying \/ Admin \/ Tick PROVE FALSE
  <2>1. ~UNCHANGED running
    OBVIOUS
  <2>2. \E b \in BOOLEAN : CopyEnds(b)
    BY <1>2, <2>1 DEF Copying, SyncBegins, SyncCopies, SyncPublishes, SyncFails, Accepts, Admin, Tick
  <2>3. Fence("pc")
    BY <2>1, <2>2 DEF CopyEnds
  <2> QED BY <1>1, <2>3, FenceStops DEF Node
<1>3. PICK m \in Node : Agent(m)
  BY <1>2 DEF Next
<1>4. CASE \/ Fence(m) \/ Closed(m) \/ UNCHANGED running \/ BecomeProxy(m)
  BY <1>1, <1>4, FenceStops DEF BecomeProxy
<1>5. CASE ActivationDone(m)
  <2>1. m = n
    BY <1>1, <1>5 DEF ActivationDone
  <2> QED BY <1>5, <2>1
<1>6. Agent(m) => Fence(m) \/ Closed(m) \/ UNCHANGED running \/ BecomeProxy(m) \/ ActivationDone(m)
  BY DEF Agent, TickStart, CoordinatorPoll, CoordinatorRead, ReadAnswer, RenewActive, RenewPassing,
         StartActivation, Denied, NobodyServes, Watchdog, ActivationFails, HandoffStopped,
         CopySeen, HandoffRelease, HandoffReleased, HandoffFails, Play, CallLost, Crash
<1> QED BY <1>3, <1>4, <1>5, <1>6

(* An owner that received the order to restore starts its servers only from the  *)
(* copy the takeover named, or from what was saved after it, however often the   *)
(* activation is interrupted and whoever switches.                               *)
THEOREM LineStarts == Spec => StartsFromLine
<1>1. LineInv /\ [Next]_vars =>
        [\A n \in Node : ~running[n] /\ running'[n] /\ owner = n /\ ~Ordered(n) /\ ~line.lost =>
           world'[n] = line.base \/ world'[n] > line.since]_vars
  <2> SUFFICES ASSUME LineInv, Next, NEW n \in Node, ~running[n], running'[n],
                      owner = n, ~Ordered(n), ~line.lost
               PROVE  world'[n] = line.base \/ world'[n] > line.since
    OBVIOUS
  <2>1. ActivationDone(n) /\ TypeOK
    BY StartsByActivation DEF LineInv
  <2>2. LineInv'
    BY NextLine
  <2>3. /\ trans[n].stage = "restoring"
        /\ world' = IF file[n].restore THEN [world EXCEPT ![n] = file[n].copy.id] ELSE world
    BY <2>1 DEF ActivationDone
  <2>4. /\ file[n].epoch = epoch
        /\ file[n].restore /\ file[n].epoch = epoch => file[n].copy.id = line.base
        /\ \/ file[n].restore /\ file[n].epoch = epoch
           \/ world[n] = line.base
           \/ world[n] > line.since
    BY <2>3 DEF LineInv, LineHeld
  <2> QED BY <2>1, <2>3, <2>4 DEF TypeOK
<1> QED BY <1>1, InitLine, NextLine, PTL DEF Spec, StartsFromLine

=============================================================================
