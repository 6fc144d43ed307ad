---------------------------- MODULE HostControl ----------------------------
(***************************************************************************)
(* The coordinator of the two game hosts: the row of launcher_host_control *)
(* and the two rows of launcher_host_nodes, with the functions agents and  *)
(* administrators call.  Every function locks the control row before it    *)
(* decides, so each is one atomic step here.                               *)
(*                                                                         *)
(* Time is counted in ticks.  lease is the distance from now to            *)
(* lease_until (negative once it has passed) and a snapshot carries its    *)
(* age.  Two calls never share an instant, so "later than" is "at least"   *)
(* in ticks.  Who calls, and when, is left to the modules that extend this *)
(* one.                                                                    *)
(***************************************************************************)
EXTENDS Integers

CONSTANTS
  Session,      \* agent sessions (UUIDs)
  NoSession,    \* owner_session is null
  NoNode,       \* requested_node or handoff_node is null
  NoSnapshot,   \* a node without snapshot columns
  Content,      \* what a snapshot id stands for: the copied world
  Policies,     \* the policies an administrator may submit
  LeaseTime,    \* the 60 seconds of a grant
  ReleaseAge,   \* the 60 seconds within which a released snapshot was begun
  MinFailure,   \* the lower bound 90 of failureSeconds
  MaxFailure,   \* the upper bound 1800 of failureSeconds
  MaxAge,       \* the upper bound of maxSnapshotMinutes
  MaxEpoch,     \* bound of the model on epoch
  MaxRevision   \* bound of the model on revision

Node == {"vps", "pc"}

Other(n) == IF n = "vps" THEN "pc" ELSE "vps"

\* The columns of the policy; syncMinutes only paces the agents.
Policy == [primary : Node, automatic : BOOLEAN, allowRecovery : BOOLEAN,
           failure : MinFailure..MaxFailure, maxAge : 1..MaxAge]

\* A policy the configure action accepts.
ValidPolicy(p) == p \in Policy /\ (p.automatic => p.allowRecovery)

DefaultPolicy == [primary |-> "vps", automatic |-> FALSE, allowRecovery |-> FALSE,
                  failure |-> MinFailure, maxAge |-> MaxAge]

ASSUME NullAssumption ==
  NoSession \notin Session /\ NoNode \notin Node
ASSUME TimeAssumption ==
  /\ LeaseTime \in Nat \ {0} /\ ReleaseAge \in Nat \ {0}
  /\ MinFailure \in Nat \ {0} /\ MaxFailure \in Nat /\ MinFailure <= MaxFailure
  /\ MaxAge \in Nat \ {0} /\ ReleaseAge <= MaxAge
ASSUME BoundAssumption == MaxEpoch \in Nat \ {0} /\ MaxRevision \in Nat \ {0}

VARIABLES
  policy, revision,    \* what administrators write
  owner, session,      \* owner_node, owner_session
  epoch, lease,        \* epoch, lease_until - now
  requested, handoff,  \* requested_node, handoff_node
  snap,                \* the snapshot columns of each node
  catalog              \* the address the active releases advertise

controlVars == <<policy, revision, owner, session, epoch, lease,
                 requested, handoff, snap, catalog>>

\* A snapshot older than every policy allows has one age, so that time is finite.
SnapshotRow == [source : Node, epoch : 1..MaxEpoch, age : 0..MaxAge + 1, id : Content]

ControlTypeOK ==
  /\ policy \in Policy
  /\ revision \in 1..MaxRevision
  /\ owner \in Node
  /\ session \in Session \cup {NoSession}
  /\ epoch \in 1..MaxEpoch
  /\ lease \in -MaxFailure..LeaseTime
  /\ requested \in Node \cup {NoNode}
  /\ handoff \in Node \cup {NoNode}
  /\ snap \in [Node -> SnapshotRow \cup {NoSnapshot}]
  /\ catalog \in Node

ControlInit ==
  /\ policy = DefaultPolicy /\ revision = 1
  /\ owner = "vps" /\ session = NoSession
  /\ epoch = 1 /\ lease = 0
  /\ requested = NoNode /\ handoff = NoNode
  /\ snap = [n \in Node |-> NoSnapshot]
  /\ catalog = "vps"

-----------------------------------------------------------------------------
\* The lease and then the failure interval have run out.
Claimable == lease <= -policy.failure

\* Mutant: a copy of an earlier epoch counts.
HasSnapshotOfAnyEpoch(n) == snap[n] # NoSnapshot /\ snap[n].source = owner

\* The newest snapshot of the owner's world, as a candidate holds it.
HasSnapshot(n) ==
  /\ snap[n] # NoSnapshot
  /\ snap[n].source = owner
  /\ snap[n].epoch = epoch

Eligible(n) == HasSnapshot(n) /\ snap[n].age <= policy.maxAge

\* What lets the other node take over: a handoff its owner released, or the policy.
Permitted(n) ==
  \/ handoff = n
  \/ policy.allowRecovery /\ (policy.automatic \/ requested = n)

\* Mutant: a takeover does not wait for the lease and the failure interval.
GrantedAtOnce(n, s, claim) ==
  \/ owner = n /\ session \in {s, NoSession}
  \/ claim /\ owner = n /\ Claimable
  \/ claim /\ owner # n /\ Eligible(n) /\ Permitted(n)

\* The answer of launcher_host_poll to session s of node n.
Granted(n, s, claim) ==
  \/ owner = n /\ session = s
  \/ owner = n /\ session = NoSession
  \/ claim /\ owner = n /\ Claimable
  \/ claim /\ owner # n /\ Claimable /\ Eligible(n) /\ Permitted(n)

RestoreRequired(n, s, claim) == Granted(n, s, claim) /\ owner # n

Renew(n) ==
  /\ lease' = LeaseTime
  /\ catalog' = n

\* Mutants: the owner changes within an epoch, keeps the old session, or inherits
\* the switch that brought it.
NewOwnerSameEpoch(n, s) ==
  owner' = n /\ session' = s /\ epoch' = epoch /\ requested' = NoNode /\ handoff' = NoNode
NewOwnerOldSession(n, s) ==
  /\ epoch < MaxEpoch
  /\ owner' = n /\ epoch' = epoch + 1 /\ requested' = NoNode /\ handoff' = NoNode
  /\ UNCHANGED session
NewOwnerKeepsRequest(n, s) ==
  /\ epoch < MaxEpoch
  /\ owner' = n /\ session' = s /\ epoch' = epoch + 1
  /\ UNCHANGED <<requested, handoff>>

\* A grant to a session that did not own the lease starts an epoch.
NewOwner(n, s) ==
  /\ epoch < MaxEpoch
  /\ owner' = n
  /\ session' = s
  /\ epoch' = epoch + 1
  /\ requested' = NoNode
  /\ handoff' = NoNode

Poll(n, s, claim) ==
  /\ \/ /\ Granted(n, s, claim) /\ session # s
        /\ NewOwner(n, s)
        /\ Renew(n)
     \/ /\ Granted(n, s, claim) /\ session = s
        /\ Renew(n)
        /\ UNCHANGED <<owner, session, epoch, requested, handoff>>
     \/ /\ ~Granted(n, s, claim)
        /\ UNCHANGED <<owner, session, epoch, requested, handoff, lease, catalog>>
  /\ UNCHANGED <<policy, revision, snap>>

\* Mutant: the source of a copy is not compared with the owner.
AcceptsAnySource(src, e) == epoch = e

\* Whether launcher_host_snapshot takes a copy of src's world, made in epoch e.
Accepts(src, e) == owner = src /\ epoch = e

\* Node n reports it holds the copy id, begun age ticks ago.
RecordSnapshot(n, src, e, age, id) ==
  /\ n # src
  /\ snap' = IF Accepts(src, e)
             THEN [snap EXCEPT ![n] = [source |-> src, epoch |-> e, age |-> age, id |-> id]]
             ELSE snap
  /\ UNCHANGED <<policy, revision, owner, session, epoch, lease, requested, handoff, catalog>>

\* The requested node holds a copy recent enough to release the lease to it.
ReleaseReady(n) ==
  /\ requested \notin {NoNode, n}
  /\ HasSnapshot(requested)
  /\ snap[requested].age <= ReleaseAge

Releases(n, s, e) == owner = n /\ session = s /\ epoch = e /\ ReleaseReady(n)

Release(n, s, e) ==
  /\ IF Releases(n, s, e)
     THEN lease' = -policy.failure /\ handoff' = requested
     ELSE UNCHANGED <<lease, handoff>>
  /\ UNCHANGED <<policy, revision, owner, session, epoch, requested, snap, catalog>>

\* Mutant: the revision the panel read is not compared.
ConfigureUnread(p, r) ==
  /\ revision < MaxRevision
  /\ ValidPolicy(p)
  /\ policy' = p /\ revision' = revision + 1
  /\ requested' = IF p.primary = policy.primary THEN requested
                  ELSE IF p.primary = owner THEN NoNode ELSE p.primary
  /\ UNCHANGED <<owner, session, epoch, lease, handoff, snap, catalog>>

\* launcher_host_admin 'configure', from a panel that read revision r.
Configure(p, r) ==
  /\ r = revision
  /\ revision < MaxRevision
  /\ ValidPolicy(p)
  /\ policy' = p
  /\ revision' = revision + 1
  /\ requested' = CASE p.primary = policy.primary -> requested
                    [] p.primary = owner /\ p.primary # policy.primary -> NoNode
                    [] p.primary # owner /\ p.primary # policy.primary -> p.primary
  /\ UNCHANGED <<owner, session, epoch, lease, handoff, snap, catalog>>

\* launcher_host_admin 'switch': to the owner it cancels, else it asks for a handoff.
Switch(n) ==
  /\ revision < MaxRevision
  /\ revision' = revision + 1
  /\ IF n = owner
     THEN requested' = NoNode /\ handoff' = NoNode
     ELSE requested' = n /\ UNCHANGED handoff
  /\ UNCHANGED <<policy, owner, session, epoch, lease, snap, catalog>>

\* One tick of the database clock.
Older(row) ==
  IF row = NoSnapshot \/ row.age > MaxAge THEN row ELSE [row EXCEPT !.age = @ + 1]

ControlTick ==
  /\ lease' = IF lease = -MaxFailure THEN lease ELSE lease - 1
  /\ snap' = [n \in Node |-> Older(snap[n])]
  /\ UNCHANGED <<policy, revision, owner, session, epoch, requested, handoff, catalog>>

-----------------------------------------------------------------------------
(* A row recorded in the running epoch is a copy of the owner's world, held *)
(* by the other node: a restore can never start from the target's own world *)
(* or from the world of a deposed owner (launcher_host_snapshot's check).   *)
CurrentCopyIsOwners ==
  \A n \in Node : snap[n] # NoSnapshot /\ snap[n].epoch = epoch => snap[n].source = owner /\ n # owner

(* No row comes from an epoch that has not begun, and no node copies itself. *)
RowsAreCopies ==
  \A n \in Node : snap[n] # NoSnapshot => snap[n].epoch <= epoch /\ snap[n].source # n

(* A switch names the node that does not own the lease: the owner's agent    *)
(* would otherwise hand its world to itself, and no one could claim it.      *)
RequestNamesOther == requested # owner /\ handoff # owner

=============================================================================
