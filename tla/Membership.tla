----------------------------- MODULE Membership -----------------------------
(***************************************************************************)
(* Who may use the launcher: the rows of launcher_members with their       *)
(* roles, the invitation codes, and the day for which a removed member     *)
(* still holds their names.                                                *)
(*                                                                         *)
(* The edge function looks at the caller's row first and the database      *)
(* function that does the work looks again, so an administrator's request  *)
(* is two steps with anything in between.  Each database function locks    *)
(* the rows it decides on and is one step.  The deployed group columns are *)
(* not in this repository and are left out.                                *)
(***************************************************************************)
EXTENDS Naturals, FiniteSets

CONSTANTS
  User,
  Founder,     \* the member who is administrator from the start
  Code,        \* the invitation codes that may be handed out
  NoInvite,    \* a code that was not handed out yet
  Hold,        \* the day of launcher_game_name_hold
  OpenLimit,   \* the 3 codes a member may have open
  GroupLimit,  \* the 20 uses an administrator may give a code
  AdminOps,    \* bound of the model: what administrators ask for
  MaxRequests  \* bound of the model: requests between their two steps

ASSUME MembershipAssumption ==
  /\ Founder \in User
  /\ Hold \in Nat \ {0} /\ OpenLimit \in Nat \ {0}
  /\ GroupLimit \in Nat \ {0} /\ MaxRequests \in Nat
  /\ AdminOps \subseteq {"set_role", "remove"}

VARIABLES
  role,      \* launcher_members.role, "none" without a row
  removed,   \* the time since removed_at, Hold for a day or more and for no row
  invite,    \* launcher_invites
  request    \* what administrators asked and the database did not do yet

memberVars == <<role, removed, invite, request>>

Role == {"admin", "member"}

Invite == [by : User, left : 0..GroupLimit, open : BOOLEAN]

Request == [op : {"set_role"}, actor : User, on : User, to : Role]
      \cup [op : {"remove"}, actor : User, on : User]

MemberTypeOK ==
  /\ role \in [User -> Role \cup {"none"}]
  /\ removed \in [User -> 0..Hold]
  /\ invite \in [Code -> Invite \cup {NoInvite}]
  /\ request \subseteq Request

MemberInit ==
  /\ role = [u \in User |-> IF u = Founder THEN "admin" ELSE "none"]
  /\ removed = [u \in User |-> Hold]
  /\ invite = [c \in Code |-> NoInvite]
  /\ request = {}

-----------------------------------------------------------------------------
Member(u) == role[u] # "none"
Admins == {u \in User : role[u] = "admin"}

\* A code that still lets someone in: not revoked, not expired, not used up.
Open(c) == invite[c] # NoInvite /\ invite[c].open /\ invite[c].left > 0

OpenOf(u) == {c \in Code : Open(c) /\ invite[c].by = u}

Lesser(m, n) == IF m < n THEN m ELSE n

\* One more unit of time since an event, up to the age that no longer matters.
Older(age) == Lesser(age + 1, Hold)

MemberTick == removed' = [u \in User |-> Older(removed[u])]

\* A current member, or one removed less than a day ago, still holds names.
HolderActive(u) == Member(u) \/ removed[u] < Hold

-----------------------------------------------------------------------------
\* The role is read under the member's row lock, whatever the edge function saw.
CreateInvite(u, c, uses) ==
  /\ invite[c] = NoInvite
  /\ Member(u)
  /\ role[u] = "member" => Cardinality(OpenOf(u)) < OpenLimit
  /\ invite' = [invite EXCEPT ![c] =
       [by |-> u, left |-> IF role[u] = "admin" THEN Lesser(uses, GroupLimit) ELSE 1,
        open |-> TRUE]]
  /\ UNCHANGED <<role, removed, request>>

RevokeInvite(u, c) ==
  /\ c \in OpenOf(u)
  /\ invite' = [invite EXCEPT ![c].open = FALSE]
  /\ UNCHANGED <<role, removed, request>>

ExpireInvite(c) ==
  /\ Open(c)
  /\ invite' = [invite EXCEPT ![c].open = FALSE]
  /\ UNCHANGED <<role, removed, request>>

\* A signed-in user without a row enters a code; the code's row is locked, and the
\* insert trigger forgets that the user was ever removed.
Redeem(u, c) ==
  /\ ~Member(u) /\ Open(c)
  /\ role' = [role EXCEPT ![u] = "member"]
  /\ invite' = [invite EXCEPT ![c].left = @ - 1]
  /\ removed' = [removed EXCEPT ![u] = Hold]
  /\ UNCHANGED request

-----------------------------------------------------------------------------
\* The edge function lets the request of an administrator through.
Ask(r) ==
  /\ role[r.actor] = "admin" /\ r.op \in AdminOps
  /\ Cardinality(request) < MaxRequests
  /\ r \notin request
  /\ request' = request \cup {r}
  /\ UNCHANGED <<role, removed, invite>>

Answered(r) == request' = request \ {r}

\* Mutant: the edge function's check is trusted, and an administrator who asks is
\* taken as proof that one is left.
MayChangeTrustingEdge(r) ==
  /\ Member(r.on)
  /\ r.on # r.actor

\* What launcher_admin_set_role and _remove_member demand, one at a time.
MayChange(r) ==
  /\ role[r.actor] = "admin"
  /\ Member(r.on)
  /\ r.on # r.actor
  /\ role[r.on] = "admin" => Cardinality(Admins) > 1

SetRole(r) ==
  /\ r \in request /\ r.op = "set_role"
  /\ role' = IF MayChange(r) THEN [role EXCEPT ![r.on] = r.to] ELSE role
  /\ Answered(r)
  /\ UNCHANGED <<removed, invite>>

\* Mutant: the trigger forgets the codes the removed member handed out.
RemovedRowsWithCodes(u) ==
  /\ role' = [role EXCEPT ![u] = "none"]
  /\ removed' = [removed EXCEPT ![u] = 0]
  /\ UNCHANGED invite

\* The row goes, and the trigger launcher_member_removed ends what hangs on it.  The
\* test access, game tokens, joins, tickets and sessions it ends too are not modelled.
RemovedRows(u) ==
  /\ role' = [role EXCEPT ![u] = "none"]
  /\ removed' = [removed EXCEPT ![u] = 0]
  /\ invite' = [c \in Code |->
       IF invite[c] # NoInvite /\ invite[c].by = u
       THEN [invite[c] EXCEPT !.open = FALSE] ELSE invite[c]]

RemoveMember(r) ==
  /\ r \in request /\ r.op = "remove"
  /\ Answered(r)
  /\ IF MayChange(r) THEN RemovedRows(r.on)
     ELSE UNCHANGED <<role, removed, invite>>

MemberStep ==
  \/ \E u \in User, c \in Code, uses \in 1..GroupLimit : CreateInvite(u, c, uses)
  \/ \E u \in User, c \in Code : RevokeInvite(u, c) \/ Redeem(u, c)
  \/ \E c \in Code : ExpireInvite(c)
  \/ \E r \in Request : Ask(r)
  \/ \E r \in request : SetRole(r) \/ RemoveMember(r)

\* Time passes with nothing else; the modules that extend this one have more clocks.
MemberDay == MemberTick /\ UNCHANGED <<role, invite, request>>

MemberSpec == MemberInit /\ [][MemberStep \/ MemberDay]_memberVars

-----------------------------------------------------------------------------
\* Two administrators never demote or remove each other at once and leave nobody
\* in charge (launcher_admin_set_role).
AdminRemains == Admins # {}

\* A code that still admits people was handed out by someone who is a member now:
\* nobody who left keeps an open code, and coming back reopens none
\* (launcher_member_removed, launcher_create_invite).
OpenInvitesHaveMembers == \A c \in Code : Open(c) => Member(invite[c].by)

=============================================================================
