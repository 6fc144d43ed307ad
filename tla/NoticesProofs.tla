--------------------------- MODULE NoticesProofs ---------------------------
(***************************************************************************)
(* What the launcher's members, the main screen and the relay of the       *)
(* notices promise, for any members, codes, servers, notices and faults.   *)
(*                                                                         *)
(* The order of the relay's queue is a sorted permutation, whose existence *)
(* is an induction; nothing below needs it, so a queue is any value here.  *)
(***************************************************************************)
EXTENDS NoticeRelay, SequenceTheorems, TLAPS

MembersInv == MemberTypeOK /\ AdminRemains /\ OpenInvitesHaveMembers

\* A read that did not end is the present session's; its answer is one its member may see.
ReadsOwn == \A k \in Reader : reading[k] # Idle =>
  /\ ~reading[k].ended => reading[k].as = account
  /\ reading[k].answer > 0 => /\ reading[k].answer <= Len(notice)
                              /\ notice[reading[k].answer] \in {reading[k].as, Everyone}

\* A notice that came to an open screen is held only while the screen stays open.
HeldWhileOpen ==
  /\ current <= Len(notice)
  /\ current # 0 /\ ~stray =>
       /\ allowed
       /\ account # Nobody => notice[current] \in {account, Everyone}

ScreenInv == TableTypeOK /\ ScreenTypeOK /\ ReadsOwn /\ HeldWhileOpen

RecordOf(X) == [id : X, units : SUBSET Server, stale : BOOLEAN]
Records(rs) == \E X : rs \in Seq(RecordOf(X))

Running == relay.at \in {"next", "send"}

RelayShape ==
  \/ relay \in {Off, Asleep}
  \/ /\ Running
     /\ relay = [at |-> relay.at, queue |-> relay.queue, records |-> relay.records,
                 todo |-> relay.todo, changed |-> relay.changed]
     /\ relay.changed \in BOOLEAN /\ Records(relay.records)

Sent == {p \in Place : banner[p] > 0}

\* What was sent is on the relay's records, or on disk while the relay sleeps.
SentIsRecorded ==
  IF Running THEN Sent \subseteq Places(relay.records) \cup excused
  ELSE Sent \subseteq Places(file) \cup excused

\* The disk lags behind the records only while a notice is being sent.
DiskLags ==
  relay.at = "next" \/ (relay.at = "send" /\ ~relay.changed) =>
    Places(relay.records) \subseteq Places(file) \cup excused

\* The servers still to do are not on the record of the notice in hand.
TodoIsUnsent ==
  relay.at = "send" =>
    /\ Has(relay.records, Head(relay.queue))
    /\ relay.todo \cap Units(relay.records, Head(relay.queue)) = {}

RelayInv ==
  /\ banner \in [Place -> 0..2] /\ Records(file) /\ RelayShape
  /\ SentIsRecorded /\ DiskLags /\ TodoIsUnsent
  /\ OncePerServer

Inv == MembersInv /\ ScreenInv /\ RelayInv

-----------------------------------------------------------------------------
LEMMA SeqParts ==
  ASSUME NEW S, NEW q \in Seq(S)
  PROVE  /\ Len(q) \in Nat /\ DOMAIN q = 1..Len(q)
         /\ \A i \in 1..Len(q) : q[i] \in S
BY LenProperties, ElementOfSeq

LEMMA SeqMade ==
  ASSUME NEW S, NEW n \in Nat, NEW q \in [1..n -> S]
  PROVE  q \in Seq(S)
OBVIOUS

LEMMA UnitsMember ==
  ASSUME NEW rs, NEW m, NEW x
  PROVE  x \in Units(rs, m) <=> \E i \in DOMAIN rs : rs[i].id = m /\ x \in rs[i].units
BY DEF Units

(* A new record changes what no server took.                                 *)
LEMMA UnitsWithRecord ==
  ASSUME NEW rs, Records(rs), NEW n
  PROVE  /\ Records(WithRecord(rs, n)) /\ Has(WithRecord(rs, n), n)
         /\ \A m : Units(WithRecord(rs, n), m) = Units(rs, m)
<1>1. CASE Has(rs, n)
  BY <1>1 DEF WithRecord
<1>2. CASE ~Has(rs, n)
  <2> DEFINE r == [id |-> n, units |-> {}, stale |-> FALSE]
             new == Append(rs, r)
  <2>1. PICK X : rs \in Seq(RecordOf(X))
    BY DEF Records
  <2>2. RecordOf(X) \subseteq RecordOf(X \cup {n}) /\ r \in RecordOf(X \cup {n})
    BY DEF RecordOf
  <2>3. rs \in Seq(RecordOf(X \cup {n}))
    BY <2>1, <2>2, SeqMonotonic
  <2>4. r.id = n /\ r.units = {}
    OBVIOUS
  <2> HIDE DEF r
  <2>5. /\ new \in Seq(RecordOf(X \cup {n})) /\ Len(new) = Len(rs) + 1
        /\ new[Len(rs) + 1] = r /\ \A i \in 1..Len(rs) : new[i] = rs[i]
    BY <2>2, <2>3, AppendProperties
  <2> HIDE DEF new
  <2>6. DOMAIN new = 1..(Len(rs) + 1) /\ DOMAIN rs = 1..Len(rs) /\ Len(rs) \in Nat
    BY <2>1, <2>5, SeqParts
  <2>7. \A m, x : x \in Units(new, m) <=> x \in Units(rs, m)
    BY <2>4, <2>5, <2>6, UnitsMember
  <2>8. \A m : Units(new, m) = Units(rs, m)
    BY <2>7
  <2>9. Has(new, n)
    BY <2>4, <2>5, <2>6 DEF Has
  <2>10. WithRecord(rs, n) = new
    BY <1>2 DEF WithRecord, new, r
  <2> QED BY <2>5, <2>8, <2>9, <2>10 DEF Records
<1> QED BY <1>1, <1>2

(* The mark of a stale notice leaves the servers on its record.              *)
LEMMA UnitsStaled ==
  ASSUME NEW rs, Records(rs), NEW n
  PROVE  /\ Records(Staled(rs, n))
         /\ \A m : Units(Staled(rs, n), m) = Units(rs, m)
<1> DEFINE new == Staled(rs, n)
           turned(r) == IF r.id = n THEN [r EXCEPT !.stale = TRUE] ELSE r
<1>1. PICK X : rs \in Seq(RecordOf(X))
  BY DEF Records
<1>2. DOMAIN rs = 1..Len(rs) /\ Len(rs) \in Nat /\ \A i \in 1..Len(rs) : rs[i] \in RecordOf(X)
  BY <1>1, SeqParts
<1>3. \A r \in RecordOf(X) : /\ turned(r).id = r.id /\ turned(r).units = r.units
                             /\ turned(r) \in RecordOf(X)
  BY DEF RecordOf
<1>4. new = [i \in 1..Len(rs) |-> turned(rs[i])]
  BY <1>2 DEF Staled
<1> HIDE DEF turned, new
<1>5. new \in [1..Len(rs) -> RecordOf(X)]
  BY <1>2, <1>3, <1>4
<1>6. new \in Seq(RecordOf(X))
  BY <1>2, <1>5, SeqMade
<1>7. \A m, x : x \in Units(new, m) <=> x \in Units(rs, m)
  BY <1>2, <1>3, <1>4, UnitsMember
<1>8. \A m : Units(new, m) = Units(rs, m)
  BY <1>7
<1> QED BY <1>6, <1>8 DEF Records, new

(* A server that took the notice is on its record, and nothing else changes. *)
LEMMA UnitsMarked ==
  ASSUME NEW rs, Records(rs), NEW n, NEW s \in Server, Has(rs, n)
  PROVE  /\ Records(Marked(rs, n, s)) /\ Has(Marked(rs, n, s), n)
         /\ Units(Marked(rs, n, s), n) = Units(rs, n) \cup {s}
         /\ \A m : m # n => Units(Marked(rs, n, s), m) = Units(rs, m)
<1> DEFINE new == Marked(rs, n, s)
           turned(r) == IF r.id = n THEN [r EXCEPT !.units = @ \cup {s}] ELSE r
<1>1. PICK X : rs \in Seq(RecordOf(X))
  BY DEF Records
<1>2. DOMAIN rs = 1..Len(rs) /\ Len(rs) \in Nat /\ \A i \in 1..Len(rs) : rs[i] \in RecordOf(X)
  BY <1>1, SeqParts
<1>3. \A r \in RecordOf(X) :
        /\ turned(r).id = r.id /\ turned(r) \in RecordOf(X)
        /\ turned(r).units = IF r.id = n THEN r.units \cup {s} ELSE r.units
  BY DEF RecordOf
<1>4. new = [i \in 1..Len(rs) |-> turned(rs[i])]
  BY <1>2 DEF Marked
<1> HIDE DEF turned, new
<1>5. new \in [1..Len(rs) -> RecordOf(X)]
  BY <1>2, <1>3, <1>4
<1>6. new \in Seq(RecordOf(X))
  BY <1>2, <1>5, SeqMade
<1>7. Has(new, n)
  BY <1>2, <1>3, <1>4 DEF Has
<1>8. /\ DOMAIN new = 1..Len(rs)
      /\ \A i \in 1..Len(rs) :
           /\ new[i].id = rs[i].id
           /\ new[i].units = IF rs[i].id = n THEN rs[i].units \cup {s} ELSE rs[i].units
  BY <1>2, <1>3, <1>4
<1>9. ASSUME NEW x PROVE x \in Units(new, n) <=> x \in Units(rs, n) \cup {s}
  <2>1. x \in Units(new, n) <=> \E i \in 1..Len(rs) : rs[i].id = n /\ x \in rs[i].units \cup {s}
    <3>1. x \in Units(new, n) <=> \E i \in 1..Len(rs) : new[i].id = n /\ x \in new[i].units
      BY <1>8, UnitsMember
    <3> QED BY <1>8, <3>1
  <2>2. x \in Units(rs, n) <=> \E i \in 1..Len(rs) : rs[i].id = n /\ x \in rs[i].units
    BY <1>2, UnitsMember
  <2>3. \E i \in 1..Len(rs) : rs[i].id = n
    BY <1>2 DEF Has
  <2> QED BY <2>1, <2>2, <2>3
<1>10. ASSUME NEW m, NEW x, m # n PROVE x \in Units(new, m) <=> x \in Units(rs, m)
  <2>1. x \in Units(new, m) <=> \E i \in 1..Len(rs) : rs[i].id = m /\ x \in rs[i].units
    <3>1. x \in Units(new, m) <=> \E i \in 1..Len(rs) : new[i].id = m /\ x \in new[i].units
      BY <1>8, UnitsMember
    <3> QED BY <1>10, <1>8, <3>1
  <2>2. x \in Units(rs, m) <=> \E i \in 1..Len(rs) : rs[i].id = m /\ x \in rs[i].units
    BY <1>2, UnitsMember
  <2> QED BY <2>1, <2>2
<1>11. \A m : m # n => Units(new, m) = Units(rs, m)
  BY <1>10
<1>12. Units(new, n) = Units(rs, n) \cup {s}
  BY <1>9
<1> QED BY <1>6, <1>7, <1>11, <1>12 DEF Records, new

(* Only the last records are kept.                                           *)
LEMMA RecordsLasting ==
  ASSUME NEW rs, Records(rs)
  PROVE  Records(Lasting(rs))
<1>1. PICK X : rs \in Seq(RecordOf(X))
  BY DEF Records
<1>2. Len(rs) \in Nat /\ \A i \in 1..Len(rs) : rs[i] \in RecordOf(X)
  BY <1>1, SeqParts
<1>3. Lesser(Len(rs), KeepNotices) \in 0..Len(rs)
  BY <1>2, RelayAssumption DEF Lesser
<1>4. Lasting(rs) \in Seq(RecordOf(X))
  BY <1>2, <1>3, SubSeqProperties DEF Lasting
<1> QED BY <1>4 DEF Records

-----------------------------------------------------------------------------
(* What a change of the members keeps.                                       *)
LEMMA CreateInviteInv ==
  ASSUME MembersInv, NEW u \in User, NEW c \in Code, NEW uses \in 1..GroupLimit,
         CreateInvite(u, c, uses)
  PROVE  MembersInv'
<1> DEFINE new == [by |-> u, left |-> IF role[u] = "admin" THEN Lesser(uses, GroupLimit) ELSE 1,
                   open |-> TRUE]
<1>1. /\ Member(u) /\ invite' = [invite EXCEPT ![c] = new] /\ UNCHANGED <<role, removed, request>>
  BY DEF CreateInvite
<1>2. new \in Invite
  BY MembershipAssumption DEF Invite, Lesser
<1>3. MemberTypeOK'
  BY <1>1, <1>2 DEF MembersInv, MemberTypeOK
<1>4. AdminRemains'
  BY <1>1 DEF MembersInv, AdminRemains, Admins
<1>5. OpenInvitesHaveMembers'
  <2> SUFFICES ASSUME NEW d \in Code, Open(d)' PROVE role[invite'[d].by] # "none"
    BY <1>1 DEF OpenInvitesHaveMembers, Member
  <2>1. CASE d = c
    BY <1>1, <2>1 DEF MembersInv, MemberTypeOK, Member
  <2>2. CASE d # c
    BY <1>1, <2>2 DEF MembersInv, MemberTypeOK, OpenInvitesHaveMembers, Open, Member
  <2> QED BY <2>1, <2>2
<1> QED BY <1>3, <1>4, <1>5 DEF MembersInv

(* A code that is revoked or expires.                                        *)
LEMMA InviteEndsInv ==
  ASSUME MembersInv, NEW c \in Code, Open(c),
         invite' = [invite EXCEPT ![c].open = FALSE], UNCHANGED <<role, removed, request>>
  PROVE  MembersInv'
<1>1. invite[c] \in Invite
  BY DEF MembersInv, MemberTypeOK, Open
<1>2. [invite[c] EXCEPT !.open = FALSE] \in Invite
  BY <1>1 DEF Invite
<1>3. MemberTypeOK'
  BY <1>2 DEF MembersInv, MemberTypeOK
<1>4. AdminRemains'
  BY DEF MembersInv, AdminRemains, Admins
<1>5. OpenInvitesHaveMembers'
  <2> SUFFICES ASSUME NEW d \in Code, Open(d)' PROVE role[invite'[d].by] # "none"
    BY DEF OpenInvitesHaveMembers, Member
  <2>1. invite'[d] = invite[d]
    BY <1>1 DEF MembersInv, MemberTypeOK, Open, Invite
  <2> QED BY <2>1 DEF MembersInv, OpenInvitesHaveMembers, Open, Member
<1> QED BY <1>3, <1>4, <1>5 DEF MembersInv

LEMMA RedeemInv ==
  ASSUME MembersInv, NEW u \in User, NEW c \in Code, Redeem(u, c)
  PROVE  MembersInv'
<1>1. /\ role[u] = "none" /\ Open(c)
      /\ role' = [role EXCEPT ![u] = "member"]
      /\ invite' = [invite EXCEPT ![c].left = @ - 1]
      /\ removed' = [removed EXCEPT ![u] = Hold] /\ UNCHANGED request
  BY DEF Redeem, Member
<1>2. invite[c] \in Invite /\ invite[c].left > 0
  BY <1>1 DEF MembersInv, MemberTypeOK, Open
<1>3. [invite[c] EXCEPT !.left = @ - 1] \in Invite
  BY <1>2, MembershipAssumption DEF Invite
<1>4. MemberTypeOK'
  BY <1>1, <1>3, MembershipAssumption DEF MembersInv, MemberTypeOK, Role
<1>5. \A v \in User : role[v] # "none" => role'[v] = role[v]
  BY <1>1 DEF MembersInv, MemberTypeOK
<1>6. AdminRemains'
  BY <1>5 DEF MembersInv, AdminRemains, Admins
<1>7. OpenInvitesHaveMembers'
  <2> SUFFICES ASSUME NEW d \in Code, Open(d)' PROVE role'[invite'[d].by] # "none"
    BY DEF OpenInvitesHaveMembers, Member
  <2>1. Open(d) /\ invite[d] \in Invite /\ invite'[d].by = invite[d].by
    <3>1. CASE d = c
      BY <1>1, <1>2, <3>1 DEF MembersInv, MemberTypeOK, Invite
    <3>2. CASE d # c
      BY <1>1, <3>2 DEF MembersInv, MemberTypeOK, Open
    <3> QED BY <3>1, <3>2
  <2>2. role[invite[d].by] # "none" /\ invite[d].by \in User
    BY <2>1 DEF MembersInv, OpenInvitesHaveMembers, Member, Invite
  <2> QED BY <1>5, <2>1, <2>2
<1> QED BY <1>4, <1>6, <1>7 DEF MembersInv

LEMMA AskInv ==
  ASSUME MembersInv, NEW r \in Request, Ask(r)
  PROVE  MembersInv'
BY DEF Ask, MembersInv, MemberTypeOK, AdminRemains, Admins, OpenInvitesHaveMembers, Open, Member

(* Whoever asks stays administrator: the database looks at the role again.   *)
LEMMA SetRoleInv ==
  ASSUME MembersInv, NEW r \in request, SetRole(r)
  PROVE  MembersInv'
<1>1. /\ request' = request \ {r} /\ UNCHANGED <<removed, invite>>
      /\ r.op = "set_role"
      /\ role' = IF MayChange(r) THEN [role EXCEPT ![r.on] = r.to] ELSE role
  BY DEF SetRole, Answered
<1>2. r.actor \in User /\ r.on \in User /\ r.to \in Role
  BY <1>1 DEF MembersInv, MemberTypeOK, Request
<1>3. MemberTypeOK'
  BY <1>1, <1>2 DEF MembersInv, MemberTypeOK
<1>4. \A u \in User : role[u] # "none" => role'[u] # "none"
  BY <1>1, <1>2 DEF MembersInv, MemberTypeOK, Role
<1>5. AdminRemains'
  BY <1>1, <1>2 DEF MayChange, MembersInv, MemberTypeOK, AdminRemains, Admins
<1>6. OpenInvitesHaveMembers'
  BY <1>1, <1>4 DEF MembersInv, MemberTypeOK, OpenInvitesHaveMembers, Open, Member, Invite
<1> QED BY <1>3, <1>5, <1>6 DEF MembersInv

LEMMA RemoveMemberInv ==
  ASSUME MembersInv, NEW r \in request, RemoveMember(r)
  PROVE  MembersInv'
<1>1. request' = request \ {r}
  BY DEF RemoveMember, Answered
<1>2. CASE MayChange(r)
  <2> DEFINE u == r.on
             closed(i) == IF i # NoInvite /\ i.by = u THEN [i EXCEPT !.open = FALSE] ELSE i
  <2>1. r.actor \in User /\ u \in User
    BY DEF MembersInv, MemberTypeOK, Request
  <2>2. /\ role' = [role EXCEPT ![u] = "none"] /\ removed' = [removed EXCEPT ![u] = 0]
        /\ invite' = [c \in Code |-> closed(invite[c])]
        /\ role[r.actor] = "admin" /\ u # r.actor
    BY <1>2 DEF RemoveMember, RemovedRows, MayChange
  <2>3. \A i \in Invite \cup {NoInvite} : closed(i) \in Invite \cup {NoInvite}
    BY DEF Invite
  <2>4. \A i \in Invite : i # NoInvite /\ closed(i).open => i.open /\ i.by # u /\ closed(i) = i
    BY DEF Invite
  <2> HIDE DEF closed
  <2>5. MemberTypeOK'
    BY <1>1, <2>1, <2>2, <2>3, MembershipAssumption DEF MembersInv, MemberTypeOK
  <2>6. AdminRemains'
    BY <2>1, <2>2 DEF MembersInv, MemberTypeOK, AdminRemains, Admins
  <2>7. OpenInvitesHaveMembers'
    <3> SUFFICES ASSUME NEW c \in Code, Open(c)' PROVE role'[invite'[c].by] # "none"
      BY DEF OpenInvitesHaveMembers, Member
    <3>1. invite[c] \in Invite /\ invite[c] # NoInvite
      <4>1. invite[c] # NoInvite
        BY <2>2 DEF Open, closed
      <4> QED BY <4>1 DEF MembersInv, MemberTypeOK
    <3>2. invite'[c] = invite[c] /\ Open(c) /\ invite[c].by # u
      BY <2>2, <2>4, <3>1 DEF Open
    <3> QED BY <2>1, <2>2, <3>1, <3>2
            DEF MembersInv, MemberTypeOK, OpenInvitesHaveMembers, Member, Invite
  <2> QED BY <2>5, <2>6, <2>7 DEF MembersInv
<1>3. CASE ~MayChange(r)
  BY <1>1, <1>3 DEF RemoveMember, MembersInv, MemberTypeOK, AdminRemains, Admins,
                    OpenInvitesHaveMembers, Open, Member
<1> QED BY <1>2, <1>3

LEMMA MembersStand == MembersInv /\ UNCHANGED memberVars => MembersInv'
BY DEF memberVars, MembersInv, MemberTypeOK, AdminRemains, Admins, OpenInvitesHaveMembers, Open,
       Member

LEMMA MemberStepInv == MembersInv /\ MemberStep => MembersInv'
<1> SUFFICES ASSUME MembersInv, MemberStep PROVE MembersInv'
  OBVIOUS
<1>1. ASSUME NEW u \in User, NEW c \in Code, RevokeInvite(u, c) PROVE MembersInv'
  BY <1>1, InviteEndsInv DEF RevokeInvite, OpenOf
<1>2. ASSUME NEW c \in Code, ExpireInvite(c) PROVE MembersInv'
  BY <1>2, InviteEndsInv DEF ExpireInvite
<1> QED BY <1>1, <1>2, CreateInviteInv, RedeemInv, AskInv, SetRoleInv, RemoveMemberInv DEF MemberStep

LEMMA MembersInitInv == MemberInit => MembersInv
<1> SUFFICES ASSUME MemberInit PROVE MembersInv
  OBVIOUS
<1>1. MemberTypeOK
  BY MembershipAssumption DEF MemberInit, MemberTypeOK, Role
<1>2. AdminRemains
  BY MembershipAssumption DEF MemberInit, AdminRemains, Admins
<1>3. OpenInvitesHaveMembers
  BY DEF MemberInit, OpenInvitesHaveMembers, Open
<1> QED BY <1>1, <1>2, <1>3 DEF MembersInv

-----------------------------------------------------------------------------
(* The notice a member is answered is one of theirs or everyone's.           *)
LEMMA PickedIsTheirs ==
  ASSUME TableTypeOK, NEW u \in User
  PROVE  /\ Picked(u) \in 0..Len(notice)
         /\ Picked(u) > 0 => notice[Picked(u)] \in {u, Everyone}
<1> DEFINE rows == IF ShownTo(u) # {} THEN ShownTo(u) ELSE ShownTo(Everyone)
<1>1. Len(notice) \in Nat /\ shown \subseteq 1..Len(notice)
  BY LenProperties DEF TableTypeOK, Rows
<1>2. \A n \in rows : n \in 1..Len(notice) /\ notice[n] \in {u, Everyone}
  BY <1>1 DEF ShownTo
<1>3. CASE rows = {}
  BY <1>1, <1>3 DEF Picked
<1>4. CASE rows # {}
  <2>1. Picked(u) = CHOOSE n \in rows : TRUE
    BY <1>4 DEF Picked
  <2>2. Picked(u) \in rows
    BY <1>4, <2>1
  <2> QED BY <1>1, <1>2, <2>2
<1> QED BY <1>3, <1>4

LEMMA ScreenInitInv == TableInit /\ ScreenInit => ScreenInv
<1> SUFFICES ASSUME TableInit, ScreenInit PROVE ScreenInv
  OBVIOUS
<1>1. Len(notice) = 0 /\ notice \in Seq(Audience)
  BY DEF TableInit
<1>2. TableTypeOK
  BY <1>1, NoticesAssumption DEF TableInit, TableTypeOK
<1>3. reading \in [Reader -> Read \cup {Idle}]
  BY DEF ScreenInit
<1>4. ScreenTypeOK
  <2>1. allowed \in BOOLEAN /\ stray \in BOOLEAN
    BY Zenon DEF ScreenInit
  <2> QED BY <1>3, <2>1, NoticesAssumption DEF ScreenInit, ScreenTypeOK
<1>5. ReadsOwn /\ HeldWhileOpen
  BY <1>1 DEF ScreenInit, ReadsOwn, HeldWhileOpen
<1> QED BY <1>2, <1>4, <1>5 DEF ScreenInv

(* Rows are only added, so what a notice says of its audience stays.         *)
LEMMA TableStepInv == ScreenInv /\ TableStep => ScreenInv'
<1> SUFFICES ASSUME ScreenInv, TableStep PROVE ScreenInv'
  OBVIOUS
<1>1. UNCHANGED screenVars
  BY DEF TableStep
<1>2. notice \in Seq(Audience) /\ Len(notice) \in Nat /\ Len(notice) <= MaxNotices
      /\ shown \subseteq 1..Len(notice)
  BY LenProperties DEF ScreenInv, TableTypeOK, Rows
<1>3. /\ TableTypeOK' /\ Len(notice) <= Len(notice') /\ Len(notice') \in Nat
      /\ \A n \in 1..Len(notice) : notice'[n] = notice[n]
  <2>1. PICK u \in User, a \in Audience : Post(u, a) \/ Clear(u, a)
    BY DEF TableStep
  <2>2. CASE Post(u, a)
    <3>1. /\ Len(notice) < MaxNotices /\ notice' = Append(notice, a)
          /\ shown' = (shown \ ShownTo(a)) \cup {Len(notice) + 1}
      BY <2>2 DEF Post
    <3>2. /\ notice' \in Seq(Audience) /\ Len(notice') = Len(notice) + 1
          /\ \A n \in 1..Len(notice) : notice'[n] = notice[n]
      BY <1>2, <2>1, <3>1, AppendProperties
    <3>3. shown' \subseteq 1..Len(notice')
      <4>1. 1..Len(notice) \cup {Len(notice) + 1} \subseteq 1..Len(notice')
        BY <1>2, <3>2
      <4>2. shown' \subseteq 1..Len(notice) \cup {Len(notice) + 1}
        BY <1>2, <3>1
      <4> QED BY <4>1, <4>2
    <3>4. Len(notice') <= MaxNotices /\ Len(notice) <= Len(notice') /\ Len(notice') \in Nat
      BY <1>2, <3>1, <3>2, NoticesAssumption
    <3>5. TableTypeOK'
      BY <3>2, <3>3, <3>4 DEF TableTypeOK, Rows
    <3> QED BY <3>2, <3>4, <3>5
  <2>3. CASE Clear(u, a)
    <3>1. notice' = notice /\ shown' = shown \ ShownTo(a)
      BY <2>3 DEF Clear
    <3>2. shown' \subseteq 1..Len(notice')
      BY <1>2, <3>1
    <3> QED BY <1>2, <3>1, <3>2 DEF TableTypeOK, Rows
  <2> QED BY <2>1, <2>2, <2>3
<1>4. ScreenTypeOK'
  BY <1>1 DEF ScreenInv, ScreenTypeOK, screenVars
<1>5. ReadsOwn'
  <2> SUFFICES ASSUME NEW k \in Reader, reading[k] # Idle
               PROVE  /\ ~reading[k].ended => reading[k].as = account
                      /\ reading[k].answer > 0 =>
                           /\ reading[k].answer <= Len(notice')
                           /\ notice'[reading[k].answer] \in {reading[k].as, Everyone}
    BY <1>1 DEF ReadsOwn, screenVars
  <2>1. reading[k].answer \in Int
    BY NoticesAssumption DEF ScreenInv, ScreenTypeOK, Read
  <2> QED BY <1>2, <1>3, <2>1 DEF ScreenInv, ReadsOwn
<1>6. HeldWhileOpen'
  <2>1. current \in Nat /\ current <= Len(notice)
    BY NoticesAssumption DEF ScreenInv, ScreenTypeOK, HeldWhileOpen
  <2> QED BY <1>1, <1>2, <1>3, <2>1 DEF ScreenInv, HeldWhileOpen, screenVars
<1> QED BY <1>3, <1>4, <1>5, <1>6 DEF ScreenInv

LEMMA SignInInv ==
  ASSUME ScreenInv, NEW u \in User, SignIn(u), UNCHANGED tableVars
  PROVE  ScreenInv'
<1>1. /\ account = Nobody /\ ~allowed /\ signIns < MaxSignIns
      /\ account' = u /\ signIns' = signIns + 1
      /\ UNCHANGED <<allowed, current, reading, stray, notice, shown>>
  BY DEF SignIn, tableVars
<1>2. TableTypeOK' /\ ScreenTypeOK'
  BY <1>1, NoticesAssumption DEF ScreenInv, TableTypeOK, Rows, ScreenTypeOK
<1>3. ReadsOwn'
  BY <1>1, NoticesAssumption DEF ScreenInv, ReadsOwn, ScreenTypeOK, Read
<1>4. HeldWhileOpen'
  BY <1>1 DEF ScreenInv, HeldWhileOpen
<1> QED BY <1>2, <1>3, <1>4 DEF ScreenInv

LEMMA SignOutInv ==
  ASSUME ScreenInv, SignOut, UNCHANGED tableVars
  PROVE  ScreenInv'
<1>1. /\ account' = Nobody
      /\ reading' = [k \in Reader |->
           IF reading[k] = Idle THEN Idle ELSE [reading[k] EXCEPT !.ended = TRUE]]
      /\ UNCHANGED <<allowed, current, stray, signIns, notice, shown>>
  BY DEF SignOut, tableVars
<1>2. ASSUME NEW k \in Reader, reading[k] # Idle
      PROVE  /\ reading'[k] \in Read /\ reading'[k].ended = TRUE
             /\ reading'[k].as = reading[k].as /\ reading'[k].answer = reading[k].answer
  <2>1. reading[k] \in Read
    BY <1>2 DEF ScreenInv, ScreenTypeOK
  <2>2. \A r \in Read, b \in BOOLEAN :
          /\ [r EXCEPT !.ended = b] \in Read /\ [r EXCEPT !.ended = b].ended = b
          /\ [r EXCEPT !.ended = b].as = r.as /\ [r EXCEPT !.ended = b].answer = r.answer
    BY DEF Read
  <2>3. reading'[k] = [reading[k] EXCEPT !.ended = TRUE]
    BY <1>1, <1>2
  <2> QED BY Zenon, <2>1, <2>2, <2>3
<1>3. \A k \in Reader : reading[k] = Idle => reading'[k] = Idle
  BY <1>1
<1>4. TableTypeOK' /\ ScreenTypeOK'
  BY <1>1, <1>2, <1>3 DEF ScreenInv, TableTypeOK, Rows, ScreenTypeOK
<1>5. ReadsOwn'
  BY <1>1, <1>2, <1>3 DEF ScreenInv, ReadsOwn
<1>6. HeldWhileOpen'
  BY <1>1 DEF ScreenInv, HeldWhileOpen
<1> QED BY <1>4, <1>5, <1>6 DEF ScreenInv

(* A check or a panel's read that begins.                                    *)
LEMMA BeginInv ==
  ASSUME ScreenInv, NEW k \in Reader, account \in User, Begin(k),
         UNCHANGED <<account, notice>>
  PROVE  reading' \in [Reader -> Read \cup {Idle}] /\ ReadsOwn'
<1> DEFINE r == [as |-> account, ended |-> FALSE, answer |-> -1]
<1>1. r \in Read /\ r.as = account /\ r.answer = -1
  <2>1. FALSE \in BOOLEAN /\ -1 \in {-1} \cup 0..MaxNotices
    BY Zenon
  <2> QED BY Zenon, <2>1 DEF Read
<1>2. reading' = [reading EXCEPT ![k] = r]
  BY DEF Begin
<1> HIDE DEF r
<1>3. reading'[k] = r /\ \A q \in Reader : q # k => reading'[q] = reading[q]
  BY <1>2 DEF ScreenInv, ScreenTypeOK
<1>4. ReadsOwn'
  BY <1>1, <1>3 DEF ScreenInv, ReadsOwn
<1> QED BY <1>1, <1>2, <1>4 DEF ScreenInv, ScreenTypeOK

LEMMA RefreshedInv ==
  ASSUME ScreenInv, Refreshed, UNCHANGED tableVars
  PROVE  ScreenInv'
<1>1. /\ allowed' = (account # Nobody /\ Member(account))
      /\ UNCHANGED <<account, signIns, notice, shown>>
  BY DEF Refreshed, tableVars
<1>2. allowed' \in BOOLEAN
  BY Zenon, <1>1
<1>3. reading' \in [Reader -> Read \cup {Idle}] /\ ReadsOwn'
  <2>1. CASE UNCHANGED reading
    BY <1>1, <2>1 DEF ScreenInv, ScreenTypeOK, ReadsOwn
  <2>2. CASE ~UNCHANGED reading
    <3>1. allowed' /\ Begin("check")
      BY <2>2 DEF Refreshed
    <3>2. account \in User
      BY <1>1, <3>1 DEF ScreenInv, ScreenTypeOK
    <3> QED BY <1>1, <3>1, <3>2, BeginInv DEF Reader
  <2> QED BY <2>1, <2>2
<1>4. CASE allowed /\ ~allowed'
  <2>1. current' = 0 /\ stray' = FALSE
    BY <1>4 DEF Refreshed
  <2>2. stray' \in BOOLEAN
    BY Zenon, <2>1
  <2>3. Len(notice) \in Nat
    BY LenProperties DEF ScreenInv, TableTypeOK
  <2>4. ScreenTypeOK'
    BY <1>1, <1>2, <1>3, <2>1, <2>2, NoticesAssumption DEF ScreenInv, ScreenTypeOK
  <2>5. TableTypeOK' /\ HeldWhileOpen'
    BY <1>1, <2>1, <2>3 DEF ScreenInv, TableTypeOK, Rows, HeldWhileOpen
  <2> QED BY <1>3, <2>4, <2>5 DEF ScreenInv
<1>5. CASE ~(allowed /\ ~allowed')
  <2>1. UNCHANGED <<current, stray>>
    BY <1>5 DEF Refreshed
  <2>2. ScreenTypeOK'
    BY <1>1, <1>2, <1>3, <2>1 DEF ScreenInv, ScreenTypeOK
  <2>3. TableTypeOK' /\ HeldWhileOpen'
    BY <1>1, <1>5, <2>1 DEF ScreenInv, TableTypeOK, Rows, HeldWhileOpen
  <2> QED BY <1>3, <2>2, <2>3 DEF ScreenInv
<1> QED BY <1>4, <1>5

LEMMA AskNoticeInv ==
  ASSUME ScreenInv, NEW k \in Reader, AskNotice(k), UNCHANGED tableVars
  PROVE  ScreenInv'
<1>1. /\ account # Nobody /\ Begin(k)
      /\ UNCHANGED <<account, allowed, current, stray, signIns, notice, shown>>
  BY DEF AskNotice, tableVars
<1>2. account \in User
  BY <1>1 DEF ScreenInv, ScreenTypeOK
<1>3. reading' \in [Reader -> Read \cup {Idle}] /\ ReadsOwn'
  BY <1>1, <1>2, BeginInv
<1> QED BY <1>1, <1>3 DEF ScreenInv, TableTypeOK, Rows, ScreenTypeOK, HeldWhileOpen

LEMMA AnswerInv ==
  ASSUME ScreenInv, NEW k \in Reader, Answer(k), UNCHANGED tableVars
  PROVE  ScreenInv'
<1> DEFINE n == Picked(reading[k].as)
<1>1. /\ reading[k] # Idle /\ reading' = [reading EXCEPT ![k].answer = n]
      /\ UNCHANGED <<account, allowed, current, stray, signIns, notice, shown>>
  BY DEF Answer, tableVars
<1>2. reading[k] \in Read
  BY <1>1 DEF ScreenInv, ScreenTypeOK
<1>3. n \in 0..Len(notice) /\ (n > 0 => notice[n] \in {reading[k].as, Everyone})
  BY <1>2, PickedIsTheirs DEF ScreenInv, Read
<1>4. Len(notice) \in Nat /\ Len(notice) <= MaxNotices
  BY LenProperties DEF ScreenInv, TableTypeOK
<1> HIDE DEF n
<1>5. n \in {-1} \cup 0..MaxNotices
  BY <1>3, <1>4, NoticesAssumption
<1>6. /\ reading'[k] \in Read /\ reading'[k].as = reading[k].as
      /\ reading'[k].ended = reading[k].ended /\ reading'[k].answer = n
      /\ \A q \in Reader : q # k => reading'[q] = reading[q]
  <2>1. reading'[k] = [reading[k] EXCEPT !.answer = n]
        /\ \A q \in Reader : q # k => reading'[q] = reading[q]
    BY <1>1 DEF ScreenInv, ScreenTypeOK
  <2> QED BY <1>2, <1>5, <2>1 DEF Read
<1>7. reading' \in [Reader -> Read \cup {Idle}]
  BY <1>1, <1>6 DEF ScreenInv, ScreenTypeOK
<1>8. ReadsOwn'
  BY <1>1, <1>3, <1>6 DEF ScreenInv, ReadsOwn
<1> QED BY <1>1, <1>7, <1>8 DEF ScreenInv, TableTypeOK, Rows, ScreenTypeOK, HeldWhileOpen

(* A read that is over, whatever became of it.                               *)
LEMMA ReadOverInv ==
  ASSUME ScreenInv, NEW k \in Reader, reading' = [reading EXCEPT ![k] = Idle],
         UNCHANGED <<account, notice>>
  PROVE  reading' \in [Reader -> Read \cup {Idle}] /\ ReadsOwn'
<1>1. reading'[k] = Idle /\ \A q \in Reader : q # k => reading'[q] = reading[q]
  BY DEF ScreenInv, ScreenTypeOK
<1> QED BY <1>1 DEF ScreenInv, ScreenTypeOK, ReadsOwn

LEMMA RefusedInv ==
  ASSUME ScreenInv, NEW k \in Reader, Refused(k), UNCHANGED tableVars
  PROVE  ScreenInv'
<1>1. /\ current' \in {current, 0}
      /\ UNCHANGED <<account, allowed, stray, signIns, notice, shown>>
  BY DEF Refused, tableVars
<1>2. reading' \in [Reader -> Read \cup {Idle}] /\ ReadsOwn'
  BY ReadOverInv DEF Refused, tableVars
<1>3. Len(notice) \in Nat
  BY LenProperties DEF ScreenInv, TableTypeOK
<1> QED BY <1>1, <1>2, <1>3, NoticesAssumption
        DEF ScreenInv, TableTypeOK, Rows, ScreenTypeOK, HeldWhileOpen

LEMMA ArriveInv ==
  ASSUME ScreenInv, NEW k \in Reader, Arrive(k), UNCHANGED tableVars
  PROVE  ScreenInv'
<1>1. /\ reading[k] # Idle /\ reading[k].answer # -1 /\ current' = reading[k].answer
      /\ stray' = (~allowed \/ reading[k].ended)
      /\ UNCHANGED <<account, allowed, signIns, notice, shown>>
  BY DEF Arrive, tableVars
<1>2. reading' \in [Reader -> Read \cup {Idle}] /\ ReadsOwn'
  BY ReadOverInv DEF Arrive, tableVars
<1>3. reading[k] \in Read
  BY <1>1 DEF ScreenInv, ScreenTypeOK
<1>4. current' \in 0..MaxNotices
  BY <1>1, <1>3, NoticesAssumption DEF Read
<1>5. stray' \in BOOLEAN
  BY Zenon, <1>1
<1>6. ScreenTypeOK'
  BY <1>1, <1>2, <1>4, <1>5 DEF ScreenInv, ScreenTypeOK
<1>7. Len(notice) \in Nat
  BY LenProperties DEF ScreenInv, TableTypeOK
<1>8. HeldWhileOpen'
  <2>1. ~stray' => allowed /\ ~reading[k].ended
    BY Zenon, <1>1
  <2>2. /\ ~reading[k].ended => reading[k].as = account
        /\ reading[k].answer > 0 => /\ reading[k].answer <= Len(notice)
                                    /\ notice[reading[k].answer] \in {reading[k].as, Everyone}
    BY <1>1 DEF ScreenInv, ReadsOwn
  <2>3. current' = 0 \/ current' > 0
    BY <1>4, NoticesAssumption
  <2> QED BY <1>1, <1>4, <1>7, <2>1, <2>2, <2>3 DEF HeldWhileOpen
<1> QED BY <1>1, <1>2, <1>6, <1>8 DEF ScreenInv, TableTypeOK, Rows

LEMMA ScreenStepInv == ScreenInv /\ ScreenStep => ScreenInv'
BY SignInInv, SignOutInv, RefreshedInv, AskNoticeInv, AnswerInv, RefusedInv, ArriveInv
   DEF ScreenStep

LEMMA ScreenStands == ScreenInv /\ UNCHANGED <<tableVars, screenVars>> => ScreenInv'
BY DEF tableVars, screenVars, ScreenInv, TableTypeOK, Rows, ScreenTypeOK, ReadsOwn, HeldWhileOpen

-----------------------------------------------------------------------------
LEMMA PlacesOf ==
  ASSUME NEW rs, NEW q, \A m : Units(rs, m) = Units(q, m)
  PROVE  Places(rs) = Places(q)
BY DEF Places

(* The fields of a relay's tick made anew.                                   *)
LEMMA RelayMade ==
  ASSUME NEW at \in {"next", "send"}, NEW q, NEW rs, NEW t, NEW c \in BOOLEAN, Records(rs),
         relay' = [at |-> at, queue |-> q, records |-> rs, todo |-> t, changed |-> c]
  PROVE  /\ relay'.at = at /\ relay'.queue = q /\ relay'.records = rs /\ relay'.todo = t
         /\ relay'.changed = c
         /\ RelayShape' /\ Running'
<1>1. relay'.at = at /\ relay'.queue = q /\ relay'.records = rs /\ relay'.todo = t
  OBVIOUS
<1>2. relay'.changed = c
  BY Zenon
<1>3. relay'.changed \in BOOLEAN
  BY Zenon, <1>2
<1>4. relay' = [at |-> relay'.at, queue |-> relay'.queue, records |-> relay'.records,
                todo |-> relay'.todo, changed |-> relay'.changed]
  BY Zenon, <1>1, <1>2
<1> QED BY <1>1, <1>2, <1>3, <1>4 DEF RelayShape, Running

(* The relay comes to its next notice, or sleeps: what was sent is on disk.  *)
LEMMA RelayAtRest ==
  ASSUME RelayInv,
         banner' = banner, Records(file)', excused \subseteq excused',
         \/ relay' = Asleep
         \/ /\ Running' /\ relay'.at = "next" /\ RelayShape'
            /\ Places(relay.records)' \subseteq Places(file)' \cup excused'
            /\ Sent \subseteq Places(relay.records)' \cup excused',
         Sent \subseteq Places(file)' \cup excused'
  PROVE  RelayInv'
<1>1. Sent' = Sent
  BY DEF Sent
<1>2. CASE relay' = Asleep
  <2>1. ~Running' /\ relay'.at = "sleep" /\ RelayShape'
    BY <1>2 DEF Asleep, Running, RelayShape
  <2> QED BY <1>1, <2>1 DEF RelayInv, SentIsRecorded, DiskLags, TodoIsUnsent, OncePerServer
<1>3. CASE relay' # Asleep
  BY <1>1, <1>3 DEF RelayInv, SentIsRecorded, DiskLags, TodoIsUnsent, OncePerServer
<1> QED BY <1>2, <1>3

(* The state file is written: what it no longer says is excused.             *)
LEMMA SavedCovers ==
  ASSUME NEW rs, Records(rs), Saved(rs)
  PROVE  /\ Records(file)' /\ excused \subseteq excused'
         /\ Places(rs) \subseteq Places(file)' \cup excused'
         /\ file' = Lasting(rs)
<1>1. file' = Lasting(rs) /\ excused' = excused \cup (Places(rs) \ Places(Lasting(rs)))
  BY DEF Saved
<1>2. Records(file')
  BY <1>1, RecordsLasting
<1>3. Places(file)' = Places(Lasting(rs))
  BY <1>1 DEF Places
<1>4. Records(file)'
  BY <1>2 DEF Records
<1> QED BY <1>1, <1>3, <1>4

LEMMA TickInv == RelayInv /\ Tick => RelayInv'
<1> SUFFICES ASSUME RelayInv, Tick PROVE RelayInv'
  OBVIOUS
<1>1. /\ relay = Asleep /\ UNCHANGED <<file, banner, excused>>
      /\ relay' = [at |-> "next", queue |-> Queue, records |-> file, todo |-> {},
                   changed |-> FALSE]
  BY DEF Tick
<1>2. ~Running
  BY <1>1 DEF Running, Asleep
<1>3. Records(file) /\ Sent \subseteq Places(file) \cup excused
  BY <1>2 DEF RelayInv, SentIsRecorded
<1>4. relay'.at = "next" /\ relay'.records = file /\ RelayShape' /\ Running'
  BY <1>1, <1>3, RelayMade
<1>5. Places(file)' = Places(file) /\ Places(relay.records)' = Places(file)
  BY <1>1, <1>4 DEF Places
<1> QED BY <1>1, <1>3, <1>4, <1>5, RelayAtRest DEF Records

(* Between two notices and while nothing new was sent, the disk has it all.  *)
LEMMA DiskHasAll ==
  ASSUME RelayInv, relay.at = "next" \/ (relay.at = "send" /\ ~relay.changed)
  PROVE  /\ Sent \subseteq Places(file) \cup excused
         /\ Sent \subseteq Places(relay.records) \cup excused
         /\ Places(relay.records) \subseteq Places(file) \cup excused
         /\ Running /\ Records(file) /\ Records(relay.records)
<1>1. Running /\ relay \notin {Off, Asleep}
  BY DEF Running, Off, Asleep
<1>2. Records(file) /\ Records(relay.records)
  BY <1>1 DEF RelayInv, RelayShape
<1> QED BY <1>1, <1>2 DEF RelayInv, SentIsRecorded, DiskLags

LEMMA FinishInv == RelayInv /\ Finish => RelayInv'
<1> SUFFICES ASSUME RelayInv, Finish PROVE RelayInv'
  OBVIOUS
<1>1. relay.at = "next" /\ relay' = Asleep /\ UNCHANGED <<file, banner, excused>>
  BY DEF Finish
<1>2. Places(file)' = Places(file)
  BY <1>1 DEF Places
<1> QED BY <1>1, <1>2, DiskHasAll, RelayAtRest DEF Records

(* What a killed relay had sent and not written is excused.                  *)
LEMMA KillInv == RelayInv /\ Kill => RelayInv'
<1> SUFFICES ASSUME RelayInv, Kill PROVE RelayInv'
  OBVIOUS
<1>1. /\ Running /\ relay' = Asleep /\ UNCHANGED <<file, banner>>
      /\ excused' = excused \cup (Places(relay.records) \ Places(file))
  BY DEF Kill, Running
<1>2. Places(file)' = Places(file)
  BY <1>1 DEF Places
<1>3. Sent \subseteq Places(relay.records) \cup excused /\ Records(file)
  BY <1>1 DEF RelayInv, SentIsRecorded
<1> QED BY <1>1, <1>2, <1>3, RelayAtRest DEF Records

-----------------------------------------------------------------------------
(* A notice is taken up, or marked and passed over once it is old.           *)
LEMMA TakeInv == RelayInv /\ Take => RelayInv'
<1> DEFINE n == Head(relay.queue)
           rs == WithRecord(relay.records, n)
           marked == Staled(rs, n)
<1> SUFFICES ASSUME RelayInv, Take PROVE RelayInv'
  OBVIOUS
<1>1. /\ relay.at = "next" /\ banner' = banner
      /\ \/ /\ relay' = [relay EXCEPT !.at = "send", !.records = rs,
                                      !.todo = Server \ Units(rs, n), !.changed = FALSE]
            /\ UNCHANGED <<file, excused>>
         \/ /\ IF marked = rs THEN UNCHANGED <<file, excused>> ELSE Saved(marked)
            /\ relay' = [relay EXCEPT !.queue = Tail(@), !.records =
                           IF marked = rs THEN rs ELSE Lasting(marked)]
  BY DEF Take
<1>2. /\ Sent \subseteq Places(file) \cup excused
      /\ Sent \subseteq Places(relay.records) \cup excused
      /\ Places(relay.records) \subseteq Places(file) \cup excused
      /\ Running /\ Records(file) /\ Records(relay.records)
  BY <1>1, DiskHasAll
<1>3. /\ relay = [at |-> relay.at, queue |-> relay.queue, records |-> relay.records,
                  todo |-> relay.todo, changed |-> relay.changed]
      /\ relay.changed \in BOOLEAN
  BY <1>2 DEF RelayInv, RelayShape, Running, Off, Asleep
<1>4. Records(rs) /\ Has(rs, n) /\ \A m : Units(rs, m) = Units(relay.records, m)
  BY <1>2, UnitsWithRecord
<1>5. Records(marked) /\ \A m : Units(marked, m) = Units(rs, m)
  BY <1>4, UnitsStaled
<1>6. Places(rs) = Places(relay.records) /\ Places(marked) = Places(relay.records)
  BY <1>4, <1>5, PlacesOf
<1> HIDE DEF n, rs, marked
<1>7. CASE /\ relay' = [relay EXCEPT !.at = "send", !.records = rs,
                                     !.todo = Server \ Units(rs, n), !.changed = FALSE]
           /\ UNCHANGED <<file, excused>>
  <2>1. relay' = [at |-> "send", queue |-> relay.queue, records |-> rs,
                  todo |-> Server \ Units(rs, n), changed |-> FALSE]
    BY Zenon, <1>3, <1>7
  <2>2. /\ relay'.at = "send" /\ relay'.queue = relay.queue /\ relay'.records = rs
        /\ relay'.todo = Server \ Units(rs, n) /\ RelayShape' /\ Running'
    BY <1>4, <2>1, RelayMade
  <2>3. Places(relay.records)' = Places(rs) /\ Places(file)' = Places(file) /\ Sent' = Sent
    BY <1>1, <1>7, <2>2 DEF Places, Sent
  <2>4. SentIsRecorded' /\ DiskLags'
    BY <1>2, <1>6, <1>7, <2>2, <2>3 DEF SentIsRecorded, DiskLags
  <2>5. TodoIsUnsent'
    <3>1. Has(rs, Head(relay'.queue)) /\ Units(rs, Head(relay'.queue)) = Units(rs, n)
      BY <1>4, <2>2 DEF n
    <3> QED BY <2>2, <3>1 DEF TodoIsUnsent, Has, Units
  <2>6. OncePerServer' /\ banner' \in [Place -> 0..2] /\ Records(file)'
    BY <1>1, <1>7 DEF RelayInv, OncePerServer, Records
  <2> QED BY <2>2, <2>4, <2>5, <2>6 DEF RelayInv
<1>8. CASE /\ IF marked = rs THEN UNCHANGED <<file, excused>> ELSE Saved(marked)
           /\ relay' = [relay EXCEPT !.queue = Tail(@), !.records =
                          IF marked = rs THEN rs ELSE Lasting(marked)]
  <2> DEFINE new == IF marked = rs THEN rs ELSE Lasting(marked)
  <2>1. relay' = [at |-> "next", queue |-> Tail(relay.queue), records |-> new,
                  todo |-> relay.todo, changed |-> relay.changed]
    BY Zenon, <1>1, <1>3, <1>8
  <2>2. Records(new)
    BY <1>4, <1>5, RecordsLasting
  <2> HIDE DEF new
  <2>3. relay'.at = "next" /\ relay'.records = new /\ RelayShape' /\ Running'
    BY <1>3, <2>1, <2>2, RelayMade
  <2>4. Places(relay.records)' = Places(new)
    BY <2>3 DEF Places
  <2>5. CASE marked = rs
    <3>1. new = rs /\ UNCHANGED <<file, excused>>
      BY <1>8, <2>5 DEF new
    <3>2. Places(file)' = Places(file)
      BY <3>1 DEF Places
    <3> QED BY <1>1, <1>2, <1>6, <2>3, <2>4, <3>1, <3>2, RelayAtRest DEF Records
  <2>6. CASE marked # rs
    <3>1. new = Lasting(marked) /\ Saved(marked)
      BY <1>8, <2>6 DEF new
    <3>2. /\ Records(file)' /\ excused \subseteq excused' /\ file' = new
          /\ Places(marked) \subseteq Places(file)' \cup excused'
      BY <1>5, <3>1, SavedCovers
    <3>3. Places(file)' = Places(new)
      BY <3>2 DEF Places
    <3> QED BY <1>1, <1>2, <1>6, <2>3, <2>4, <3>2, <3>3, RelayAtRest
  <2> QED BY <2>5, <2>6
<1> QED BY <1>1, <1>7, <1>8

(* The servers are done; what one of them took is written.                   *)
LEMMA NextNoticeInv == RelayInv /\ NextNotice => RelayInv'
<1> SUFFICES ASSUME RelayInv, NextNotice PROVE RelayInv'
  OBVIOUS
<1> DEFINE new == IF relay.changed THEN Lasting(relay.records) ELSE relay.records
<1>1. /\ relay.at = "send" /\ banner' = banner
      /\ IF relay.changed THEN Saved(relay.records) ELSE UNCHANGED <<file, excused>>
      /\ relay' = [relay EXCEPT !.at = "next", !.queue = Tail(@), !.records =
                     IF relay.changed THEN Lasting(@) ELSE @]
  BY DEF NextNotice
<1>2. Running /\ relay \notin {Off, Asleep}
  BY <1>1 DEF Running, Off, Asleep
<1>3. /\ relay = [at |-> relay.at, queue |-> relay.queue, records |-> relay.records,
                  todo |-> relay.todo, changed |-> relay.changed]
      /\ relay.changed \in BOOLEAN /\ Records(relay.records) /\ Records(file)
      /\ Sent \subseteq Places(relay.records) \cup excused
  BY <1>2 DEF RelayInv, RelayShape, SentIsRecorded
<1>4. relay' = [at |-> "next", queue |-> Tail(relay.queue), records |-> new,
                todo |-> relay.todo, changed |-> relay.changed]
  BY Zenon, <1>1, <1>3
<1>5. Records(new)
  BY <1>3, RecordsLasting
<1> HIDE DEF new
<1>6. relay'.at = "next" /\ relay'.records = new /\ RelayShape' /\ Running'
  BY <1>3, <1>4, <1>5, RelayMade
<1>7. Places(relay.records)' = Places(new)
  BY <1>6 DEF Places
<1>8. CASE relay.changed
  <2>1. new = Lasting(relay.records) /\ Saved(relay.records)
    BY <1>1, <1>8 DEF new
  <2>2. /\ Records(file)' /\ excused \subseteq excused' /\ file' = new
        /\ Places(relay.records) \subseteq Places(file)' \cup excused'
    BY <1>3, <2>1, SavedCovers
  <2>3. Places(file)' = Places(new)
    BY <2>2 DEF Places
  <2> QED BY <1>1, <1>3, <1>6, <1>7, <2>2, <2>3, RelayAtRest
<1>9. CASE ~relay.changed
  <2>1. new = relay.records /\ UNCHANGED <<file, excused>>
    BY <1>1, <1>9 DEF new
  <2>2. Places(file)' = Places(file)
    BY <2>1 DEF Places
  <2>3. /\ Sent \subseteq Places(file) \cup excused
        /\ Places(relay.records) \subseteq Places(file) \cup excused
    BY <1>1, <1>9, DiskHasAll
  <2> QED BY <1>1, <1>3, <1>6, <1>7, <2>1, <2>2, <2>3, RelayAtRest DEF Records
<1> QED BY <1>8, <1>9

-----------------------------------------------------------------------------
(* A notice is being sent: the record in hand and where it was not sent yet. *)
LEMMA InHand ==
  ASSUME RelayInv, NEW s \in Server, Sending(s)
  PROVE  /\ relay.at = "send" /\ s \in relay.todo
         /\ relay = [at |-> relay.at, queue |-> relay.queue, records |-> relay.records,
                     todo |-> relay.todo, changed |-> relay.changed]
         /\ relay.changed \in BOOLEAN /\ Records(relay.records) /\ Running
         /\ Has(relay.records, Head(relay.queue))
         /\ relay.todo \cap Units(relay.records, Head(relay.queue)) = {}
         /\ Here(s) \notin Places(relay.records)
         /\ Sent \subseteq Places(relay.records) \cup excused
<1>1. relay.at = "send" /\ s \in relay.todo /\ Running /\ relay \notin {Off, Asleep}
  BY DEF Sending, Running, Off, Asleep
<1>2. /\ Has(relay.records, Head(relay.queue))
      /\ relay.todo \cap Units(relay.records, Head(relay.queue)) = {}
  BY <1>1 DEF RelayInv, TodoIsUnsent
<1>3. Here(s) \notin Places(relay.records)
  BY <1>1, <1>2 DEF Here, Places
<1> QED BY <1>1, <1>2, <1>3 DEF RelayInv, RelayShape, SentIsRecorded

(* A banner shown twice was excused before it was shown again.               *)
LEMMA ShownOnce ==
  ASSUME RelayInv, NEW s \in Server, Sending(s), Shown(s)
  PROVE  /\ banner' \in [Place -> 0..2]
         /\ Sent' \subseteq Sent \cup ({Here(s)} \cap Place)
         /\ OncePerServer /\ \A p \in Place : banner'[p] > 1 => p \in excused
<1>1. banner \in [Place -> 0..2] /\ OncePerServer
  BY DEF RelayInv
<1>2. banner' = [banner EXCEPT ![Here(s)] = Lesser(@ + 1, 2)]
  BY DEF Shown
<1>3. \A p \in Place : banner'[p] = IF p = Here(s) THEN Lesser(banner[p] + 1, 2) ELSE banner[p]
  BY <1>1, <1>2
<1>4. \A c \in 0..2 : Lesser(c + 1, 2) \in 0..2 /\ (Lesser(c + 1, 2) > 1 => c > 0)
  BY DEF Lesser
<1>5. banner' \in [Place -> 0..2]
  <2>1. banner' = [p \in Place |-> banner'[p]]
    BY <1>1, <1>2
  <2>2. \A p \in Place : banner'[p] \in 0..2
    BY <1>1, <1>3, <1>4
  <2> QED BY <2>1, <2>2
<1>6. Sent' \subseteq Sent \cup ({Here(s)} \cap Place)
  BY <1>3 DEF Sent
<1>7. ASSUME NEW p \in Place, banner'[p] > 1 PROVE p \in excused
  <2>1. CASE p = Here(s)
    <3>1. p \in Sent
      BY <1>1, <1>3, <1>4, <1>7, <2>1 DEF Sent
    <3> QED BY <2>1, <3>1, InHand
  <2>2. CASE p # Here(s)
    BY <1>1, <1>3, <1>7, <2>2 DEF OncePerServer
  <2> QED BY <2>1, <2>2
<1> QED BY <1>1, <1>5, <1>6, <1>7

(* A server passed over; what it may have shown all the same is excused.     *)
LEMMA PastInv ==
  ASSUME RelayInv, NEW s \in Server, Sending(s), Past(s), file' = file,
         \/ UNCHANGED <<banner, excused>>
         \/ Shown(s) /\ excused' = excused \cup {Here(s)}
  PROVE  RelayInv'
<1>1. /\ relay.at = "send" /\ s \in relay.todo /\ relay.changed \in BOOLEAN
      /\ relay = [at |-> relay.at, queue |-> relay.queue, records |-> relay.records,
                  todo |-> relay.todo, changed |-> relay.changed]
      /\ Records(relay.records) /\ Sent \subseteq Places(relay.records) \cup excused
      /\ Has(relay.records, Head(relay.queue))
      /\ relay.todo \cap Units(relay.records, Head(relay.queue)) = {}
  BY InHand
<1>2. relay' = [at |-> "send", queue |-> relay.queue, records |-> relay.records,
                todo |-> relay.todo \ {s}, changed |-> relay.changed]
  BY Zenon, <1>1 DEF Past
<1>3. /\ relay'.at = "send" /\ relay'.queue = relay.queue /\ relay'.records = relay.records
      /\ relay'.todo = relay.todo \ {s} /\ relay'.changed = relay.changed
      /\ RelayShape' /\ Running'
  BY <1>1, <1>2, RelayMade
<1>4. Places(relay.records)' = Places(relay.records) /\ Places(file)' = Places(file)
  BY <1>3 DEF Places
<1>5. /\ banner' \in [Place -> 0..2] /\ OncePerServer'
      /\ excused \subseteq excused' /\ Sent' \subseteq Sent \cup excused'
  <2>1. CASE UNCHANGED <<banner, excused>>
    BY <2>1 DEF RelayInv, OncePerServer, Sent
  <2>2. CASE Shown(s) /\ excused' = excused \cup {Here(s)}
    BY <2>2, ShownOnce DEF OncePerServer
  <2> QED BY <2>1, <2>2
<1>6. SentIsRecorded'
  BY <1>1, <1>3, <1>4, <1>5 DEF SentIsRecorded
<1>7. DiskLags'
  <2>1. relay'.changed <=> relay.changed
    BY Zenon, <1>3
  <2> QED BY <1>1, <1>3, <1>4, <1>5, <2>1 DEF RelayInv, DiskLags
<1>8. TodoIsUnsent'
  BY <1>1, <1>3 DEF TodoIsUnsent, Has, Units
<1>9. Records(file)'
  BY DEF RelayInv, Records
<1> QED BY <1>3, <1>5, <1>6, <1>7, <1>8, <1>9 DEF RelayInv

(* A server that took the notice, or seemed to, is on the record.            *)
LEMMA RecordedInv ==
  ASSUME RelayInv, NEW s \in Server, Sending(s), Recorded(s), UNCHANGED <<file, excused>>,
         banner' = banner \/ Shown(s)
  PROVE  RelayInv'
<1> DEFINE n == Head(relay.queue)
           rs == Marked(relay.records, n, s)
<1>1. /\ relay.at = "send" /\ s \in relay.todo
      /\ relay = [at |-> relay.at, queue |-> relay.queue, records |-> relay.records,
                  todo |-> relay.todo, changed |-> relay.changed]
      /\ Records(relay.records) /\ Sent \subseteq Places(relay.records) \cup excused
      /\ Has(relay.records, n) /\ relay.todo \cap Units(relay.records, n) = {}
  BY InHand
<1>2. /\ Records(rs) /\ Has(rs, n) /\ Units(rs, n) = Units(relay.records, n) \cup {s}
      /\ \A m : m # n => Units(rs, m) = Units(relay.records, m)
  BY <1>1, UnitsMarked
<1>3. relay' = [relay EXCEPT !.todo = @ \ {s}, !.changed = TRUE, !.records = rs]
  BY DEF Recorded
<1>4. Here(s) = <<n, s>>
  BY DEF Here
<1>5. relay'.queue = relay.queue /\ relay'.at = "send" /\ n = Head(relay.queue)
  BY <1>1, <1>3
<1> HIDE DEF n, rs
<1>6. relay' = [at |-> "send", queue |-> relay.queue, records |-> rs,
                todo |-> relay.todo \ {s}, changed |-> TRUE]
  BY Zenon, <1>1, <1>3
<1>7. /\ relay'.records = rs /\ relay'.todo = relay.todo \ {s} /\ relay'.changed = TRUE
      /\ RelayShape' /\ Running'
  BY <1>2, <1>6, RelayMade
<1>8. /\ Places(relay.records) \subseteq Places(rs)
      /\ {Here(s)} \cap Place \subseteq Places(rs)
  BY <1>2, <1>4 DEF Places
<1>9. /\ banner' \in [Place -> 0..2] /\ OncePerServer'
      /\ Sent' \subseteq Sent \cup ({Here(s)} \cap Place)
  <2>1. CASE banner' = banner
    BY <2>1 DEF RelayInv, OncePerServer, Sent
  <2>2. CASE Shown(s)
    BY <2>2, ShownOnce DEF OncePerServer
  <2> QED BY <2>1, <2>2
<1>10. SentIsRecorded'
  <2>1. Places(relay.records)' = Places(rs)
    BY <1>7 DEF Places
  <2> QED BY <1>1, <1>7, <1>8, <1>9, <2>1 DEF SentIsRecorded
<1>11. DiskLags'
  <2>1. relay'.changed
    BY Zenon, <1>7
  <2> QED BY <1>5, <2>1 DEF DiskLags
<1>12. TodoIsUnsent'
  BY <1>1, <1>2, <1>5, <1>7 DEF TodoIsUnsent, Has, Units
<1>13. Records(file)'
  BY DEF RelayInv, Records
<1> QED BY <1>7, <1>9, <1>10, <1>11, <1>12, <1>13 DEF RelayInv

LEMMA RelayStands == RelayInv /\ UNCHANGED <<relay, file, banner, excused>> => RelayInv'
<1> SUFFICES ASSUME RelayInv, UNCHANGED <<relay, file, banner, excused>> PROVE RelayInv'
  OBVIOUS
<1>1. RelayShape' /\ Records(file)'
  BY DEF RelayInv, RelayShape, Records, Running
<1>2. SentIsRecorded' /\ DiskLags' /\ TodoIsUnsent' /\ OncePerServer'
  BY DEF RelayInv, SentIsRecorded, DiskLags, TodoIsUnsent, OncePerServer, Sent, Places, Units,
         Has, Running
<1> QED BY <1>1, <1>2 DEF RelayInv

LEMMA StartInv == RelayInv /\ Start => RelayInv'
<1> SUFFICES ASSUME RelayInv, Start PROVE RelayInv'
  OBVIOUS
<1>1. relay = Off /\ relay' = Asleep /\ UNCHANGED <<file, banner, excused>>
  BY DEF Start
<1>2. ~Running /\ Places(file)' = Places(file)
  BY <1>1 DEF Running, Off, Places
<1> QED BY <1>1, <1>2, RelayAtRest DEF RelayInv, SentIsRecorded, Records

LEMMA RelayInitInv == Init => RelayInv
<1> SUFFICES ASSUME Init PROVE RelayInv
  OBVIOUS
<1>1. file = <<>> /\ relay = Off /\ banner = [p \in Place |-> 0] /\ excused = {}
  BY DEF Init
<1>2. banner \in [Place -> 0..2] /\ Sent = {} /\ OncePerServer
  BY <1>1 DEF Sent, OncePerServer
<1>3. Records(file)
  <2>1. file \in Seq(RecordOf({}))
    BY <1>1
  <2> QED BY <2>1 DEF Records
<1>4. relay.at = "off" /\ ~Running /\ RelayShape
  BY <1>1 DEF Off, Running, RelayShape
<1> QED BY <1>2, <1>3, <1>4 DEF RelayInv, SentIsRecorded, DiskLags, TodoIsUnsent

-----------------------------------------------------------------------------
LEMMA InitInv == Init => Inv
BY MembersInitInv, ScreenInitInv, RelayInitInv DEF Init, Inv

LEMMA StepInv == Inv /\ [Next]_vars => Inv'
<1> SUFFICES ASSUME MembersInv, ScreenInv, RelayInv, [Next]_vars
             PROVE  MembersInv' /\ ScreenInv' /\ RelayInv'
  BY DEF Inv
<1>1. CASE Apart
  <2>1. UNCHANGED <<relay, file, banner, excused>>
    BY <1>1 DEF Apart, relayVars
  <2>2. MembersInv' /\ ScreenInv'
    BY <1>1, MemberStepInv, MembersStand, ScreenStepInv, ScreenStands DEF Apart, ScreenStep
  <2> QED BY <2>1, <2>2, RelayStands
<1>2. CASE Posting
  <2>1. UNCHANGED memberVars /\ UNCHANGED <<relay, file, banner, excused>> /\ TableStep
    BY <1>2 DEF Posting, TableStep
  <2> QED BY <2>1, MembersStand, TableStepInv, RelayStands
<1>3. CASE Start
  BY <1>3, StartInv, MembersStand, ScreenStands DEF Start
<1>4. CASE RelayWork
  <2>1. UNCHANGED <<memberVars, tableVars, screenVars>>
    BY <1>4 DEF RelayWork
  <2>2. RelayInv'
    <3>1. ASSUME NEW s \in Server, Deliver(s) PROVE RelayInv'
      BY <3>1, RecordedInv DEF Deliver
    <3>2. ASSUME NEW s \in Server, Skip(s) PROVE RelayInv'
      BY <3>2, PastInv DEF Skip
    <3> QED BY <1>4, <3>1, <3>2, TickInv, FinishInv, TakeInv, NextNoticeInv DEF RelayWork
  <2> QED BY <2>1, <2>2, MembersStand, ScreenStands
<1>5. CASE RelayMishap
  <2>1. UNCHANGED <<memberVars, tableVars, screenVars>>
    BY <1>5 DEF RelayMishap
  <2>2. RelayInv'
    <3>1. ASSUME NEW s \in Server, NoReply(s) PROVE RelayInv'
      BY <3>1, PastInv DEF NoReply
    <3>2. ASSUME NEW s \in Server, Closed(s) PROVE RelayInv'
      BY <3>2, RecordedInv DEF Closed
    <3> QED BY <1>5, <3>1, <3>2, KillInv DEF RelayMishap
  <2> QED BY <2>1, <2>2, MembersStand, ScreenStands
<1>6. CASE TenMinutes
  BY <1>6, MembersStand, ScreenStands, RelayStands DEF TenMinutes
<1>7. ASSUME NEW u \in User, NEW place \in Server \cup {Nowhere}, PlayerMoves(u, place)
      PROVE  MembersInv' /\ ScreenInv' /\ RelayInv'
  BY <1>7, MembersStand, ScreenStands, RelayStands DEF PlayerMoves
<1>8. CASE UNCHANGED vars
  BY <1>8, MembersStand, ScreenStands, RelayStands DEF vars, relayVars
<1> QED BY <1>1, <1>2, <1>3, <1>4, <1>5, <1>6, <1>7, <1>8 DEF Next

LEMMA SpecInv == Spec => []Inv
BY InitInv, StepInv, PTL DEF Spec

-----------------------------------------------------------------------------
(* The members, the table of notices and the screen keep their ranges        *)
(* (launcher_members, launcher_invites, launcher_notices, useNotice).        *)
THEOREM TypesHold == Spec => [](MemberTypeOK /\ TableTypeOK /\ ScreenTypeOK)
<1>1. Inv => MemberTypeOK /\ TableTypeOK /\ ScreenTypeOK
  BY DEF Inv, MembersInv, ScreenInv
<1> QED BY <1>1, SpecInv, PTL

(* However administrators demote and remove each other, one is left          *)
(* (launcher_admin_set_role, launcher_admin_remove_member).                  *)
THEOREM AdministratorRemains == Spec => []AdminRemains
<1>1. Inv => AdminRemains
  BY DEF Inv, MembersInv
<1> QED BY <1>1, SpecInv, PTL

(* A code that still admits people was handed out by a present member        *)
(* (launcher_create_invite, launcher_member_removed).                        *)
THEOREM InvitesHaveMembers == Spec => []OpenInvitesHaveMembers
<1>1. Inv => OpenInvitesHaveMembers
  BY DEF Inv, MembersInv
<1> QED BY <1>1, SpecInv, PTL

(* The main screen shows its member no notice meant for another, except an   *)
(* answer that came too late (useNotice, pickNotice).                        *)
THEOREM ScreenShowsOwn == Spec => []ScreensMine
<1>1. Inv => ScreensMine
  BY DEF Inv, ScreenInv, HeldWhileOpen, ScreensMine
<1> QED BY <1>1, SpecInv, PTL

(* Over restarts of the relay a banner reaches a server once per notice,     *)
(* unless a kill, a lost answer or an evicted record hid that it was sent    *)
(* (createRelay, writeState).                                                *)
THEOREM BannersOnce == Spec => []OncePerServer
<1>1. Inv => OncePerServer
  BY DEF Inv, RelayInv
<1> QED BY <1>1, SpecInv, PTL

=============================================================================
