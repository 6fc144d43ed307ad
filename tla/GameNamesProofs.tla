-------------------------- MODULE GameNamesProofs --------------------------
(***************************************************************************)
(* What the names of members promise, for any members, names, Discord      *)
(* names, reservations and requests under way.                             *)
(***************************************************************************)
EXTENDS GameNames, TLAPS

\* A derived name is its owner's alone, in the tables and in what is asked for.
FallbacksOwn ==
  /\ \A u \in User : account[u] # NoAccount => account[u].name \in Name \cup {u}
  /\ \A t \in open : t.name \in Name \cup {t.user}

\* Transactions past their check hold their locks apart.
Locked(t) == t \in open /\ t.pc = "checked" /\ t.op # "seen"
LocksApart == \A s, t \in open : Locked(s) /\ Locked(t) /\ s # t => s.user # t.user /\ s.name # t.name

\* What was checked stays free until it is written: only a member who comes back holds
\* the name again.
CheckedIsFree ==
  \A t \in open : Locked(t) /\ t.name \notin raced =>
    \A v \in User \ {t.user} : HolderActive(v) => t.name \notin NamesOf(v)

\* No two people share a name, removed members included.
AllApart == \A u, v \in User : u # v => NamesOf(u) \cap NamesOf(v) \subseteq raced

\* A name in use is the one its account plays, or was confirmed too late.
CurrentIsPlayed ==
  \A u \in User, n \in AnyName : history[u][n] = Current => Plays(u, n) \/ <<u, n>> \in late

\* A server's question comes checked; a save and a play are asked for first.
SeenIsChecked == \A t \in open : t.op = "seen" => t.pc = "checked"

\* A derived name is played, never saved.
SavesNames == \A t \in open : t.op = "save" => t.name \in Name

Inv ==
  /\ TypeOK /\ FallbacksOwn /\ LocksApart /\ CheckedIsFree /\ AllApart
  /\ CurrentIsPlayed /\ SeenIsChecked /\ SavesNames /\ ReservedStaysOwners

-----------------------------------------------------------------------------
LEMMA Distinct ==
  /\ Name \cap User = {} /\ NoName \notin AnyName /\ Current \notin Nat /\ Hold \in Nat \ {0}
  /\ AnyName = Name \cup User /\ Uuid = Name \cup User
  /\ \A u \in User : DiscordName[u] \in Name \cup {u}
BY NameAssumption, MembershipAssumption DEF AnyName, Uuid, Fallback

LEMMA Asked ==
  TypeOK => \A t \in open : t.user \in User /\ t.name \in AnyName
                            /\ t.op \in {"save", "play", "seen"} /\ t.pc \in {"asked", "checked"}
BY DEF TypeOK, Transaction

(* Who holds names after a change of the members: who did, or who came back. *)
LEMMA MemberStepFacts ==
  ASSUME MemberTypeOK, MemberStep
  PROVE  /\ MemberTypeOK'
         /\ \A v \in User : HolderActive(v)' =>
              HolderActive(v) \/ (~Member(v) /\ role'[v] # "none")
<1> DEFINE Facts == /\ MemberTypeOK'
                    /\ \A v \in User : HolderActive(v)' =>
                         HolderActive(v) \/ (~Member(v) /\ role'[v] # "none")
<1>1. ASSUME NEW c \in Code, NEW i \in Invite, invite' = [invite EXCEPT ![c] = i],
             UNCHANGED <<role, removed, request>>
      PROVE  Facts
  BY <1>1 DEF MemberTypeOK, HolderActive, Member
<1>2. ASSUME NEW u \in User, NEW c \in Code, NEW uses \in 1..GroupLimit, CreateInvite(u, c, uses)
      PROVE  Facts
  <2> DEFINE i == [by |-> u, left |-> IF role[u] = "admin" THEN Lesser(uses, GroupLimit) ELSE 1,
                   open |-> TRUE]
  <2>1. i \in Invite
    BY MembershipAssumption DEF Invite, Lesser
  <2> QED BY <1>1, <1>2, <2>1 DEF CreateInvite
<1>3. ASSUME NEW c \in Code, Open(c), invite' = [invite EXCEPT ![c].open = FALSE],
             UNCHANGED <<role, removed, request>>
      PROVE  Facts
  <2>1. invite[c] \in Invite
    BY <1>3 DEF MemberTypeOK, Open
  <2>2. [invite[c] EXCEPT !.open = FALSE] \in Invite
    BY <2>1 DEF Invite
  <2> QED BY <1>1, <1>3, <2>2
<1>4. ASSUME NEW u \in User, NEW c \in Code, Redeem(u, c) PROVE Facts
  <2>1. /\ ~Member(u) /\ Open(c) /\ role' = [role EXCEPT ![u] = "member"]
        /\ invite' = [invite EXCEPT ![c].left = @ - 1]
        /\ removed' = [removed EXCEPT ![u] = Hold] /\ UNCHANGED request
    BY <1>4 DEF Redeem
  <2>2. invite[c] \in Invite /\ invite[c].left > 0
    BY <2>1 DEF MemberTypeOK, Open
  <2>3. [invite[c] EXCEPT !.left = @ - 1] \in Invite
    BY <2>2, MembershipAssumption DEF Invite
  <2> QED BY <2>1, <2>3, MembershipAssumption DEF MemberTypeOK, HolderActive, Member, Role
<1>5. ASSUME NEW r \in Request, Ask(r) PROVE Facts
  BY <1>5 DEF Ask, MemberTypeOK, HolderActive, Member
<1>6. ASSUME NEW r \in request, SetRole(r) PROVE Facts
  <2>1. r.on \in User /\ r.to \in Role
    BY <1>6 DEF SetRole, MemberTypeOK, Request
  <2> QED BY <1>6, <2>1 DEF SetRole, Answered, MayChange, MemberTypeOK, HolderActive, Member
<1>7. ASSUME NEW r \in request, RemoveMember(r) PROVE Facts
  <2> DEFINE u == r.on
             closed(i) == IF i # NoInvite /\ i.by = u THEN [i EXCEPT !.open = FALSE] ELSE i
  <2>1. u \in User
    BY DEF MemberTypeOK, Request
  <2>2. CASE MayChange(r)
    <3>1. /\ role' = [role EXCEPT ![u] = "none"] /\ removed' = [removed EXCEPT ![u] = 0]
          /\ invite' = [c \in Code |-> closed(invite[c])] /\ request' = request \ {r}
          /\ Member(u)
      BY <1>7, <2>2 DEF RemoveMember, RemovedRows, MayChange, Answered
    <3>2. \A i \in Invite \cup {NoInvite} : closed(i) \in Invite \cup {NoInvite}
      BY DEF Invite
    <3> HIDE DEF closed
    <3> QED BY <2>1, <3>1, <3>2, MembershipAssumption DEF MemberTypeOK, HolderActive, Member
  <2>3. CASE ~MayChange(r)
    BY <1>7, <2>3 DEF RemoveMember, Answered, MemberTypeOK, HolderActive, Member
  <2> QED BY <2>2, <2>3
<1> QED BY <1>2, <1>3, <1>4, <1>5, <1>6, <1>7 DEF MemberStep, RevokeInvite, OpenOf, ExpireInvite

-----------------------------------------------------------------------------
(* What the tables say once removed members let go of a name.                *)
LEMMA FreedTables ==
  ASSUME Inv, NEW u \in User, NEW n \in AnyName
  PROVE  LET fr == Freed(u, n) IN
         /\ fr.account \in [User -> Account \cup {NoAccount}]
         /\ fr.saved \in [User -> Name \cup {NoName}]
         /\ fr.history \in [User -> [AnyName -> 0..Hold \cup {Current}]]
         /\ fr.account[u] = account[u] /\ fr.saved[u] = saved[u] /\ fr.history[u] = history[u]
         /\ \A v \in User :
              /\ fr.account[v] = NoAccount <=> account[v] = NoAccount
              /\ account[v] # NoAccount =>
                   /\ fr.account[v].uuid = account[v].uuid
                   /\ fr.account[v].name \in {account[v].name, v}
              /\ fr.saved[v] \in {saved[v], NoName}
              /\ \A m \in AnyName : fr.history[v][m] = Current =>
                   (fr.account[v] # NoAccount /\ fr.account[v].name = m) \/ <<v, m>> \in late
         /\ \A v \in User \ {u} : (HolderActive(v) => n \notin NamesOf(v)) =>
              /\ fr.saved[v] # n
              /\ fr.account[v] # NoAccount => fr.account[v].name # n \/ n = v
<1> DEFINE fr == Freed(u, n)
           Goes(v) == v \in Holding(u, n) /\ Plays(v, n)
<1>1. /\ fr.account = [v \in User |-> IF Goes(v) THEN [account[v] EXCEPT !.name = v] ELSE account[v]]
      /\ fr.saved = [v \in User |-> IF v \in Holding(u, n) /\ saved[v] = n THEN NoName ELSE saved[v]]
      /\ fr.history = [v \in User |-> IF Goes(v) THEN Left(history[v], n) ELSE history[v]]
  BY DEF Freed, Fallback
<1>2. TypeOK /\ CurrentIsPlayed
  BY DEF Inv
<1>3. \A v \in User : Goes(v) => account[v] # NoAccount /\ account[v].name = n
  BY DEF Plays
<1>4. \A v \in User : ~Goes(v) \/ v # u
  BY DEF Holding
<1>5. \A v \in User \ {u} : ~HolderActive(v) /\ n \in NamesOf(v) => v \in Holding(u, n)
  BY DEF Holding
<1>6. \A v \in User \ {u} : (HolderActive(v) => n \notin NamesOf(v)) =>
        /\ Plays(v, n) => Goes(v)
        /\ saved[v] = n => v \in Holding(u, n)
  BY <1>5 DEF NamesOf
<1>7. u \notin Holding(u, n)
  BY DEF Holding
<1> HIDE DEF fr, Goes
<1>8. \A v \in User : account[v] # NoAccount =>
        LET a == [account[v] EXCEPT !.name = v] IN
        a \in Account /\ a # NoAccount /\ a.name = v /\ a.uuid = account[v].uuid
  <2> TAKE v \in User
  <2> HAVE account[v] # NoAccount
  <2> DEFINE a == [account[v] EXCEPT !.name = v]
  <2>1. account[v] \in Account
    BY <1>2 DEF TypeOK
  <2>2. a \in Account /\ a.name = v /\ a.uuid = account[v].uuid
    BY <2>1, Distinct DEF Account
  <2>3. a # NoAccount
    BY <2>2, NameAssumption DEF Account
  <2> QED BY <2>2, <2>3
<1>9. \A v \in User :
         /\ Goes(v) => /\ fr.account[v] # NoAccount /\ fr.account[v].name = v
                       /\ fr.account[v].uuid = account[v].uuid
         /\ ~Goes(v) => fr.account[v] = account[v]
         /\ fr.saved[v] = IF v \in Holding(u, n) /\ saved[v] = n THEN NoName ELSE saved[v]
  BY <1>1, <1>3, <1>8
<1>10. fr.account \in [User -> Account \cup {NoAccount}]
  BY <1>1, <1>2, <1>3, <1>8 DEF TypeOK
<1>11. fr.saved \in [User -> Name \cup {NoName}]
  BY <1>1, <1>2 DEF TypeOK
<1>12. \A v \in User : /\ Left(history[v], n) \in [AnyName -> 0..Hold \cup {Current}]
                       /\ \A m \in AnyName : Left(history[v], n)[m] = Current =>
                            history[v][m] = Current /\ m # n
  BY <1>2, Distinct DEF TypeOK, Left
<1>13. fr.history \in [User -> [AnyName -> 0..Hold \cup {Current}]]
  BY <1>1, <1>2, <1>12 DEF TypeOK
<1>14. fr.account[u] = account[u] /\ fr.saved[u] = saved[u] /\ fr.history[u] = history[u]
  BY <1>1, <1>4, <1>7
<1>15. ASSUME NEW v \in User
       PROVE  /\ fr.account[v] = NoAccount <=> account[v] = NoAccount
              /\ account[v] # NoAccount =>
                   /\ fr.account[v].uuid = account[v].uuid
                   /\ fr.account[v].name \in {account[v].name, v}
              /\ fr.saved[v] \in {saved[v], NoName}
  BY <1>3, <1>9
<1>16. ASSUME NEW v \in User, NEW m \in AnyName, fr.history[v][m] = Current
       PROVE  (fr.account[v] # NoAccount /\ fr.account[v].name = m) \/ <<v, m>> \in late
  <2>1. CASE Goes(v)
    <3>1. history[v][m] = Current /\ m # n
      BY <1>1, <1>12, <1>16, <2>1
    <3>2. Plays(v, m) \/ <<v, m>> \in late
      BY <1>2, <3>1 DEF CurrentIsPlayed
    <3> QED BY <1>3, <2>1, <3>1, <3>2 DEF Plays
  <2>2. CASE ~Goes(v)
    BY <1>1, <1>2, <1>16, <2>2 DEF CurrentIsPlayed, Plays
  <2> QED BY <2>1, <2>2
<1>17. ASSUME NEW v \in User \ {u}, HolderActive(v) => n \notin NamesOf(v)
       PROVE  /\ fr.saved[v] # n
              /\ fr.account[v] # NoAccount => fr.account[v].name # n \/ n = v
  <2>1. (Plays(v, n) => Goes(v)) /\ (saved[v] = n => v \in Holding(u, n))
    BY <1>6, <1>17
  <2>2. fr.saved[v] # n
    BY <1>9, <2>1, Distinct
  <2>3. CASE Goes(v)
    BY <1>9, <2>2, <2>3
  <2>4. CASE ~Goes(v)
    BY <1>9, <2>1, <2>2, <2>4 DEF Plays
  <2> QED BY <2>2, <2>3, <2>4
<1> QED BY <1>10, <1>11, <1>13, <1>14, <1>15, <1>16, <1>17 DEF fr

(* A name that was found free is written: nobody else has it, and what other  *)
(* transactions found free is still free.                                     *)
LEMMA WrittenApart ==
  ASSUME Inv, NEW t \in open, Locked(t),
         \A v \in User \ {t.user} : /\ account'[v] = Freed(t.user, t.name).account[v]
                                    /\ saved'[v] = Freed(t.user, t.name).saved[v],
         NamesOf(t.user)' \subseteq NamesOf(t.user) \cup {t.name},
         open' = open \ {t}, raced' = raced, UNCHANGED memberVars
  PROVE  AllApart' /\ CheckedIsFree'
<1> DEFINE u == t.user
           n == t.name
<1>1. TypeOK /\ FallbacksOwn /\ LocksApart /\ CheckedIsFree /\ AllApart
  BY DEF Inv
<1>2. u \in User /\ n \in AnyName /\ n \in Name \cup {u}
  BY <1>1, Asked DEF FallbacksOwn
<1>3. ASSUME NEW v \in User
      PROVE  NamesOf(v) \subseteq Name \cup {v}
  BY <1>1, Distinct DEF NamesOf, Plays, TypeOK, FallbacksOwn
<1>4. ASSUME NEW v \in User \ {u}
      PROVE  /\ NamesOf(v)' \subseteq NamesOf(v) \cup {v}
             /\ n \in NamesOf(v)' => n \in raced
  <2> DEFINE fr == Freed(u, n)
  <2>1. /\ fr.account[v] = NoAccount <=> account[v] = NoAccount
        /\ account[v] # NoAccount => fr.account[v].name \in {account[v].name, v}
        /\ fr.saved[v] \in {saved[v], NoName}
        /\ (HolderActive(v) => n \notin NamesOf(v)) =>
             /\ fr.saved[v] # n
             /\ fr.account[v] # NoAccount => fr.account[v].name # n \/ n = v
    BY <1>2, FreedTables
  <2>2. account'[v] = fr.account[v] /\ saved'[v] = fr.saved[v]
    BY <1>4
  <2> HIDE DEF fr, u, n
  <2>3. NamesOf(v)' \subseteq NamesOf(v) \cup {v}
    BY <2>1, <2>2, Distinct DEF NamesOf, Plays
  <2>4. ASSUME n \in NamesOf(v)', n \notin raced PROVE FALSE
    <3>1. HolderActive(v) => n \notin NamesOf(v)
      BY <1>1, <2>4 DEF CheckedIsFree, u, n
    <3>2. n # v
      BY <1>2, <1>4, Distinct
    <3> QED BY <2>1, <2>2, <2>4, <3>1, <3>2 DEF NamesOf, Plays
  <2> QED BY <2>3, <2>4
<1>5. NamesOf(u)' \subseteq NamesOf(u) \cup {n}
  OBVIOUS
<1> HIDE DEF u, n
<1>6. ASSUME NEW v \in User, NEW w \in User, v # w, NEW m \in NamesOf(v)', m \in NamesOf(w)'
      PROVE  m \in raced
  <2>1. CASE v # u /\ w # u
    <3>1. m \in NamesOf(v) \cup {v} /\ m \in NamesOf(w) \cup {w}
      BY <1>4, <1>6, <2>1
    <3>2. m \in NamesOf(v) /\ m \in NamesOf(w)
      BY <1>3, <1>6, <3>1, Distinct
    <3> QED BY <1>1, <1>6, <3>2 DEF AllApart
  <2>2. ASSUME NEW x \in User \ {u}, m \in NamesOf(u)', m \in NamesOf(x)'
        PROVE  m \in raced
    <3>1. CASE m = n
      BY <1>4, <2>2, <3>1
    <3>2. CASE m # n
      <4>1. m \in NamesOf(u) /\ m \in NamesOf(x) \cup {x}
        BY <1>4, <1>5, <2>2, <3>2
      <4>2. m \in NamesOf(x)
        BY <1>2, <1>3, <4>1, Distinct
      <4> QED BY <1>1, <1>2, <4>1, <4>2 DEF AllApart
    <3> QED BY <3>1, <3>2
  <2> QED BY <1>6, <2>1, <2>2
<1>7. AllApart'
  BY <1>6 DEF AllApart
<1>8. CheckedIsFree'
  <2> SUFFICES ASSUME NEW s \in open', Locked(s)', s.name \notin raced',
                      NEW v \in User \ {s.user}, HolderActive(v)', s.name \in NamesOf(v)'
               PROVE  FALSE
    BY DEF CheckedIsFree
  <2>1. s \in open /\ s # t /\ Locked(s)
    BY DEF Locked
  <2>2. s.user # u /\ s.name # n
    BY <1>1, <2>1 DEF LocksApart, u, n
  <2>3. HolderActive(v) /\ s.name \notin raced
    BY DEF HolderActive, Member, memberVars
  <2>4. s.name \notin NamesOf(v)
    BY <1>1, <2>1, <2>3 DEF CheckedIsFree
  <2>5. s.name \in Name \cup {s.user}
    BY <1>1, <2>1 DEF FallbacksOwn
  <2>6. CASE v = u
    BY <1>5, <2>2, <2>4, <2>6
  <2>7. CASE v # u
    BY <1>4, <2>4, <2>5, <2>7, Distinct
  <2> QED BY <2>6, <2>7
<1> QED BY <1>7, <1>8

(* A transaction that found its name free does not trip over another's rows. *)
LEMMA NoCollision ==
  ASSUME Inv, NEW t \in open, Locked(t), Collides(t, Freed(t.user, t.name))
  PROVE  t.name \in raced
<1>1. TypeOK /\ FallbacksOwn /\ CheckedIsFree
  BY DEF Inv
<1>2. t.user \in User /\ t.name \in AnyName /\ t.name \in Name \cup {t.user}
  BY <1>1, Asked DEF FallbacksOwn
<1>3. PICK v \in User \ {t.user} :
        \/ Freed(t.user, t.name).saved[v] = t.name
        \/ /\ Freed(t.user, t.name).account[v] # NoAccount
           /\ Freed(t.user, t.name).account[v].name = t.name
  BY DEF Collides
<1>4. (HolderActive(v) => t.name \notin NamesOf(v)) =>
        /\ Freed(t.user, t.name).saved[v] # t.name
        /\ Freed(t.user, t.name).account[v] # NoAccount =>
             Freed(t.user, t.name).account[v].name # t.name \/ t.name = v
  BY <1>2, FreedTables
<1>5. t.name # v
  BY <1>2, <1>3, Distinct
<1>6. HolderActive(v) /\ t.name \in NamesOf(v)
  BY <1>3, <1>4, <1>5
<1> QED BY <1>1, <1>3, <1>6 DEF CheckedIsFree

-----------------------------------------------------------------------------
(* A request that begins holds no lock yet, or needs none.                   *)
LEMMA BegunInv ==
  ASSUME Inv, NEW q \in Transaction, q.name \in Name \cup {q.user},
         q.op = "seen" <=> q.pc = "checked", q.op = "save" => q.name \in Name,
         open' = open \cup {q},
         UNCHANGED <<memberVars, account, saved, history, reservation, raced, late>>
  PROVE  Inv'
<1>1. q.op = "seen" => q.pc = "checked"
  OBVIOUS
<1>2. TypeOK'
  BY DEF Inv, TypeOK, memberVars, MemberTypeOK
<1>3. FallbacksOwn' /\ SeenIsChecked' /\ SavesNames'
  BY DEF Inv, FallbacksOwn, SeenIsChecked, SavesNames
<1>4. \A t : Locked(t)' => Locked(t)
  BY DEF Locked
<1>5. LocksApart'
  BY <1>4 DEF Inv, LocksApart, Locked
<1>6. CheckedIsFree' /\ AllApart'
  BY <1>4 DEF Inv, CheckedIsFree, AllApart, Locked, NamesOf, Plays, HolderActive, Member, memberVars
<1>7. CurrentIsPlayed' /\ ReservedStaysOwners'
  BY DEF Inv, CurrentIsPlayed, ReservedStaysOwners, Plays
<1> QED BY <1>2, <1>3, <1>5, <1>6, <1>7 DEF Inv

LEMMA AskSaveInv ==
  ASSUME Inv, NEW u \in User, NEW n \in Name, AskSave(u, n), UNCHANGED memberVars
  PROVE  Inv'
<1> DEFINE q == [op |-> "save", user |-> u, name |-> n, pc |-> "asked"]
<1>1. q \in Transaction /\ q.name = n /\ q.op = "save" /\ q.pc = "asked" /\ q.user = u
  BY Distinct DEF Transaction
<1>2. /\ open' = open \cup {q}
      /\ UNCHANGED <<account, saved, history, reservation, raced, late>>
  BY DEF AskSave
<1> HIDE DEF q
<1> QED BY <1>1, <1>2, BegunInv

LEMMA AskPlayInv ==
  ASSUME Inv, NEW u \in User, AskPlay(u), UNCHANGED memberVars
  PROVE  Inv'
<1> DEFINE n == LaunchName(u)
           q == [op |-> "play", user |-> u, name |-> n, pc |-> "asked"]
<1>1. n \in Name \cup {u}
  BY Distinct DEF Inv, TypeOK, LaunchName
<1>2. /\ open' = open \cup {q}
      /\ UNCHANGED <<account, saved, history, reservation, raced, late>>
  BY DEF AskPlay
<1> HIDE DEF n
<1>3. q \in Transaction /\ q.name = n /\ q.op = "play" /\ q.pc = "asked" /\ q.user = u
  BY <1>1, Distinct DEF Transaction
<1> HIDE DEF q
<1> QED BY <1>1, <1>2, <1>3, BegunInv

LEMMA SeenInv ==
  ASSUME Inv, NEW u \in User, Seen(u), UNCHANGED memberVars
  PROVE  Inv'
<1> DEFINE n == account[u].name
           q == [op |-> "seen", user |-> u, name |-> n, pc |-> "checked"]
<1>1. n \in Name \cup {u}
  BY DEF Inv, FallbacksOwn, Seen
<1>2. /\ open' = open \cup {q}
      /\ UNCHANGED <<account, saved, history, reservation, raced, late>>
  BY DEF Seen
<1> HIDE DEF n
<1>3. q \in Transaction /\ q.name = n /\ q.op = "seen" /\ q.pc = "checked" /\ q.user = u
  BY <1>1, Distinct DEF Transaction
<1> HIDE DEF q
<1> QED BY <1>1, <1>2, <1>3, BegunInv

(* The locks are free and so is the name; it is checked.                     *)
LEMMA CheckInv ==
  ASSUME Inv, NEW t \in open, Check(t), UNCHANGED memberVars
  PROVE  Inv'
<1> DEFINE q == [t EXCEPT !.pc = "checked"]
<1>1. /\ t.pc = "asked" /\ Unlocked(t.user, t.name)
      /\ open' = IF Available(t.user, t.name) THEN (open \ {t}) \cup {q} ELSE open \ {t}
      /\ UNCHANGED <<account, saved, history, reservation, raced, late>>
  BY DEF Check
<1>2. t \in Transaction /\ t.op # "seen" /\ t.name \in Name \cup {t.user}
  BY <1>1 DEF Inv, TypeOK, SeenIsChecked, FallbacksOwn
<1>3. /\ q \in Transaction /\ q.user = t.user /\ q.name = t.name /\ q.op = t.op
      /\ q.pc = "checked"
  BY <1>2 DEF Transaction
<1> HIDE DEF q
<1>4. open' \subseteq (open \ {t}) \cup {q} /\ (q \in open' => Available(t.user, t.name) \/ q \in open)
  BY <1>1
<1>5. TypeOK'
  BY <1>1, <1>3, <1>4 DEF Inv, TypeOK, memberVars, MemberTypeOK
<1>6. FallbacksOwn' /\ SeenIsChecked' /\ SavesNames'
  BY <1>1, <1>2, <1>3, <1>4 DEF Inv, FallbacksOwn, SeenIsChecked, SavesNames
<1>7. LocksApart'
  <2> SUFFICES ASSUME NEW x \in open', NEW y \in open', Locked(x)', Locked(y)', x # y
               PROVE  x.user # y.user /\ x.name # y.name
    BY DEF LocksApart
  <2>1. \A z \in open : z.pc = "checked" /\ z.op # "seen" => z.user # t.user /\ z.name # t.name
    BY <1>1 DEF Unlocked
  <2>2. (x = q \/ Locked(x)) /\ (y = q \/ Locked(y))
    BY <1>4 DEF Locked
  <2> QED BY <1>3, <2>1, <2>2 DEF Inv, LocksApart, Locked
<1>8. CheckedIsFree'
  <2> SUFFICES ASSUME NEW x \in open', Locked(x)', x.name \notin raced,
                      NEW v \in User \ {x.user}, HolderActive(v)
               PROVE  x.name \notin NamesOf(v)
    BY <1>1 DEF CheckedIsFree, NamesOf, Plays, HolderActive, Member, memberVars
  <2>1. CASE x \in open
    BY <2>1 DEF Inv, CheckedIsFree, Locked
  <2>2. CASE x \notin open
    <3>1. x = q /\ Available(t.user, t.name)
      BY <1>4, <2>2
    <3> QED BY <1>3, <3>1 DEF Available, NamesOf
  <2> QED BY <2>1, <2>2
<1>9. AllApart' /\ CurrentIsPlayed' /\ ReservedStaysOwners'
  BY <1>1 DEF Inv, AllApart, NamesOf, CurrentIsPlayed, ReservedStaysOwners, Plays
<1> QED BY <1>5, <1>6, <1>7, <1>8, <1>9 DEF Inv

(* A request that is over: those that go on keep their locks apart.          *)
LEMMA OverStands ==
  ASSUME Inv, NEW t \in open, open' = open \ {t}
  PROVE  /\ open' \subseteq Transaction /\ LocksApart' /\ SeenIsChecked' /\ SavesNames'
         /\ \A q \in open' : q.name \in Name \cup {q.user}
BY DEF Inv, TypeOK, LocksApart, Locked, SeenIsChecked, SavesNames, FallbacksOwn

(* A claim or a save that finds a row under its name writes nothing.         *)
LEMMA NothingWrittenInv ==
  ASSUME Inv, NEW t \in open, open' = open \ {t},
         UNCHANGED <<memberVars, account, saved, history, reservation, raced, late>>
  PROVE  Inv'
<1>1. /\ open' \subseteq Transaction /\ LocksApart' /\ SeenIsChecked' /\ SavesNames'
      /\ \A q \in open' : q.name \in Name \cup {q.user}
  BY OverStands
<1>2. TypeOK'
  BY <1>1 DEF Inv, TypeOK, memberVars, MemberTypeOK
<1>3. FallbacksOwn'
  BY <1>1 DEF Inv, FallbacksOwn
<1>4. CheckedIsFree' /\ AllApart'
  BY DEF Inv, CheckedIsFree, AllApart, Locked, NamesOf, Plays, HolderActive, Member, memberVars
<1>5. CurrentIsPlayed' /\ ReservedStaysOwners'
  BY DEF Inv, CurrentIsPlayed, ReservedStaysOwners, Plays
<1> QED BY <1>1, <1>2, <1>3, <1>4, <1>5 DEF Inv

LEMMA SaveInv ==
  ASSUME Inv, NEW t \in open, Save(t), UNCHANGED memberVars
  PROVE  Inv'
<1> DEFINE u == t.user
           n == t.name
           fr == Freed(u, n)
<1>1. /\ t.op = "save" /\ t.pc = "checked" /\ open' = open \ {t}
      /\ UNCHANGED <<reservation, raced, late>>
      /\ IF Collides(t, fr) THEN UNCHANGED <<account, saved, history>>
         ELSE /\ account' = fr.account /\ history' = fr.history
              /\ saved' = [fr.saved EXCEPT ![u] = n]
  BY DEF Save
<1>2. CASE Collides(t, fr)
  BY <1>1, <1>2, NothingWrittenInv
<1>3. CASE ~Collides(t, fr)
  <2>1. u \in User /\ n \in AnyName /\ n \in Name \cup {u} /\ Locked(t)
    BY <1>1, Asked DEF Inv, FallbacksOwn, Locked
  <2>2. /\ fr.account \in [User -> Account \cup {NoAccount}]
        /\ fr.saved \in [User -> Name \cup {NoName}]
        /\ fr.history \in [User -> [AnyName -> 0..Hold \cup {Current}]]
        /\ fr.account[u] = account[u]
        /\ \A v \in User :
             /\ fr.account[v] = NoAccount <=> account[v] = NoAccount
             /\ account[v] # NoAccount =>
                  /\ fr.account[v].uuid = account[v].uuid
                  /\ fr.account[v].name \in {account[v].name, v}
             /\ \A m \in AnyName : fr.history[v][m] = Current =>
                  (fr.account[v] # NoAccount /\ fr.account[v].name = m) \/ <<v, m>> \in late
    BY <2>1, FreedTables
  <2>3. account' = fr.account /\ history' = fr.history /\ saved' = [fr.saved EXCEPT ![u] = n]
    BY <1>1, <1>3
  <2>4. \A v \in User \ {u} : account'[v] = fr.account[v] /\ saved'[v] = fr.saved[v]
    BY <2>2, <2>3
  <2>5. account'[u] = account[u] /\ saved'[u] = n
    BY <2>1, <2>2, <2>3
  <2>6. NamesOf(u)' \subseteq NamesOf(u) \cup {n}
    BY <2>1, <2>5 DEF NamesOf, Plays
  <2>7. AllApart' /\ CheckedIsFree'
    BY <1>1, <2>1, <2>4, <2>6, WrittenApart
  <2>8. n \in Name
    BY <1>1 DEF Inv, SavesNames
  <2> HIDE DEF fr, u, n
  <2>9. /\ open' \subseteq Transaction /\ LocksApart' /\ SeenIsChecked' /\ SavesNames'
        /\ \A q \in open' : q.name \in Name \cup {q.user}
    BY <1>1, OverStands
  <2>10. TypeOK'
    BY <1>1, <2>1, <2>2, <2>3, <2>8, <2>9 DEF Inv, TypeOK, memberVars, MemberTypeOK
  <2>11. FallbacksOwn'
    BY <2>2, <2>3, <2>9 DEF Inv, FallbacksOwn
  <2>12. CurrentIsPlayed'
    BY <1>1, <2>2, <2>3 DEF CurrentIsPlayed, Plays
  <2>13. ReservedStaysOwners'
    BY <1>1, <2>2, <2>3 DEF Inv, ReservedStaysOwners
  <2> QED BY <2>7, <2>9, <2>10, <2>11, <2>12, <2>13 DEF Inv
<1> QED BY <1>2, <1>3

(* The account keeps its UUID, or gets one nobody else may have.             *)
LEMMA ClaimedTyped ==
  ASSUME Inv, NEW u \in User, NEW n \in AnyName
  PROVE  /\ Claimed(u, n) \in Account /\ Claimed(u, n).name = n /\ Claimed(u, n) # NoAccount
         /\ Claimed(u, n).uuid \in Name => reservation[Claimed(u, n).uuid] \in {Free, u}
<1>1. TypeOK /\ ReservedStaysOwners
  BY DEF Inv
<1>2. NewUuid(u, n) \in {n, u} /\ (NewUuid(u, n) \in Name => reservation[NewUuid(u, n)] \in {Free, u})
  BY Distinct DEF NewUuid, Fallback
<1> DEFINE x == IF account[u] = NoAccount THEN NewUuid(u, n) ELSE account[u].uuid
<1>3. x \in Uuid /\ (x \in Name => reservation[x] \in {Free, u})
  <2>1. CASE account[u] = NoAccount
    BY <1>2, <2>1, Distinct
  <2>2. CASE account[u] # NoAccount
    BY <1>1, <2>2 DEF TypeOK, Account, ReservedStaysOwners
  <2> QED BY <2>1, <2>2
<1>4. Claimed(u, n) = [uuid |-> x, name |-> n]
  BY DEF Claimed
<1> HIDE DEF x
<1>5. Claimed(u, n) \in Account /\ Claimed(u, n).name = n /\ Claimed(u, n).uuid = x
  BY <1>3, <1>4 DEF Account
<1> QED BY <1>3, <1>5, NameAssumption DEF Account

LEMMA ClaimInv ==
  ASSUME Inv, NEW t \in open, Claim(t), UNCHANGED memberVars
  PROVE  Inv'
<1> DEFINE u == t.user
           n == t.name
           fr == Freed(u, n)
           a == Claimed(u, n)
           row == Played(fr.history[u], u, n)
<1>1. /\ t.op = "play" /\ t.pc = "checked" /\ open' = open \ {t}
      /\ UNCHANGED <<reservation, raced>>
      /\ IF Collides(t, fr) THEN UNCHANGED <<account, saved, history, late>>
         ELSE /\ saved' = fr.saved
              /\ account' = [fr.account EXCEPT ![u] = a]
              /\ history' = [fr.history EXCEPT ![u] = Played(@, u, n)]
              /\ late' = late \ {<<u, n>>}
  BY DEF Claim
<1>2. CASE Collides(t, fr)
  BY <1>1, <1>2, NothingWrittenInv
<1>3. CASE ~Collides(t, fr)
  <2>1. u \in User /\ n \in AnyName /\ n \in Name \cup {u} /\ Locked(t)
    BY <1>1, Asked DEF Inv, FallbacksOwn, Locked
  <2>2. /\ fr.account \in [User -> Account \cup {NoAccount}]
        /\ fr.saved \in [User -> Name \cup {NoName}]
        /\ fr.history \in [User -> [AnyName -> 0..Hold \cup {Current}]]
        /\ fr.saved[u] = saved[u] /\ fr.history[u] = history[u]
        /\ \A v \in User :
             /\ fr.account[v] = NoAccount <=> account[v] = NoAccount
             /\ account[v] # NoAccount =>
                  /\ fr.account[v].uuid = account[v].uuid
                  /\ fr.account[v].name \in {account[v].name, v}
             /\ \A m \in AnyName : fr.history[v][m] = Current =>
                  (fr.account[v] # NoAccount /\ fr.account[v].name = m) \/ <<v, m>> \in late
    BY <2>1, FreedTables
  <2>3. /\ a \in Account /\ a.name = n /\ a # NoAccount
        /\ a.uuid \in Name => reservation[a.uuid] \in {Free, u}
    BY <2>1, ClaimedTyped
  <2>4. /\ row \in [AnyName -> 0..Hold \cup {Current}]
        /\ \A m \in AnyName : row[m] = Current => m = n \/ <<u, m>> \in late
    <3> DEFINE old == account[u].name
               left == IF account[u] # NoAccount /\ old # n THEN Left(history[u], old)
                       ELSE history[u]
    <3>1. row = [left EXCEPT ![n] = Current]
      BY <2>2 DEF Played
    <3>2. history[u] \in [AnyName -> 0..Hold \cup {Current}]
          /\ (account[u] # NoAccount => old \in AnyName)
      BY <2>1 DEF Inv, TypeOK, Account
    <3>3. left \in [AnyName -> 0..Hold \cup {Current}]
      BY <3>2, Distinct DEF Left
    <3>4. \A m \in AnyName : left[m] = Current /\ m # n =>
            history[u][m] = Current /\ ~Plays(u, m)
      BY <3>2, Distinct DEF Left, Plays
    <3>5. \A m \in AnyName : history[u][m] = Current => Plays(u, m) \/ <<u, m>> \in late
      BY <2>1 DEF Inv, CurrentIsPlayed
    <3> HIDE DEF left, row
    <3> QED BY <2>1, <3>1, <3>3, <3>4, <3>5
  <2>5. /\ saved' = fr.saved /\ account' = [fr.account EXCEPT ![u] = a]
        /\ late' = late \ {<<u, n>>} /\ history' = [fr.history EXCEPT ![u] = row]
    BY <1>1, <1>3
  <2>6. \A v \in User \ {u} : account'[v] = fr.account[v] /\ saved'[v] = fr.saved[v]
    BY <2>2, <2>5
  <2>7. NamesOf(u)' \subseteq NamesOf(u) \cup {n}
    <3>1. account'[u] = a /\ saved'[u] = saved[u]
      BY <2>1, <2>2, <2>5
    <3> QED BY <2>3, <3>1 DEF NamesOf, Plays
  <2>8. AllApart' /\ CheckedIsFree'
    BY <1>1, <2>1, <2>6, <2>7, WrittenApart
  <2>9. /\ open' \subseteq Transaction /\ LocksApart' /\ SeenIsChecked' /\ SavesNames'
        /\ \A q \in open' : q.name \in Name \cup {q.user}
    BY <1>1, OverStands
  <2> HIDE DEF fr, u, n, a, row
  <2>10. TypeOK'
    BY <1>1, <2>1, <2>2, <2>3, <2>4, <2>5, <2>9 DEF Inv, TypeOK, memberVars, MemberTypeOK
  <2>11. FallbacksOwn'
    BY <2>1, <2>2, <2>3, <2>5, <2>9 DEF Inv, FallbacksOwn
  <2>12. CurrentIsPlayed'
    <3> SUFFICES ASSUME NEW v \in User, NEW m \in AnyName, history'[v][m] = Current
                 PROVE  (account'[v] # NoAccount /\ account'[v].name = m) \/ <<v, m>> \in late'
      BY DEF CurrentIsPlayed, Plays
    <3>1. CASE v = u
      BY <2>1, <2>2, <2>3, <2>4, <2>5, <3>1
    <3>2. CASE v # u
      BY <2>1, <2>2, <2>5, <3>2
    <3> QED BY <3>1, <3>2
  <2>13. ReservedStaysOwners'
    BY <1>1, <2>1, <2>2, <2>3, <2>5 DEF Inv, ReservedStaysOwners
  <2> QED BY <2>8, <2>9, <2>10, <2>11, <2>12, <2>13 DEF Inv
<1> QED BY <1>2, <1>3

(* A server's late word makes a name current that its member left.           *)
LEMMA ConfirmInv ==
  ASSUME Inv, NEW t \in open, Confirm(t), UNCHANGED memberVars
  PROVE  Inv'
<1>1. /\ open' = open \ {t}
      /\ history' = [history EXCEPT ![t.user][t.name] = Current]
      /\ late' = IF Plays(t.user, t.name) THEN late ELSE late \cup {<<t.user, t.name>>}
      /\ UNCHANGED <<account, saved, reservation, raced>>
  BY DEF Confirm
<1>2. t.user \in User /\ t.name \in AnyName
  BY Asked DEF Inv
<1>3. /\ open' \subseteq Transaction /\ LocksApart' /\ SeenIsChecked' /\ SavesNames'
      /\ \A q \in open' : q.name \in Name \cup {q.user}
  BY <1>1, OverStands
<1>4. history' \in [User -> [AnyName -> 0..Hold \cup {Current}]]
      /\ \A u \in User, n \in AnyName :
           history'[u][n] = IF u = t.user /\ n = t.name THEN Current ELSE history[u][n]
  BY <1>1, <1>2 DEF Inv, TypeOK
<1>5. TypeOK'
  BY <1>1, <1>2, <1>3, <1>4 DEF Inv, TypeOK, memberVars, MemberTypeOK
<1>6. FallbacksOwn'
  BY <1>1, <1>3 DEF Inv, FallbacksOwn
<1>7. CheckedIsFree' /\ AllApart'
  BY <1>1 DEF Inv, CheckedIsFree, AllApart, Locked, NamesOf, Plays, HolderActive, Member, memberVars
<1>8. CurrentIsPlayed'
  BY <1>1, <1>4 DEF Inv, CurrentIsPlayed, Plays
<1>9. ReservedStaysOwners'
  BY <1>1 DEF Inv, ReservedStaysOwners
<1> QED BY <1>3, <1>5, <1>6, <1>7, <1>8, <1>9 DEF Inv

LEMMA NameStepInv == Inv /\ NameStep /\ UNCHANGED memberVars => Inv'
BY AskSaveInv, AskPlayInv, SeenInv, CheckInv, SaveInv, ClaimInv, ConfirmInv DEF NameStep

(* What a release keeps: it makes nobody hold a name.                        *)
LEMMA ReleaseNameInv ==
  ASSUME Inv, NEW u \in User, NEW n \in AnyName, ReleaseName(u, n)
  PROVE  Inv'
<1>1. /\ UNCHANGED <<role, invite, request, account, saved, reservation, open, raced, late>>
      /\ \/ removed' = [removed EXCEPT ![u] = Hold] /\ UNCHANGED history
         \/ history' = [history EXCEPT ![u][n] = Hold] /\ UNCHANGED removed
  BY DEF ReleaseName
<1>2. Hold \in 0..Hold /\ Hold # Current
  BY Distinct
<1>3. /\ removed \in [User -> 0..Hold] /\ history \in [User -> [AnyName -> 0..Hold \cup {Current}]]
  BY DEF Inv, TypeOK, MemberTypeOK
<1>4. /\ removed' \in [User -> 0..Hold] /\ \A v \in User : removed'[v] \in {removed[v], Hold}
  BY <1>1, <1>2, <1>3
<1>5. \A v \in User : HolderActive(v)' => HolderActive(v)
  BY <1>1, <1>4, Distinct DEF HolderActive, Member
<1>6. /\ history' \in [User -> [AnyName -> 0..Hold \cup {Current}]]
      /\ \A v \in User, m \in AnyName : history'[v][m] = Current => history[v][m] = Current
  BY <1>1, <1>2, <1>3
<1>7. TypeOK'
  BY <1>1, <1>4, <1>6 DEF Inv, TypeOK, MemberTypeOK
<1>8. FallbacksOwn' /\ SeenIsChecked' /\ SavesNames' /\ LocksApart'
  BY <1>1 DEF Inv, FallbacksOwn, SeenIsChecked, SavesNames, LocksApart, Locked
<1>9. CheckedIsFree' /\ AllApart'
  BY <1>1, <1>5 DEF Inv, CheckedIsFree, AllApart, Locked, NamesOf, Plays
<1>10. CurrentIsPlayed' /\ ReservedStaysOwners'
  BY <1>1, <1>6 DEF Inv, CurrentIsPlayed, ReservedStaysOwners, Plays
<1> QED BY <1>7, <1>8, <1>9, <1>10 DEF Inv

LEMMA DeleteReservationInv ==
  ASSUME Inv, NEW n \in Name, DeleteReservation(n)
  PROVE  Inv'
<1>1. /\ reservation' = [reservation EXCEPT ![n] = Free]
      /\ UNCHANGED <<role, removed, invite, request, account, saved, history, open, raced, late>>
  BY DEF DeleteReservation, memberVars
<1>2. TypeOK' /\ ReservedStaysOwners'
  BY <1>1 DEF Inv, TypeOK, MemberTypeOK, ReservedStaysOwners
<1>3. FallbacksOwn' /\ SeenIsChecked' /\ SavesNames' /\ LocksApart'
  BY <1>1 DEF Inv, FallbacksOwn, SeenIsChecked, SavesNames, LocksApart, Locked
<1>4. CheckedIsFree' /\ AllApart' /\ CurrentIsPlayed'
  BY <1>1 DEF Inv, CheckedIsFree, AllApart, CurrentIsPlayed, Locked, NamesOf, Plays, HolderActive,
              Member
<1> QED BY <1>2, <1>3, <1>4 DEF Inv

(* A day passes for names left, not for names in use.                        *)
LEMMA TickInv == Inv /\ Tick => Inv'
<1> SUFFICES ASSUME Inv, Tick PROVE Inv'
  OBVIOUS
<1>1. /\ open = {} /\ removed' = [u \in User |-> Older(removed[u])]
      /\ history' = [u \in User |-> [n \in AnyName |->
           IF history[u][n] = Current THEN Current ELSE Older(history[u][n])]]
      /\ UNCHANGED <<role, invite, request, account, saved, reservation, open, raced, late>>
  BY DEF Tick, MemberTick
<1>2. \A age \in 0..Hold : Older(age) \in 0..Hold /\ Older(age) # Current
  BY Distinct DEF Older, Lesser
<1>3. \A u \in User, n \in AnyName :
        history[u][n] \in 0..Hold \cup {Current} /\ removed[u] \in 0..Hold
  BY DEF Inv, TypeOK, MemberTypeOK
<1> HIDE DEF Older
<1>4. TypeOK'
  BY <1>1, <1>2, <1>3 DEF Inv, TypeOK, MemberTypeOK
<1>5. CurrentIsPlayed'
  BY <1>1, <1>2, <1>3 DEF Inv, CurrentIsPlayed, Plays
<1>6. FallbacksOwn' /\ SeenIsChecked' /\ SavesNames' /\ LocksApart' /\ CheckedIsFree'
  BY <1>1 DEF Inv, FallbacksOwn, SeenIsChecked, SavesNames, LocksApart, CheckedIsFree
<1>7. AllApart' /\ ReservedStaysOwners'
  BY <1>1 DEF Inv, AllApart, NamesOf, Plays, ReservedStaysOwners
<1> QED BY <1>4, <1>5, <1>6, <1>7 DEF Inv

(* A member who comes back to a name checked for another is noted.           *)
LEMMA MembersInv == Inv /\ Members => Inv'
<1> SUFFICES ASSUME Inv, Members PROVE Inv'
  OBVIOUS
<1>1. /\ MemberStep /\ raced' = raced \cup Overtaken
      /\ UNCHANGED <<account, saved, history, reservation, open, late>>
  BY DEF Members
<1>2. /\ MemberTypeOK'
      /\ \A v \in User : HolderActive(v)' => HolderActive(v) \/ (~Member(v) /\ role'[v] # "none")
  BY <1>1, MemberStepFacts DEF Inv, TypeOK
<1>3. Overtaken \subseteq AnyName
  BY Asked DEF Inv, Overtaken
<1>4. TypeOK'
  BY <1>1, <1>2, <1>3 DEF Inv, TypeOK
<1>5. CheckedIsFree'
  <2> SUFFICES ASSUME NEW t \in open, Locked(t), t.name \notin raced',
                      NEW v \in User \ {t.user}, HolderActive(v)', t.name \in NamesOf(v)
               PROVE  FALSE
    BY <1>1 DEF CheckedIsFree, Locked, NamesOf, Plays
  <2>1. ~Member(v) /\ role'[v] # "none"
    BY <1>1, <1>2 DEF Inv, CheckedIsFree
  <2>2. t.name \in Overtaken
    BY <2>1 DEF Overtaken, Locked
  <2> QED BY <1>1, <2>2
<1>6. AllApart'
  BY <1>1 DEF Inv, AllApart, NamesOf, Plays
<1>7. FallbacksOwn' /\ SeenIsChecked' /\ SavesNames' /\ LocksApart'
  BY <1>1 DEF Inv, FallbacksOwn, SeenIsChecked, SavesNames, LocksApart, Locked
<1>8. CurrentIsPlayed' /\ ReservedStaysOwners'
  BY <1>1 DEF Inv, CurrentIsPlayed, ReservedStaysOwners, Plays
<1> QED BY <1>4, <1>5, <1>6, <1>7, <1>8 DEF Inv

-----------------------------------------------------------------------------
LEMMA InitInv == Init => Inv
<1> SUFFICES ASSUME Init PROVE Inv
  OBVIOUS
<1>1. MemberTypeOK
  BY MembershipAssumption DEF Init, MemberInit, MemberTypeOK, Role
<1>2. reservation \in [Name -> User \cup {Free, Nobody}]
  BY DEF Init
<1>3. history \in [User -> [AnyName -> 0..Hold \cup {Current}]]
      /\ \A u \in User, n \in AnyName : history[u][n] # Current
  BY Distinct DEF Init
<1>4. TypeOK
  BY <1>1, <1>2, <1>3 DEF Init, TypeOK
<1>5. FallbacksOwn /\ SeenIsChecked /\ SavesNames /\ LocksApart /\ CheckedIsFree
  BY DEF Init, FallbacksOwn, SeenIsChecked, SavesNames, LocksApart, CheckedIsFree
<1>6. AllApart /\ ReservedStaysOwners /\ CurrentIsPlayed
  BY <1>3, Distinct DEF Init, AllApart, NamesOf, Plays, ReservedStaysOwners, CurrentIsPlayed
<1> QED BY <1>4, <1>5, <1>6 DEF Inv

LEMMA StepInv == Inv /\ [Next]_vars => Inv'
<1> SUFFICES ASSUME Inv, [Next]_vars PROVE Inv'
  OBVIOUS
<1>1. CASE UNCHANGED vars
  <2>1. UNCHANGED <<role, removed, invite, request, account, saved, history, reservation, open,
                    raced, late>>
    BY <1>1 DEF vars, memberVars, nameVars
  <2>2. TypeOK' /\ ReservedStaysOwners' /\ CurrentIsPlayed' /\ AllApart'
    BY <2>1 DEF Inv, TypeOK, MemberTypeOK, ReservedStaysOwners, CurrentIsPlayed, AllApart, NamesOf,
                Plays
  <2>3. FallbacksOwn' /\ SeenIsChecked' /\ SavesNames' /\ LocksApart' /\ CheckedIsFree'
    BY <2>1 DEF Inv, FallbacksOwn, SeenIsChecked, SavesNames, LocksApart, CheckedIsFree, Locked,
                NamesOf, Plays, HolderActive, Member
  <2> QED BY <2>2, <2>3 DEF Inv
<1> QED BY <1>1, MembersInv, NameStepInv, ReleaseNameInv, DeleteReservationInv, TickInv DEF Next

LEMMA SpecInv == Spec => []Inv
BY InitInv, StepInv, PTL DEF Spec

-----------------------------------------------------------------------------
(* Every table of the names keeps its range (the migrations of the accounts, *)
(* profiles, history and reservations).                                      *)
THEOREM TypeCorrect == Spec => []TypeOK
<1>1. Inv => TypeOK
  BY DEF Inv
<1> QED BY <1>1, SpecInv, PTL

(* No two members share a name they play under or saved, except where one    *)
(* came back between the other's check and write                             *)
(* (launcher_game_name_available, launcher_free_game_name).                  *)
THEOREM MembersApart == Spec => []NamesApart
<1>1. Inv => NamesApart
  BY DEF Inv, AllApart, NamesApart
<1> QED BY <1>1, SpecInv, PTL

(* A reserved UUID is only ever its owner's account                          *)
(* (launcher_claim_minecraft_account).                                       *)
THEOREM ReservationsKept == Spec => []ReservedStaysOwners
<1>1. Inv => ReservedStaysOwners
  BY DEF Inv
<1> QED BY <1>1, SpecInv, PTL

(* Whatever the panel lists keeps its name from everybody else; and a name   *)
(* that is kept from somebody is listed, or is a member's own, or was        *)
(* confirmed late, by a server, for a member who had left it: those names    *)
(* are held for good and the panel does not show them                        *)
(* (launcher_admin_name_holds, launcher_game_name_available).                *)
THEOREM PanelExplains == Spec => []HoldsExplained
<1>1. Inv => HoldsExplained
  <2> SUFFICES ASSUME Inv PROVE HoldsExplained
    OBVIOUS
  <2>1. ASSUME NEW h \in NameHolds, NEW v \in User \ {h[1]} PROVE ~Available(v, h[2])
    <3>1. h[1] \in User /\ h[2] \in AnyName /\ Listed(h[1], h[2])
      BY <2>1 DEF NameHolds
    <3> QED BY <2>1, <3>1 DEF Listed, Available, HolderActive, NamesOf
  <2>2. ASSUME NEW v \in User, NEW n \in AnyName, ~Available(v, n)
        PROVE  \E u \in User \ {v} : Listed(u, n) \/ (Member(u) /\ n \in NamesOf(u)) \/ <<u, n>> \in late
    <3>1. PICK u \in User \ {v} :
            HolderActive(u) /\ (Plays(u, n) \/ saved[u] = n \/ Held(history[u][n]))
      BY <2>2 DEF Available
    <3>2. n \in NamesOf(u) <=> Plays(u, n) \/ saved[u] = n
      BY DEF NamesOf
    <3>3. history[u][n] = Current => Plays(u, n) \/ <<u, n>> \in late
      BY DEF Inv, CurrentIsPlayed
    <3> QED BY <3>1, <3>2, <3>3 DEF Listed
  <2> QED BY <2>1, <2>2 DEF HoldsExplained
<1> QED BY <1>1, SpecInv, PTL

-----------------------------------------------------------------------------
\* The step of FreeNameIsTaken.
FreeNameTaken ==
  \A t \in open \ open' : t.pc = "checked" /\ t.name \notin raced =>
    \/ t.op = "save" /\ saved'[t.user] = t.name
    \/ t.op = "play" /\ account'[t.user] # NoAccount /\ account'[t.user].name = t.name
    \/ t.op = "seen" /\ history'[t.user][t.name] = Current

(* What ends a transaction past its check is its own writing half.           *)
LEMMA FreeNameStep == Inv /\ [Next]_vars => FreeNameTaken
<1> SUFFICES ASSUME Inv, [Next]_vars, NEW t \in open, t \notin open', t.pc = "checked",
                    t.name \notin raced
             PROVE  \/ t.op = "save" /\ saved'[t.user] = t.name
                    \/ t.op = "play" /\ account'[t.user] # NoAccount /\ account'[t.user].name = t.name
                    \/ t.op = "seen" /\ history'[t.user][t.name] = Current
  BY DEF FreeNameTaken
<1>1. t.user \in User /\ t.name \in AnyName
  BY Asked DEF Inv
<1>2. open' # open
  OBVIOUS
<1>3. NameStep
  BY <1>2 DEF Next, Members, ReleaseName, DeleteReservation, Tick, vars, nameVars
<1>4. PICK q \in open : Check(q) \/ Save(q) \/ Claim(q) \/ Confirm(q)
  BY <1>3 DEF NameStep, AskSave, AskPlay, Seen
<1>5. q = t
  BY <1>4 DEF Check, Save, Claim, Confirm
<1>6. CASE Save(t)
  <2>1. ~Collides(t, Freed(t.user, t.name))
    BY <1>6, NoCollision DEF Save, Locked
  <2>2. saved' = [Freed(t.user, t.name).saved EXCEPT ![t.user] = t.name]
    BY <1>6, <2>1 DEF Save
  <2>3. Freed(t.user, t.name).saved \in [User -> Name \cup {NoName}]
    BY <1>1, FreedTables
  <2> QED BY <1>1, <1>6, <2>2, <2>3 DEF Save
<1>7. CASE Claim(t)
  <2>1. ~Collides(t, Freed(t.user, t.name))
    BY <1>7, NoCollision DEF Claim, Locked
  <2>2. account' = [Freed(t.user, t.name).account EXCEPT ![t.user] = Claimed(t.user, t.name)]
    BY <1>7, <2>1 DEF Claim
  <2>3. Freed(t.user, t.name).account \in [User -> Account \cup {NoAccount}]
    BY <1>1, FreedTables
  <2> QED BY <1>1, <1>7, <2>2, <2>3, ClaimedTyped DEF Claim
<1>8. CASE Confirm(t)
  BY <1>1, <1>8 DEF Inv, TypeOK, Confirm
<1>9. ~Check(t)
  BY DEF Check
<1> QED BY <1>4, <1>5, <1>6, <1>7, <1>8, <1>9

(* A transaction that found its name free writes it, removed members' rows    *)
(* notwithstanding (launcher_save_game_profile, launcher_claim_minecraft_account). *)
THEOREM FreeNamesTaken == Spec => FreeNameIsTaken
<1>1. Inv /\ [Next]_vars => [FreeNameTaken]_vars
  BY FreeNameStep
<1>2. Spec => [][FreeNameTaken]_vars
  BY <1>1, SpecInv, PTL DEF Spec
<1> QED BY <1>2 DEF FreeNameIsTaken, FreeNameTaken

=============================================================================
