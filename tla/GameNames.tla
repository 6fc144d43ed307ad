----------------------------- MODULE GameNames ------------------------------
(***************************************************************************)
(* The names and UUIDs members play under: launcher_minecraft_accounts,    *)
(* launcher_profiles, launcher_game_name_history and the reserved offline  *)
(* UUIDs, with the functions that claim, save, confirm and release a name. *)
(*                                                                         *)
(* A claim and a save hold the advisory locks of their name and of their   *)
(* account; between the statement that finds the name free and those that  *)
(* write, everything that takes other locks, or none, may run: claims of   *)
(* other names, removals, a redeemed code, the check of a game server.     *)
(* Names that differ in case only are one name here.                       *)
(***************************************************************************)
EXTENDS Membership

CONSTANTS
  Name,         \* names a member may save or have on Discord
  NoName,       \* a member without a launcher_profiles row
  NoAccount,    \* a member without a launcher_minecraft_accounts row
  Current,      \* released_at is null: the name is played now
  Free,         \* an offline UUID nobody reserved
  Nobody,       \* a reservation without an owner
  Reserved,     \* names whose offline UUID some server's world may know
  DiscordName,  \* the name launchGameName derives without a saved one
  MaxOpen       \* bound of the model: requests of the account API under way

\* The name derived from an account's id when no other is readable: Bweep_<digest>.
Fallback(u) == u
AnyName == Name \cup User

\* The UUID a name maps to on an offline server is named by the name, the random
\* one of an account by its user.
Uuid == Name \cup User

ASSUME NameAssumption ==
  /\ Name \cap User = {} /\ NoName \notin AnyName
  /\ NoAccount \notin [uuid : Uuid, name : AnyName]
  /\ DiscordName \in [User -> AnyName]
  /\ \A u \in User : DiscordName[u] \in Name \cup {Fallback(u)}
  /\ Reserved \subseteq Name
  /\ Current \notin Nat
  /\ {Free, Nobody} \cap User = {} /\ Free # Nobody
  /\ MaxOpen \in Nat

VARIABLES
  account,      \* launcher_minecraft_accounts
  saved,        \* launcher_profiles.game_name
  history,      \* per member and name: Current, or the time since released_at; Hold for
                \* a day or more and for a name never played
  reservation,  \* launcher_minecraft_uuid_reservations: the owner of a name's offline UUID
  open,         \* requests of members that the database did not finish
  raced,        \* names whose holder came back between the check and the write
  late          \* names a server confirmed after their member had moved away

nameVars == <<account, saved, history, reservation, open, raced, late>>
vars == <<memberVars, nameVars>>

Account == [uuid : Uuid, name : AnyName]

\* asked: past the edge function; checked: between two statements of a transaction.
Transaction == [op : {"save", "play", "seen"}, user : User, name : AnyName,
                pc : {"asked", "checked"}]

TypeOK ==
  /\ MemberTypeOK
  /\ account \in [User -> Account \cup {NoAccount}]
  /\ saved \in [User -> Name \cup {NoName}]
  /\ history \in [User -> [AnyName -> 0..Hold \cup {Current}]]
  /\ reservation \in [Name -> User \cup {Free, Nobody}]
  /\ open \subseteq Transaction
  /\ raced \subseteq AnyName /\ late \subseteq User \X AnyName

Init ==
  /\ MemberInit
  /\ account = [u \in User |-> NoAccount]
  /\ saved = [u \in User |-> NoName]
  /\ history = [u \in User |-> [n \in AnyName |-> Hold]]
  /\ reservation \in {r \in [Name -> {Free, Nobody} \cup User] :
                      \A n \in Name \ Reserved : r[n] = Free}
  /\ open = {} /\ raced = {} /\ late = {}

-----------------------------------------------------------------------------
Plays(u, n) == account[u] # NoAccount /\ account[u].name = n

\* The names others may not take for themselves: last played and saved.
NamesOf(u) == {n \in AnyName : Plays(u, n) \/ saved[u] = n}

Held(age) == age = Current \/ age < Hold

\* The rule of launcher_game_name_available.
Available(u, n) ==
  \A v \in User \ {u} :
    HolderActive(v) => ~Plays(v, n) /\ saved[v] # n /\ ~Held(history[v][n])

LaunchName(u) == IF saved[u] = NoName THEN DiscordName[u] ELSE saved[u]

\* What the administrators' panel lists: launcher_admin_name_holds.
Listed(u, n) ==
  \/ Member(u) /\ history[u][n] # Current /\ Held(history[u][n])
  \/ ~Member(u) /\ HolderActive(u) /\ (n \in NamesOf(u) \/ Held(history[u][n]))

NameHolds == {h \in User \X AnyName : Listed(h[1], h[2])}

-----------------------------------------------------------------------------
\* Bound of the model: between an administrator's two steps no claim or save moves.
AdminQuiet == request = {}

\* Mutant: only the lock of the member is taken.
UnlockedMember(u, n) ==
  \A t \in open : t.pc = "checked" /\ t.op # "seen" => t.user # u

\* The advisory locks of name n and of member u are free.
Unlocked(u, n) ==
  \A t \in open : t.pc = "checked" /\ t.op # "seen" => t.user # u /\ t.name # n

\* Bound of the model: a request begins when those before it were checked, and beside
\* one of the same name or member; others neither read nor write the same rows.
MayAsk(u, n) ==
  /\ Cardinality(open) < MaxOpen
  /\ \A t \in open : t.pc = "checked" /\ (t.user = u \/ t.name = n)

\* setGameProfile and gameAuth, as far as the edge function goes.
AskSave(u, n) ==
  /\ Member(u) /\ MayAsk(u, n)
  /\ open' = open \cup {[op |-> "save", user |-> u, name |-> n, pc |-> "asked"]}
  /\ UNCHANGED <<account, saved, history, reservation, raced, late>>

AskPlay(u) ==
  /\ Member(u) /\ MayAsk(u, LaunchName(u))
  /\ open' = open \cup {[op |-> "play", user |-> u, name |-> LaunchName(u), pc |-> "asked"]}
  /\ UNCHANGED <<account, saved, history, reservation, raced, late>>

\* A server asks hasJoined about a member who joined: the first statement reads the name.
Seen(u) ==
  /\ Member(u) /\ account[u] # NoAccount /\ MayAsk(u, account[u].name)
  /\ open' = open \cup {[op |-> "seen", user |-> u, name |-> account[u].name, pc |-> "checked"]}
  /\ UNCHANGED <<account, saved, history, reservation, raced, late>>

\* The locks are taken and the name is free, or GAME_NAME_TAKEN ends the transaction.
Check(t) ==
  /\ t.pc = "asked" /\ Unlocked(t.user, t.name)
  /\ open' = IF Available(t.user, t.name)
             THEN (open \ {t}) \cup {[t EXCEPT !.pc = "checked"]}
             ELSE open \ {t}
  /\ UNCHANGED <<account, saved, history, reservation, raced, late>>

\* The name an account leaves behind starts its day: launcher_account_name_released.
Left(row, n) == [row EXCEPT ![n] = IF @ = Current THEN 0 ELSE @]

Holding(u, n) == {v \in User \ {u} : ~HolderActive(v) /\ n \in NamesOf(v)}

\* Mutant: only the removed member's account lets go of the name.
FreedAccountOnly(u, n) ==
  [account |-> [v \in User |-> IF v \in Holding(u, n) /\ Plays(v, n)
                  THEN [account[v] EXCEPT !.name = Fallback(v)] ELSE account[v]],
   saved   |-> saved,
   history |-> [v \in User |-> IF v \in Holding(u, n) /\ Plays(v, n)
                  THEN Left(history[v], n) ELSE history[v]]]

\* The tables once launcher_free_game_name made removed members let go of the name.
Freed(u, n) ==
  [account |-> [v \in User |-> IF v \in Holding(u, n) /\ Plays(v, n)
                  THEN [account[v] EXCEPT !.name = Fallback(v)] ELSE account[v]],
   saved   |-> [v \in User |-> IF v \in Holding(u, n) /\ saved[v] = n THEN NoName ELSE saved[v]],
   history |-> [v \in User |-> IF v \in Holding(u, n) /\ Plays(v, n)
                  THEN Left(history[v], n) ELSE history[v]]]

\* Mutant: a reservation does not keep its UUID from others.
NewUuidUnreserved(u, n) ==
  IF \E v \in User : account[v] # NoAccount /\ account[v].uuid = n THEN Fallback(u) ELSE n

\* An account starts with the offline UUID of its name when that is certainly the member's.
NewUuid(u, n) ==
  IF \/ \E v \in User : account[v] # NoAccount /\ account[v].uuid = n
     \/ n \in Name /\ reservation[n] \notin {Free, u}
  THEN Fallback(u) ELSE n

\* The unique indexes on the names of accounts and of saved profiles.
Collides(t, freed) ==
  \E v \in User \ {t.user} :
    IF t.op = "save" THEN freed.saved[v] = t.name
    ELSE freed.account[v] # NoAccount /\ freed.account[v].name = t.name

\* The writing half of launcher_save_game_profile.
Save(t) ==
  LET freed == Freed(t.user, t.name) IN
  /\ t.op = "save" /\ t.pc = "checked"
  /\ open' = open \ {t}
  /\ IF Collides(t, freed) THEN UNCHANGED <<account, saved, history>>
     ELSE /\ account' = freed.account /\ history' = freed.history
          /\ saved' = [freed.saved EXCEPT ![t.user] = t.name]
  /\ UNCHANGED <<reservation, raced, late>>

\* The account under the claimed name, new or renamed.
Claimed(u, n) ==
  [uuid |-> IF account[u] = NoAccount THEN NewUuid(u, n) ELSE account[u].uuid, name |-> n]

\* Mutant: the name an account moves away from is not given its day.
PlayedKeepingOld(row, u, n) == [row EXCEPT ![n] = Current]

\* The history of a member who played n: the name played before starts its day.
Played(row, u, n) ==
  [(IF account[u] # NoAccount /\ account[u].name # n THEN Left(row, account[u].name) ELSE row)
     EXCEPT ![n] = Current]

\* The writing half of launcher_claim_minecraft_account.
Claim(t) ==
  LET freed == Freed(t.user, t.name) IN
  /\ t.op = "play" /\ t.pc = "checked"
  /\ open' = open \ {t}
  /\ IF Collides(t, freed) THEN UNCHANGED <<account, saved, history, late>>
     ELSE /\ saved' = freed.saved
          /\ account' = [freed.account EXCEPT ![t.user] = Claimed(t.user, t.name)]
          /\ history' = [freed.history EXCEPT ![t.user] = Played(@, t.user, t.name)]
          /\ late' = late \ {<<t.user, t.name>>}
  /\ UNCHANGED <<reservation, raced>>

\* The second statement of launcher_yggdrasil_has_joined: the name it read is in use.
Confirm(t) ==
  /\ t.op = "seen"
  /\ open' = open \ {t}
  /\ history' = [history EXCEPT ![t.user][t.name] = Current]
  /\ late' = IF Plays(t.user, t.name) THEN late ELSE late \cup {<<t.user, t.name>>}
  /\ UNCHANGED <<account, saved, reservation, raced>>

-----------------------------------------------------------------------------
\* An administrator ends a hold: all names of a removed member, or one that a member
\* left.  The name's lock is the one of claims and saves.
ReleaseName(u, n) ==
  /\ Admins # {}
  /\ \A t \in open : t.pc = "checked" /\ t.op # "seen" => t.name # n
  /\ \/ /\ removed[u] < Hold
        /\ removed' = [removed EXCEPT ![u] = Hold]
        /\ UNCHANGED history
     \/ /\ removed[u] = Hold
        /\ history[u][n] # Current /\ Held(history[u][n])
        /\ history' = [history EXCEPT ![u][n] = Hold]
        /\ UNCHANGED removed
  /\ UNCHANGED <<role, invite, request, account, saved, reservation, open, raced, late>>

DeleteReservation(n) ==
  /\ Admins # {} /\ reservation[n] # Free
  /\ reservation' = [reservation EXCEPT ![n] = Free]
  /\ UNCHANGED <<memberVars, account, saved, history, open, raced, late>>

\* A request lasts far less than a unit of the clock.
Tick ==
  /\ open = {}
  /\ MemberTick
  /\ history' = [u \in User |-> [n \in AnyName |->
       IF history[u][n] = Current THEN Current ELSE Older(history[u][n])]]
  /\ UNCHANGED <<role, invite, request, account, saved, reservation, open, raced, late>>

\* The names checked for others that a member who comes back holds again.
Overtaken == {t.name : t \in {x \in open : x.pc = "checked" /\
  \E u \in User \ {x.user} : ~Member(u) /\ role'[u] # "none" /\ x.name \in NamesOf(u)}}

Members ==
  /\ MemberStep
  /\ raced' = raced \cup Overtaken
  /\ UNCHANGED <<account, saved, history, reservation, open, late>>

NameStep ==
  \/ \E u \in User, n \in Name : AskSave(u, n)
  \/ \E u \in User : AskPlay(u) \/ Seen(u)
  \/ \E t \in open : Check(t) \/ Save(t) \/ Claim(t) \/ Confirm(t)

Next ==
  \/ Members
  \/ AdminQuiet /\ NameStep /\ UNCHANGED memberVars
  \/ AdminQuiet /\ \E u \in User, n \in AnyName : ReleaseName(u, n)
  \/ AdminQuiet /\ \E n \in Name : DeleteReservation(n)
  \/ AdminQuiet /\ Tick

Spec == Init /\ [][Next]_vars

-----------------------------------------------------------------------------
\* The name a member last played or saved is nobody else's, whatever was removed,
\* invited back, released and claimed before (the rule at the head of the migration),
\* except where a code was redeemed between another's check and write.
NamesApart ==
  \A u, v \in User : u # v /\ Member(u) /\ Member(v) =>
    NamesOf(u) \cap NamesOf(v) \subseteq raced

\* A name that is free by the rule never trips over the rows of a removed member: a
\* transaction that found its name free writes it (launcher_free_game_name), unless
\* the removed member came back meanwhile.
FreeNameIsTaken ==
  [][\A t \in open \ open' : t.pc = "checked" /\ t.name \notin raced =>
       \/ t.op = "save" /\ saved'[t.user] = t.name
       \/ t.op = "play" /\ account'[t.user] # NoAccount /\ account'[t.user].name = t.name
       \/ t.op = "seen" /\ history'[t.user][t.name] = Current]_vars

\* A reserved UUID, which holds world data on some server, is only ever the account of
\* the member it is reserved for.
ReservedStaysOwners ==
  \A u \in User : account[u] # NoAccount /\ account[u].uuid \in Name =>
    reservation[account[u].uuid] \in {Free, u}

\* The panel lists what keeps a name from others: each listed name is refused to
\* everyone else, and each refused name is listed, is a member's name of now, or is
\* one a server confirmed too late.
HoldsExplained ==
  /\ \A h \in NameHolds : \A v \in User \ {h[1]} : ~Available(v, h[2])
  /\ \A v \in User, n \in AnyName : ~Available(v, n) =>
       \E u \in User \ {v} : Listed(u, n) \/ (Member(u) /\ n \in NamesOf(u)) \/ <<u, n>> \in late

=============================================================================
