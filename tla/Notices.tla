------------------------------ MODULE Notices ------------------------------
(***************************************************************************)
(* The notices administrators post, to everyone or to one member, and one  *)
(* launcher that shows them: the session the main process holds, whether   *)
(* the main screen is open, the regular check and the administrator's      *)
(* panel, which both read over the network and may answer late.             *)
(*                                                                         *)
(* A database function holds one lock for all notices and looks at the     *)
(* caller's role itself, so posting and taking down are one step each; the *)
(* edge function's own look at the role decides nothing.                   *)
(***************************************************************************)
EXTENDS Membership, Integers, Sequences

CONSTANTS
  Everyone,    \* the audience of a row without target_user_id
  Nobody,      \* a launcher that is signed out
  Idle,        \* no read under way
  MaxNotices,  \* bound of the model: notices ever posted
  MaxSignIns   \* bound of the model: sign-ins on the launcher

ASSUME NoticesAssumption ==
  /\ Everyone \notin User /\ Nobody \notin User
  /\ MaxNotices \in Nat /\ MaxSignIns \in Nat

VARIABLES
  notice,    \* launcher_notices: the audience of each row, oldest first
  shown,     \* the rows whose ended_at is null
  account,   \* whose session the main process holds
  allowed,   \* access?.allowed: the main screen is open
  current,   \* the notice the main screen holds, 0 for none
  reading,   \* the regular check and the panel's read, each with its answer
  stray,     \* what the screen holds came when the screen that asked had closed
  signIns

tableVars == <<notice, shown>>
screenVars == <<account, allowed, current, reading, stray, signIns>>

Audience == User \cup {Everyone}
Rows == 1..Len(notice)
Reader == {"check", "panel"}

\* A read carries the session it was sent with, which may have ended since; -1 is an
\* answer still to come.
Read == [as : User, ended : BOOLEAN, answer : {-1} \cup 0..MaxNotices]

TableTypeOK ==
  /\ notice \in Seq(Audience) /\ Len(notice) <= MaxNotices
  /\ shown \subseteq Rows

ScreenTypeOK ==
  /\ account \in User \cup {Nobody}
  /\ allowed \in BOOLEAN /\ stray \in BOOLEAN
  /\ current \in 0..MaxNotices
  /\ reading \in [Reader -> Read \cup {Idle}]
  /\ signIns \in 0..MaxSignIns

TableInit == notice = <<>> /\ shown = {}

ScreenInit ==
  /\ account = Nobody /\ allowed = FALSE /\ current = 0
  /\ reading = [k \in Reader |-> Idle]
  /\ stray = FALSE /\ signIns = 0

-----------------------------------------------------------------------------
ShownTo(a) == {n \in shown : notice[n] = a}

\* launcher_admin_set_notice: only the notice of the same audience ends.
Post(u, a) ==
  /\ role[u] = "admin"
  /\ a # Everyone => Member(a)
  /\ Len(notice) < MaxNotices
  /\ notice' = Append(notice, a)
  /\ shown' = (shown \ ShownTo(a)) \cup {Len(notice) + 1}

\* launcher_admin_clear_notice.
Clear(u, a) ==
  /\ role[u] = "admin"
  /\ ShownTo(a) # {}
  /\ shown' = shown \ ShownTo(a)
  /\ UNCHANGED notice

\* The member's own notice, else the one everyone sees; each is at most one row.
Picked(u) ==
  LET rows == IF ShownTo(u) # {} THEN ShownTo(u) ELSE ShownTo(Everyone)
  IN  IF rows = {} THEN 0 ELSE CHOOSE n \in rows : TRUE

TableStep ==
  /\ \E u \in User, a \in Audience : Post(u, a) \/ Clear(u, a)
  /\ UNCHANGED <<memberVars, screenVars>>

-----------------------------------------------------------------------------
SignIn(u) ==
  /\ account = Nobody /\ ~allowed
  /\ signIns < MaxSignIns
  /\ account' = u
  /\ signIns' = signIns + 1
  /\ UNCHANGED <<allowed, current, reading, stray>>

\* The main process is signed out first; the screen learns it with the answer.
SignOut ==
  /\ account # Nobody
  /\ account' = Nobody
  /\ reading' = [k \in Reader |->
       IF reading[k] = Idle THEN Idle ELSE [reading[k] EXCEPT !.ended = TRUE]]
  /\ UNCHANGED <<allowed, current, stray, signIns>>

Begin(k) == reading' = [reading EXCEPT ![k] = [as |-> account, ended |-> FALSE, answer |-> -1]]

\* Mutant: leaving the main screen keeps the notice for when it opens again.
RefreshedKeeping ==
  /\ allowed' = (account # Nobody /\ Member(account))
  /\ IF allowed' /\ ~allowed /\ reading["check"] = Idle THEN Begin("check")
     ELSE UNCHANGED reading
  /\ UNCHANGED <<account, current, stray, signIns>>

\* The screen takes the access status: closing forgets the notice but not a check
\* under way; opening checks at once, unless one is under way.
Refreshed ==
  /\ allowed' = (account # Nobody /\ Member(account))
  /\ IF allowed /\ ~allowed' THEN current' = 0 /\ stray' = FALSE
     ELSE UNCHANGED <<current, stray>>
  /\ IF allowed' /\ ~allowed /\ reading["check"] = Idle THEN Begin("check")
     ELSE UNCHANGED reading
  /\ UNCHANGED <<account, signIns>>

\* Every five minutes, and when an administrator opens or uses the notice tab.
AskNotice(k) ==
  /\ allowed /\ account # Nobody /\ reading[k] = Idle
  /\ k = "panel" => role[account] = "admin"
  /\ Begin(k)
  /\ UNCHANGED <<account, allowed, current, stray, signIns>>

\* The server answers a session that lasts and a member; others get an error.
Answer(k) ==
  /\ reading[k] # Idle /\ reading[k].answer = -1
  /\ ~reading[k].ended /\ Member(reading[k].as)
  /\ reading' = [reading EXCEPT ![k].answer = Picked(reading[k].as)]
  /\ UNCHANGED <<account, allowed, current, stray, signIns>>

\* A failed check keeps the notice; a read after the panel's change shows none.
Refused(k) ==
  /\ reading[k] # Idle /\ reading[k].answer = -1
  /\ reading' = [reading EXCEPT ![k] = Idle]
  /\ current' \in IF k = "panel" THEN {current, 0} ELSE {current}
  /\ UNCHANGED <<account, allowed, stray, signIns>>

Arrive(k) ==
  /\ reading[k] # Idle /\ reading[k].answer # -1
  /\ current' = reading[k].answer
  /\ reading' = [reading EXCEPT ![k] = Idle]
  /\ stray' = (~allowed \/ reading[k].ended)
  /\ UNCHANGED <<account, allowed, signIns>>

ScreenStep ==
  /\ \/ \E u \in User : SignIn(u)
     \/ SignOut
     \/ Refreshed
     \/ \E k \in Reader : AskNotice(k) \/ Answer(k) \/ Refused(k) \/ Arrive(k)
  /\ UNCHANGED <<memberVars, tableVars>>

-----------------------------------------------------------------------------
\* A member's main screen never shows a notice meant for another member, whatever
\* accounts were signed in on this computer before, except after an answer that was
\* still on its way when its session ended or its main screen closed (useNotice,
\* pickNotice).
ScreensMine ==
  allowed /\ account # Nobody /\ current # 0 /\ ~stray =>
    notice[current] \in {account, Everyone}

=============================================================================
