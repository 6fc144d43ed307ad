------------------------------ MODULE Session -------------------------------
(***************************************************************************)
(* The launcher's session: Discord logins in the browser and their         *)
(* callbacks, the account that is signed in, the checks of its access, and *)
(* what is kept of them for an outage (src/src/main/supabase-auth.ts,      *)
(* index.ts, offline-access.ts and the entry screen in App.tsx).           *)
(*                                                                         *)
(* Everything runs in one process; another handler may run at every await. *)
(***************************************************************************)
EXTENDS Sequences, FiniteSets, Naturals

CONSTANTS
  User,
  Nobody,
  Flow,        \* logins, one per authorization address; bound of the model on them
  NoFlow,
  Check,       \* checks of the access that may be open at once (bound)
  MaxRestarts  \* bound of the model on restarts of the launcher

ASSUME SessionAssumption == Nobody \notin User /\ NoFlow \notin Flow /\ MaxRestarts \in Nat

VARIABLES
  inFlight,    \* SupabaseAuth.loginInFlight
  active,      \* activeLoginFlowId
  cancelled,   \* cancelledLoginFlowIds
  callbacks,   \* pendingAuthUrls, each with what the browser brings
  queued,      \* queuedAuthCallbacks
  handling,    \* the callback being processed, and ownsActiveFlow
  completed,   \* completedAuthFlows
  sessionUser, \* the account that is signed in
  stored,      \* supabase-auth.json: whose session is saved
  valid,       \* whose sessions the server accepts
  check,       \* access:status calls: for whom, and whose token was sent
  logout,      \* account:logout
  rename,      \* account:setGameProfile: for whom
  snapshot,    \* offline-snapshot.json: for whom, and whose access
  remembered,  \* writes of it that nobody waits for
  opened,      \* logins begun
  screen,      \* App's user
  pending,     \* App's loginPending
  access,      \* App's access: for whom, and whose it is
  restarts,
  snared,      \* a failed callback of one login has ended another
  crossed      \* an account has come to the screen, or been answered for, over another

loginVars == <<inFlight, active, cancelled, callbacks, queued, handling, completed, opened, pending, snared>>
checkVars == <<check, rename, snapshot, remembered, access>>
vars == <<loginVars, checkVars, sessionUser, stored, valid, logout, screen, restarts, crossed>>

Callback == [flow : Flow, kind : {"code", "error"}]
Somebody == User \cup {Nobody}
Kept == [user : Somebody, of : Somebody]
Nothing == [user |-> Nobody, of |-> Nobody]
NoCheck == [at |-> "none", user |-> Nobody, token |-> Nobody]
NoCallback == [flow |-> NoFlow, owns |-> FALSE]

TypeOK ==
  /\ inFlight \in BOOLEAN /\ active \in Flow \cup {NoFlow}
  /\ cancelled \subseteq Flow /\ completed \subseteq Flow /\ opened \subseteq Flow
  /\ callbacks \in Seq(Callback) /\ queued \subseteq Callback
  /\ handling \in [flow : Flow \cup {NoFlow}, owns : BOOLEAN]
  /\ sessionUser \in Somebody /\ stored \in Somebody /\ valid \subseteq User
  /\ check \in [Check -> [at : {"none", "sent", "again"}, user : Somebody, token : Somebody]]
  /\ logout \in {"none", "asked", "signed"} /\ rename \in Somebody
  /\ snapshot \in Kept /\ remembered \subseteq Kept
  /\ screen \in Somebody /\ pending \in BOOLEAN /\ access \in Kept
  /\ restarts \in 0..MaxRestarts /\ snared \in BOOLEAN /\ crossed \in BOOLEAN

-----------------------------------------------------------------------------
\* The screen offers the login to nobody, and one login at a time; a login that main
\* still has in flight is only waited for.
StartLogin(f) ==
  /\ screen = Nobody /\ ~pending
  /\ IF inFlight
     THEN pending' = TRUE /\ UNCHANGED <<inFlight, active, opened>>
     ELSE /\ active' = f
          /\ \/ /\ f \notin opened /\ opened' = opened \cup {f}
                /\ inFlight' = TRUE /\ pending' = TRUE
             \/ UNCHANGED <<inFlight, pending, opened>>     \* the browser does not open
  /\ UNCHANGED <<cancelled, callbacks, queued, handling, completed, snared,
                 checkVars, sessionUser, stored, valid, logout, screen, restarts, crossed>>

\* The login a cancellation ends: the one in flight, whichever it is.
Ended == IF inFlight THEN {active} ELSE {}

CancelPendingLogin ==
  /\ cancelled' = cancelled \cup Ended
  /\ inFlight' = FALSE
  /\ active' = IF inFlight THEN NoFlow ELSE active

CancelLogin ==
  /\ screen = Nobody /\ pending
  /\ CancelPendingLogin
  /\ pending' = ~inFlight
  /\ UNCHANGED <<callbacks, queued, handling, completed, opened, snared,
                 checkVars, sessionUser, stored, valid, logout, screen, restarts, crossed>>

\* A tab of the browser comes back, however late; the same address is taken once.
Callbacks(f, kind) ==
  LET c == [flow |-> f, kind |-> kind] IN
  /\ f \in opened /\ c \notin queued
  /\ queued' = queued \cup {c}
  /\ callbacks' = Append(callbacks, c)
  /\ UNCHANGED <<inFlight, active, cancelled, handling, completed, opened, pending, snared,
                 checkVars, sessionUser, stored, valid, logout, screen, restarts, crossed>>

\* An error that comes from the provider, and is not about a login that has succeeded.
ProviderErrorTold(f) == f \notin completed
\* Mutant: it is logged only.
ExchangeErrorLogged(f) == FALSE

\* Any failure of an exchange is told.
ExchangeErrorTold(f) == TRUE

\* A callback that fails ends whatever login is in flight; the screen waits no more if it is told.
Failed(f, told) ==
  /\ CancelPendingLogin
  /\ snared' = (snared \/ (Ended \ {f} # {} /\ ~told))
  /\ pending' = (pending /\ ~told)

\* processPendingDeepLinks up to the exchange of the code.
TakeCallback ==
  /\ handling = NoCallback /\ callbacks # <<>>
  /\ LET c == Head(callbacks) IN
       \/ /\ c.kind = "error"
          /\ Failed(c.flow, ProviderErrorTold(c.flow))
          /\ UNCHANGED handling
       \/ /\ c.kind = "code" /\ c.flow \in cancelled
          /\ Failed(c.flow, FALSE)
          /\ UNCHANGED handling
       \/ /\ c.kind = "code" /\ c.flow \notin cancelled
          /\ handling' = [flow |-> c.flow, owns |-> inFlight /\ active = c.flow]
          /\ UNCHANGED <<inFlight, active, cancelled, pending, snared>>
  /\ callbacks' = Tail(callbacks)
  /\ UNCHANGED <<queued, completed, opened,
                 checkVars, sessionUser, stored, valid, logout, screen, restarts, crossed>>

\* Another account than u is signed in, at the screen, in main or in the saved session.
Foreign(u) == ~({screen, sessionUser, stored} \subseteq {u, Nobody})

\* The code is exchanged: the browser was signed in to Discord as u.
SignIn(u) ==
  /\ handling # NoCallback
  /\ inFlight' = (inFlight /\ ~handling.owns)
  /\ active' = IF handling.owns THEN NoFlow ELSE active
  /\ completed' = completed \cup {handling.flow}
  /\ handling' = NoCallback
  /\ stored' = u /\ valid' = valid \cup {u}
  /\ sessionUser' = u /\ screen' = u /\ pending' = FALSE
  /\ crossed' = (crossed \/ Foreign(u))
  /\ UNCHANGED <<cancelled, callbacks, queued, opened, snared, checkVars, logout, restarts>>

\* The exchange fails: the login it belonged to is over, and any other one is cancelled.
ExchangeFails ==
  /\ handling # NoCallback
  /\ LET others == IF handling.owns THEN {} ELSE Ended IN
       /\ cancelled' = cancelled \cup others
       /\ snared' = (snared \/ (others # {} /\ ~ExchangeErrorTold(handling.flow)))
  /\ inFlight' = FALSE
  /\ active' = IF handling.owns \/ inFlight THEN NoFlow ELSE active
  /\ pending' = (pending /\ ~ExchangeErrorTold(handling.flow))
  /\ handling' = NoCallback
  /\ UNCHANGED <<callbacks, queued, completed, opened,
                 checkVars, sessionUser, stored, valid, logout, screen, restarts, crossed>>

LoginNext ==
  \/ \E f \in Flow : StartLogin(f) \/ Callbacks(f, "code") \/ Callbacks(f, "error")
  \/ CancelLogin \/ TakeCallback \/ ExchangeFails
  \/ \E u \in User : SignIn(u)

-----------------------------------------------------------------------------
\* The answer of access:status at the screen.
Shown(u, of) == screen' = u /\ access' = [user |-> u, of |-> of]

\* The saved session is no longer accepted: whoever is signed in by now is signed out.
Invalid(i) ==
  /\ check' = [check EXCEPT ![i] = NoCheck]
  /\ stored' = Nobody /\ sessionUser' = Nobody
  /\ Shown(Nobody, Nobody)

CheckRest == <<loginVars, rename, logout, restarts, valid>>

\* access:status: for the account signed in, with the token of the saved session.
AskStatus(i) ==
  /\ check[i] = NoCheck /\ screen # Nobody
  /\ \/ /\ sessionUser # Nobody /\ stored # Nobody
        /\ check' = [check EXCEPT ![i] = [at |-> "sent", user |-> sessionUser, token |-> stored]]
        /\ UNCHANGED <<sessionUser, stored, screen, access>>
     \/ /\ sessionUser = Nobody \/ stored = Nobody
        /\ sessionUser = Nobody => stored' = stored
        /\ sessionUser # Nobody => stored' = Nobody
        /\ sessionUser' = Nobody /\ Shown(Nobody, Nobody)
        /\ UNCHANGED check
  /\ UNCHANGED <<CheckRest, crossed, snapshot, remembered>>

\* rememberAccess begins: whose access is kept for whom.
Remembered(u, of) == remembered' = remembered \cup {[user |-> u, of |-> of]}

StatusAnswered(i) ==
  /\ check[i].at # "none" /\ check[i].token \in valid
  /\ check' = [check EXCEPT ![i] = NoCheck]
  /\ Shown(check[i].user, check[i].token)
  /\ Remembered(check[i].user, check[i].token)
  /\ crossed' = (crossed \/ Foreign(check[i].user))
  /\ UNCHANGED <<CheckRest, snapshot, sessionUser, stored>>

\* A refused token is refreshed once, from the session that is saved by now.
StatusRefused(i) ==
  /\ check[i].at # "none" /\ check[i].token \notin valid
  /\ IF check[i].at = "sent" /\ stored \in valid
     THEN /\ check' = [check EXCEPT ![i].at = "again", ![i].token = stored]
          /\ crossed' = (crossed \/ Foreign(check[i].user))
          /\ UNCHANGED <<sessionUser, stored, screen, access>>
     ELSE Invalid(i) /\ UNCHANGED crossed
  /\ UNCHANGED <<CheckRest, snapshot, remembered>>

\* Mutant: the account is not compared.
LastKnownOfAnybody(u) == snapshot.of

\* accessDuringOutage: the last access seen, if it is this account's.
LastKnown(u) == IF snapshot.user = u THEN snapshot.of ELSE Nobody

StatusUnavailable(i) ==
  /\ check[i].at # "none"
  /\ check' = [check EXCEPT ![i] = NoCheck]
  /\ IF sessionUser = Nobody THEN UNCHANGED <<screen, access>>
     ELSE Shown(sessionUser, LastKnown(sessionUser))
  /\ UNCHANGED <<CheckRest, crossed, snapshot, remembered, sessionUser, stored>>

\* rememberAccess ends; nobody waited for it.
Remember(r) ==
  /\ remembered' = remembered \ {r}
  /\ snapshot' \in {r, snapshot}     \* a failed write is let be
  /\ UNCHANGED <<CheckRest, crossed, check, access, sessionUser, stored, screen>>

Logout ==
  /\ screen # Nobody /\ logout = "none"
  /\ logout' = "asked"
  /\ UNCHANGED <<loginVars, checkVars, sessionUser, stored, valid, screen, restarts, crossed>>

\* The session of the account is revoked and forgotten, or the server is not reached.
LogoutSigned ==
  /\ logout = "asked"
  /\ \/ /\ logout' = "signed"
        /\ valid' = valid \ {stored} /\ stored' = Nobody
     \/ /\ logout' = "none"
        /\ UNCHANGED <<valid, stored>>
  /\ UNCHANGED <<loginVars, checkVars, sessionUser, screen, restarts, crossed>>

LogoutEnds ==
  /\ logout = "signed" /\ logout' = "none"
  /\ snapshot' = Nothing
  /\ sessionUser' = Nobody
  /\ Shown(Nobody, Nobody)
  /\ UNCHANGED <<loginVars, check, rename, remembered, stored, valid, restarts, crossed>>

\* account:setGameProfile: the account it was called for is signed in again with its answer.
AskRename ==
  /\ screen # Nobody /\ sessionUser # Nobody /\ stored # Nobody /\ rename = Nobody
  /\ rename' = sessionUser
  /\ UNCHANGED <<loginVars, check, snapshot, remembered, access, sessionUser, stored, valid,
                 logout, screen, restarts, crossed>>

RenameEnds ==
  /\ rename # Nobody /\ rename' = Nobody
  /\ \/ /\ sessionUser' = rename /\ screen' = rename
        /\ access' = [access EXCEPT !.user = rename]
        /\ crossed' = (crossed \/ Foreign(rename))
     \/ UNCHANGED <<sessionUser, screen, access, crossed>>
  /\ UNCHANGED <<loginVars, check, snapshot, remembered, stored, valid, logout, restarts>>

\* A session ends at the server: it expires, or it is revoked.
Revoke(u) ==
  /\ u \in valid /\ valid' = valid \ {u}
  /\ UNCHANGED <<loginVars, checkVars, sessionUser, stored, logout, screen, restarts, crossed>>

\* Who the launcher starts with: the account of the saved session if the server confirms it;
\* when the server is not reached, if the snapshot is of the same account.
Confirmed == IF stored \in valid THEN stored ELSE Nobody
Unconfirmed == IF snapshot.user = stored THEN stored ELSE Nobody
Restored == {Confirmed, Unconfirmed}

\* The launcher ends and starts again; the tabs of the browser stay.
Restart ==
  /\ restarts < MaxRestarts /\ restarts' = restarts + 1
  /\ inFlight' = FALSE /\ active' = NoFlow /\ cancelled' = {} /\ callbacks' = <<>>
  /\ handling' = NoCallback /\ completed' = {} /\ pending' = FALSE
  /\ check' = [i \in Check |-> NoCheck] /\ logout' = "none" /\ rename' = Nobody
  /\ remembered' = {}
  /\ \E u \in Restored : sessionUser' = u /\ Shown(u, Nobody)
  /\ UNCHANGED <<queued, opened, snared, stored, valid, snapshot, crossed>>

CheckNext ==
  \/ \E i \in Check : AskStatus(i) \/ StatusAnswered(i) \/ StatusRefused(i) \/ StatusUnavailable(i)
  \/ \E r \in remembered : Remember(r)
  \/ Logout \/ LogoutSigned \/ LogoutEnds \/ AskRename \/ RenameEnds
  \/ \E u \in User : Revoke(u)
  \/ Restart

Init ==
  /\ inFlight = FALSE /\ active = NoFlow /\ cancelled = {} /\ callbacks = <<>> /\ queued = {}
  /\ handling = NoCallback /\ completed = {} /\ opened = {} /\ pending = FALSE /\ snared = FALSE
  /\ check = [i \in Check |-> NoCheck] /\ rename = Nobody /\ snapshot = Nothing /\ remembered = {}
  /\ access = Nothing /\ sessionUser = Nobody /\ stored = Nobody /\ valid = {}
  /\ logout = "none" /\ screen = Nobody /\ restarts = 0 /\ crossed = FALSE

Next == LoginNext \/ CheckNext

Spec == Init /\ [][Next]_vars

-----------------------------------------------------------------------------
(* A login the screen waits for can be ended: it is in flight, so the button    *)
(* cancels it. Else neither button of the entry screen does anything            *)
(* (cancelPendingLogin says there is none, and the screen goes on waiting).     *)
(* Not so once a failed callback of another login, one cancelled before, has    *)
(* cancelled this one without a word (index.ts:318 cancels whichever is in      *)
(* flight).                                                                     *)
LoginEnds == pending => inFlight \/ snared

(* The access shown for an account, in an outage and after a restart too, is    *)
(* the one the server gave that account.  Not so once an account was answered   *)
(* for, or came to the screen, while another was signed in: a refused token     *)
(* refreshed from the next account's session, a rename answered after the       *)
(* logout, a refusal that arrives late and signs out the account of now.        *)
OwnAccess == access.of \in {access.user, Nobody} \/ crossed

=============================================================================
