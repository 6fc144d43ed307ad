--------------------------- MODULE SessionProofs ---------------------------
(***************************************************************************)
(* What the launcher's session promises, for any accounts, logins, open    *)
(* checks of the access and restarts.                                      *)
(***************************************************************************)
EXTENDS Session, SequenceTheorems, TLAPS

\* The login in flight is a new one: no callback of it ended it, nobody cancelled it,
\* and only the callback that owns it is being processed for it.
LoginInv ==
  /\ callbacks \in Seq([flow : opened, kind : {"code", "error"}])
  /\ handling = NoCallback \/ handling.flow \in opened
  /\ cancelled \cup completed \subseteq opened
  /\ inFlight => active \in opened \ (cancelled \cup completed)
  /\ handling # NoCallback /\ inFlight /\ ~handling.owns => active # handling.flow
  /\ LoginEnds

\* The screen, the main process and the saved session know one account at most.
OneAccount == \E u \in Somebody : {screen, sessionUser, stored} \subseteq {u, Nobody}

\* Until an account came over another, each access belongs to the account it is for.
AccessInv ==
  crossed \/ /\ OneAccount
             /\ \A i \in Check : check[i].at # "none" => check[i].user = check[i].token
             /\ \A r \in remembered \cup {snapshot} : r.user = r.of
             /\ access.of \in {access.user, Nobody} /\ access.of \in {screen, Nobody}

Inv == TypeOK /\ LoginInv /\ AccessInv

-----------------------------------------------------------------------------
LEMMA LoginStands ==
  LoginInv /\ UNCHANGED <<inFlight, active, cancelled, callbacks, handling, completed, opened,
                          pending, snared>>
  => LoginInv'
BY DEF LoginInv, LoginEnds

LEMMA AccessStands ==
  AccessInv /\ UNCHANGED <<check, remembered, snapshot, access, screen, sessionUser, stored,
                           crossed>>
  => AccessInv'
BY DEF AccessInv, OneAccount

LEMMA CheckTypes ==
  TypeOK => \A i \in Check : /\ check[i].user \in Somebody /\ check[i].token \in Somebody
                             /\ check[i].at \in {"none", "sent", "again"}
BY DEF TypeOK

(* What a login that fails without its owner leaves of the one in flight.    *)
LEMMA FailedInv ==
  ASSUME TypeOK, LoginInv, NEW f \in opened, NEW told \in BOOLEAN, Failed(f, told),
         ~told => ~inFlight \/ active # f,
         UNCHANGED <<handling, completed, opened>>
  PROVE  /\ inFlight' \in BOOLEAN /\ active' \in Flow \cup {NoFlow} /\ cancelled' \subseteq Flow
         /\ pending' \in BOOLEAN /\ snared' \in BOOLEAN
         /\ inFlight' = FALSE /\ cancelled' \subseteq opened
         /\ LoginEnds'
<1>1. /\ cancelled' = cancelled \cup Ended /\ inFlight' = FALSE
      /\ active' = IF inFlight THEN NoFlow ELSE active
      /\ snared' = (snared \/ (Ended \ {f} # {} /\ ~told))
      /\ pending' = (pending /\ ~told)
  BY DEF Failed, CancelPendingLogin
<1>2. inFlight' \in BOOLEAN /\ pending' \in BOOLEAN /\ snared' \in BOOLEAN
  BY Zenon, <1>1
<1>3. Ended \subseteq opened /\ opened \subseteq Flow /\ active' \in Flow \cup {NoFlow}
  BY <1>1 DEF TypeOK, LoginInv, Ended
<1>4. cancelled' \subseteq opened /\ cancelled' \subseteq Flow
  BY <1>1, <1>3 DEF LoginInv
<1>5. LoginEnds'
  <2> SUFFICES ASSUME pending' PROVE snared'
    BY DEF LoginEnds
  <2>1. pending /\ ~told
    BY Zenon, <1>1
  <2>2. inFlight \/ snared
    BY <2>1 DEF LoginInv, LoginEnds
  <2>3. inFlight => Ended \ {f} # {}
    BY <2>1 DEF Ended
  <2>4. snared \/ (Ended \ {f} # {} /\ ~told)
    BY <2>1, <2>2, <2>3
  <2> QED BY Zenon, <1>1, <2>4
<1> QED BY <1>1, <1>2, <1>3, <1>4, <1>5

-----------------------------------------------------------------------------
LEMMA StartLoginInv ==
  ASSUME Inv, NEW f \in Flow, StartLogin(f)
  PROVE  Inv'
<1>1. /\ UNCHANGED <<cancelled, callbacks, queued, handling, completed, snared, check, rename,
                     snapshot, remembered, access, sessionUser, stored, valid, logout, screen,
                     restarts, crossed>>
      /\ ~pending
  BY DEF StartLogin, checkVars
<1>2. AccessInv'
  BY <1>1, AccessStands DEF Inv
<1>3. CASE inFlight
  <2>1. pending' = TRUE /\ UNCHANGED <<inFlight, active, opened>>
    BY <1>3 DEF StartLogin
  <2>2. pending' \in BOOLEAN
    BY Zenon, <2>1
  <2> QED BY <1>1, <1>2, <1>3, <2>1, <2>2 DEF Inv, TypeOK, LoginInv, LoginEnds
<1>4. CASE ~inFlight /\ f \notin opened /\ opened' = opened \cup {f} /\ active' = f
           /\ inFlight' = TRUE /\ pending' = TRUE
  <2>1. inFlight' \in BOOLEAN /\ pending' \in BOOLEAN /\ inFlight'
    BY Zenon, <1>4
  <2>2. callbacks' \in Seq([flow : opened', kind : {"code", "error"}])
    <3>1. [flow : opened, kind : {"code", "error"}] \subseteq [flow : opened', kind : {"code", "error"}]
      BY <1>4
    <3> QED BY <1>1, <3>1, SeqMonotonic DEF Inv, LoginInv
  <2>3. TypeOK'
    BY <1>1, <1>4, <2>1 DEF Inv, TypeOK
  <2>4. LoginInv'
    BY <1>1, <1>4, <2>1, <2>2 DEF Inv, LoginInv, LoginEnds
  <2> QED BY <1>2, <2>3, <2>4 DEF Inv
<1>5. CASE ~inFlight /\ active' = f /\ UNCHANGED <<inFlight, pending, opened>>
  BY <1>1, <1>2, <1>5 DEF Inv, TypeOK, LoginInv, LoginEnds
<1> QED BY <1>3, <1>4, <1>5 DEF StartLogin

LEMMA CancelLoginInv == Inv /\ CancelLogin => Inv'
<1> SUFFICES ASSUME Inv, CancelLogin PROVE Inv'
  OBVIOUS
<1>1. /\ UNCHANGED <<callbacks, queued, handling, completed, opened, snared, check, rename,
                     snapshot, remembered, access, sessionUser, stored, valid, logout, screen,
                     restarts, crossed>>
      /\ pending /\ pending' = ~inFlight
      /\ cancelled' = cancelled \cup Ended /\ inFlight' = FALSE
      /\ active' = IF inFlight THEN NoFlow ELSE active
  BY DEF CancelLogin, CancelPendingLogin, checkVars
<1>2. AccessInv'
  BY <1>1, AccessStands DEF Inv
<1>3. pending' \in BOOLEAN /\ inFlight' \in BOOLEAN /\ ~inFlight' /\ (pending' => ~inFlight)
  BY Zenon, <1>1
<1>4. Ended \subseteq opened /\ opened \subseteq Flow
  BY DEF Inv, TypeOK, LoginInv, Ended
<1>5. TypeOK'
  BY <1>1, <1>3, <1>4 DEF Inv, TypeOK
<1>6. LoginInv'
  BY <1>1, <1>3, <1>4 DEF Inv, LoginInv, LoginEnds
<1> QED BY <1>2, <1>5, <1>6 DEF Inv

LEMMA CallbacksInv ==
  ASSUME Inv, NEW f \in Flow, NEW kind \in {"code", "error"}, Callbacks(f, kind)
  PROVE  Inv'
<1> DEFINE c == [flow |-> f, kind |-> kind]
<1>1. /\ f \in opened /\ queued' = queued \cup {c} /\ callbacks' = Append(callbacks, c)
      /\ UNCHANGED <<inFlight, active, cancelled, handling, completed, opened, pending, snared,
                     check, rename, snapshot, remembered, access, sessionUser, stored, valid,
                     logout, screen, restarts, crossed>>
  BY DEF Callbacks, checkVars
<1>2. c \in Callback /\ c \in [flow : opened, kind : {"code", "error"}]
  BY <1>1 DEF Callback
<1> HIDE DEF c
<1>3. AccessInv'
  BY <1>1, AccessStands DEF Inv
<1>4. callbacks' \in Seq(Callback) /\ callbacks' \in Seq([flow : opened, kind : {"code", "error"}])
  BY <1>1, <1>2, AppendProperties DEF Inv, TypeOK, LoginInv
<1>5. TypeOK'
  BY <1>1, <1>2, <1>4 DEF Inv, TypeOK
<1>6. LoginInv'
  BY <1>1, <1>4 DEF Inv, LoginInv, LoginEnds
<1> QED BY <1>3, <1>5, <1>6 DEF Inv

LEMMA TakeCallbackInv == Inv /\ TakeCallback => Inv'
<1> DEFINE c == Head(callbacks)
           S == [flow : opened, kind : {"code", "error"}]
<1> SUFFICES ASSUME Inv, TakeCallback PROVE Inv'
  OBVIOUS
<1>1. /\ handling = NoCallback /\ callbacks # <<>> /\ callbacks' = Tail(callbacks)
      /\ UNCHANGED <<queued, completed, opened, check, rename, snapshot, remembered, access,
                     sessionUser, stored, valid, logout, screen, restarts, crossed>>
      /\ \/ /\ c.kind = "error" /\ Failed(c.flow, ProviderErrorTold(c.flow))
            /\ UNCHANGED handling
         \/ /\ c.kind = "code" /\ c.flow \in cancelled
            /\ Failed(c.flow, FALSE)
            /\ UNCHANGED handling
         \/ /\ c.kind = "code" /\ c.flow \notin cancelled
            /\ handling' = [flow |-> c.flow, owns |-> inFlight /\ active = c.flow]
            /\ UNCHANGED <<inFlight, active, cancelled, pending, snared>>
  BY DEF TakeCallback, checkVars
<1>2. callbacks \in Seq(S) /\ callbacks \in Seq(Callback)
  BY DEF Inv, LoginInv, TypeOK
<1>3. c \in S /\ callbacks' \in Seq(S) /\ callbacks' \in Seq(Callback)
  <2> HIDE DEF S
  <2> QED BY <1>1, <1>2, HeadTailProperties
<1>4. c.flow \in opened /\ opened \subseteq Flow
  BY <1>3 DEF Inv, TypeOK
<1> HIDE DEF c, S
<1>5. AccessInv'
  BY <1>1, AccessStands DEF Inv
<1>6. ASSUME NEW told \in BOOLEAN, Failed(c.flow, told), UNCHANGED handling,
             ~told => ~inFlight \/ active # c.flow
      PROVE  Inv'
  <2>1. /\ inFlight' \in BOOLEAN /\ active' \in Flow \cup {NoFlow} /\ cancelled' \subseteq Flow
        /\ pending' \in BOOLEAN /\ snared' \in BOOLEAN
        /\ inFlight' = FALSE /\ cancelled' \subseteq opened
        /\ LoginEnds'
    BY <1>1, <1>4, <1>6, FailedInv DEF Inv
  <2>2. ~inFlight'
    BY Zenon, <2>1
  <2>3. TypeOK'
    BY <1>1, <1>3, <1>6, <2>1 DEF Inv, TypeOK
  <2>4. LoginInv'
    BY <1>1, <1>3, <1>6, <2>1, <2>2 DEF Inv, LoginInv, S
  <2> QED BY <1>5, <2>3, <2>4 DEF Inv
<1>7. CASE c.kind = "error" /\ Failed(c.flow, ProviderErrorTold(c.flow)) /\ UNCHANGED handling
  <2>1. ProviderErrorTold(c.flow) \in BOOLEAN
    BY DEF ProviderErrorTold
  <2>2. ~ProviderErrorTold(c.flow) => ~inFlight \/ active # c.flow
    BY DEF ProviderErrorTold, Inv, LoginInv
  <2> QED BY <1>6, <1>7, <2>1, <2>2
<1>8. CASE c.flow \in cancelled /\ Failed(c.flow, FALSE) /\ UNCHANGED handling
  <2>1. ~inFlight \/ active # c.flow
    BY <1>8 DEF Inv, LoginInv
  <2> QED BY <1>6, <1>8, <2>1
<1>9. CASE /\ handling' = [flow |-> c.flow, owns |-> inFlight /\ active = c.flow]
           /\ UNCHANGED <<inFlight, active, cancelled, pending, snared>>
  <2> DEFINE owner == inFlight /\ active = c.flow
  <2>1. handling' = [flow |-> c.flow, owns |-> owner] /\ owner \in BOOLEAN
    BY <1>9
  <2>2. ~owner => ~inFlight \/ active # c.flow
    OBVIOUS
  <2> HIDE DEF owner
  <2>3. handling'.flow = c.flow /\ handling'.owns = owner
        /\ handling' \in [flow : Flow \cup {NoFlow}, owns : BOOLEAN]
    BY <1>4, <2>1
  <2>4. ~handling'.owns => ~owner
    BY Zenon, <2>3
  <2>5. TypeOK'
    BY <1>1, <1>3, <1>9, <2>3 DEF Inv, TypeOK
  <2>6. LoginInv'
    BY <1>1, <1>3, <1>4, <1>9, <2>2, <2>3, <2>4 DEF Inv, LoginInv, LoginEnds, S
  <2> QED BY <1>5, <2>5, <2>6 DEF Inv
<1> QED BY <1>1, <1>7, <1>8, <1>9

LEMMA SignInInv ==
  ASSUME Inv, NEW u \in User, SignIn(u)
  PROVE  Inv'
<1>1. /\ handling # NoCallback /\ handling' = NoCallback
      /\ inFlight' = (inFlight /\ ~handling.owns)
      /\ active' = IF handling.owns THEN NoFlow ELSE active
      /\ completed' = completed \cup {handling.flow}
      /\ stored' = u /\ valid' = valid \cup {u}
      /\ sessionUser' = u /\ screen' = u /\ pending' = FALSE
      /\ crossed' = (crossed \/ Foreign(u))
      /\ UNCHANGED <<cancelled, callbacks, queued, opened, snared, check, rename, snapshot,
                     remembered, access, logout, restarts>>
  BY DEF SignIn, checkVars
<1>2. /\ inFlight' \in BOOLEAN /\ pending' \in BOOLEAN /\ crossed' \in BOOLEAN
      /\ ~pending' /\ (inFlight' => inFlight /\ ~handling.owns)
      /\ (~crossed' => ~crossed /\ ~Foreign(u))
  BY Zenon, <1>1
<1>3. handling.flow \in opened /\ opened \subseteq Flow
  BY <1>1 DEF Inv, TypeOK, LoginInv
<1>4. NoCallback \in [flow : Flow \cup {NoFlow}, owns : BOOLEAN]
  BY DEF NoCallback
<1>5. TypeOK'
  BY <1>1, <1>2, <1>3, <1>4 DEF Inv, TypeOK, Somebody
<1>6. LoginInv'
  BY <1>1, <1>2, <1>3 DEF Inv, LoginInv, LoginEnds
<1>7. AccessInv'
  <2> SUFFICES ASSUME ~crossed' PROVE AccessInv'
    BY DEF AccessInv
  <2>1. ~crossed /\ screen \in {u, Nobody}
    BY <1>2 DEF Foreign
  <2>2. OneAccount'
    BY <1>1 DEF OneAccount, Somebody
  <2> QED BY <1>1, <2>1, <2>2 DEF Inv, AccessInv
<1> QED BY <1>5, <1>6, <1>7 DEF Inv

LEMMA ExchangeFailsInv == Inv /\ ExchangeFails => Inv'
<1> DEFINE others == IF handling.owns THEN {} ELSE Ended
<1> SUFFICES ASSUME Inv, ExchangeFails PROVE Inv'
  OBVIOUS
<1>1. /\ handling # NoCallback /\ handling' = NoCallback /\ inFlight' = FALSE
      /\ cancelled' = cancelled \cup others
      /\ snared' = (snared \/ (others # {} /\ ~ExchangeErrorTold(handling.flow)))
      /\ active' = IF handling.owns \/ inFlight THEN NoFlow ELSE active
      /\ pending' = (pending /\ ~ExchangeErrorTold(handling.flow))
      /\ UNCHANGED <<callbacks, queued, completed, opened, check, rename, snapshot, remembered,
                     access, sessionUser, stored, valid, logout, screen, restarts, crossed>>
  BY DEF ExchangeFails, checkVars
<1>2. others \subseteq opened /\ opened \subseteq Flow
  BY DEF Inv, TypeOK, LoginInv, Ended
<1> HIDE DEF others
<1>3. /\ inFlight' \in BOOLEAN /\ pending' \in BOOLEAN /\ snared' \in BOOLEAN
      /\ ~inFlight' /\ ~pending'
  BY Zenon, <1>1 DEF ExchangeErrorTold
<1>4. NoCallback \in [flow : Flow \cup {NoFlow}, owns : BOOLEAN]
  BY DEF NoCallback
<1>5. TypeOK'
  BY <1>1, <1>2, <1>3, <1>4 DEF Inv, TypeOK
<1>6. LoginInv'
  BY <1>1, <1>2, <1>3 DEF Inv, LoginInv, LoginEnds
<1> QED BY <1>1, <1>5, <1>6, AccessStands DEF Inv

-----------------------------------------------------------------------------
LEMMA NoCheckTyped ==
  /\ NoCheck \in [at : {"none", "sent", "again"}, user : Somebody, token : Somebody]
  /\ NoCheck.at = "none" /\ Nobody \in Somebody
BY DEF NoCheck, Somebody

(* A check that is over: the others are as they were.                        *)
LEMMA CheckOver ==
  ASSUME TypeOK, NEW i \in Check, check' = [check EXCEPT ![i] = NoCheck]
  PROVE  /\ check' \in [Check -> [at : {"none", "sent", "again"}, user : Somebody, token : Somebody]]
         /\ \A j \in Check : check'[j] = check[j] \/ check'[j].at = "none"
BY NoCheckTyped DEF TypeOK

(* Everybody is signed out, or the saved session alone is left.              *)
LEMMA SignedOut ==
  ASSUME Inv, Shown(Nobody, Nobody), sessionUser' = Nobody, stored' \in {stored, Nobody},
         \A j \in Check : check'[j] = check[j] \/ check'[j].at = "none",
         crossed' = crossed, remembered' = remembered, snapshot' \in {snapshot, Nothing}
  PROVE  /\ AccessInv'
         /\ screen' \in Somebody /\ sessionUser' \in Somebody /\ stored' \in Somebody
         /\ access' \in Kept /\ snapshot' \in Kept
<1>1. screen' = Nobody /\ access' = [user |-> Nobody, of |-> Nobody]
  BY DEF Shown
<1>2. stored \in Somebody /\ snapshot \in Kept /\ Nobody \in Somebody /\ Nothing \in Kept
  BY DEF Inv, TypeOK, Somebody, Nothing, Kept
<1>3. access' \in Kept /\ access'.of = Nobody
  BY <1>1, <1>2 DEF Kept
<1>4. AccessInv'
  <2> SUFFICES ASSUME ~crossed' PROVE AccessInv'
    BY DEF AccessInv
  <2>1. OneAccount'
    BY <1>1, <1>2 DEF OneAccount
  <2>2. \A j \in Check : check'[j].at # "none" => check'[j].user = check'[j].token
    BY DEF Inv, AccessInv
  <2>3. \A r \in remembered' \cup {snapshot'} : r.user = r.of
    BY DEF Inv, AccessInv, Nothing
  <2> QED BY <1>3, <2>1, <2>2, <2>3 DEF AccessInv
<1> QED BY <1>1, <1>2, <1>3, <1>4

LEMMA AskStatusInv ==
  ASSUME Inv, NEW i \in Check, AskStatus(i)
  PROVE  Inv'
<1>1. /\ UNCHANGED <<inFlight, active, cancelled, callbacks, queued, handling, completed, opened,
                     pending, snared, rename, logout, restarts, valid, crossed, snapshot,
                     remembered>>
      /\ \/ /\ sessionUser # Nobody /\ stored # Nobody
            /\ check' = [check EXCEPT ![i] = [at |-> "sent", user |-> sessionUser, token |-> stored]]
            /\ UNCHANGED <<sessionUser, stored, screen, access>>
         \/ /\ stored' \in {stored, Nobody} /\ sessionUser' = Nobody /\ Shown(Nobody, Nobody)
            /\ UNCHANGED check
  BY DEF AskStatus, CheckRest, loginVars
<1>2. LoginInv'
  BY <1>1, LoginStands DEF Inv
<1>3. CASE /\ sessionUser # Nobody /\ stored # Nobody
           /\ check' = [check EXCEPT ![i] = [at |-> "sent", user |-> sessionUser, token |-> stored]]
           /\ UNCHANGED <<sessionUser, stored, screen, access>>
  <2> DEFINE c == [at |-> "sent", user |-> sessionUser, token |-> stored]
  <2>1. /\ c \in [at : {"none", "sent", "again"}, user : Somebody, token : Somebody]
        /\ c.user = sessionUser /\ c.token = stored
    BY DEF Inv, TypeOK
  <2>2. check' = [check EXCEPT ![i] = c]
    BY <1>3
  <2> HIDE DEF c
  <2>3. TypeOK'
    BY <1>1, <1>3, <2>1, <2>2 DEF Inv, TypeOK
  <2>4. AccessInv'
    <3> SUFFICES ASSUME ~crossed' PROVE AccessInv'
      BY DEF AccessInv
    <3>1. OneAccount /\ sessionUser = stored
      BY <1>1, <1>3 DEF Inv, AccessInv, OneAccount
    <3>2. \A j \in Check : check'[j].at # "none" => check'[j].user = check'[j].token
      BY <1>1, <2>1, <2>2, <3>1 DEF Inv, TypeOK, AccessInv
    <3> QED BY <1>1, <1>3, <3>1, <3>2 DEF Inv, AccessInv, OneAccount
  <2> QED BY <1>2, <2>3, <2>4 DEF Inv
<1>4. CASE /\ stored' \in {stored, Nobody} /\ sessionUser' = Nobody /\ Shown(Nobody, Nobody)
           /\ UNCHANGED check
  <2>1. /\ AccessInv'
        /\ screen' \in Somebody /\ sessionUser' \in Somebody /\ stored' \in Somebody
        /\ access' \in Kept
    BY <1>1, <1>4, SignedOut
  <2>2. TypeOK'
    BY <1>1, <1>4, <2>1 DEF Inv, TypeOK
  <2> QED BY <1>2, <2>1, <2>2 DEF Inv
<1> QED BY <1>1, <1>3, <1>4

LEMMA StatusAnsweredInv ==
  ASSUME Inv, NEW i \in Check, StatusAnswered(i)
  PROVE  Inv'
<1> DEFINE u == check[i].user
           of == check[i].token
           r == [user |-> u, of |-> of]
<1>1. /\ UNCHANGED <<inFlight, active, cancelled, callbacks, queued, handling, completed, opened,
                     pending, snared, rename, logout, restarts, valid, snapshot, sessionUser,
                     stored>>
      /\ check[i].at # "none" /\ check' = [check EXCEPT ![i] = NoCheck]
      /\ screen' = u /\ access' = r /\ remembered' = remembered \cup {r}
      /\ crossed' = (crossed \/ Foreign(u))
  BY DEF StatusAnswered, CheckRest, loginVars, Shown, Remembered
<1>2. u \in Somebody /\ of \in Somebody
  BY CheckTypes DEF Inv
<1>3. r \in Kept /\ r.user = u /\ r.of = of
  BY <1>2 DEF Kept
<1>4. ~crossed /\ check[i].at # "none" => u = of
  BY DEF Inv, AccessInv
<1> HIDE DEF u, of, r
<1>5. crossed' \in BOOLEAN /\ (~crossed' => ~crossed /\ ~Foreign(u))
  BY Zenon, <1>1
<1>6. LoginInv'
  BY <1>1, LoginStands DEF Inv
<1>7. TypeOK'
  BY <1>1, <1>2, <1>3, <1>5, CheckOver DEF Inv, TypeOK
<1>8. AccessInv'
  <2> SUFFICES ASSUME ~crossed' PROVE AccessInv'
    BY DEF AccessInv
  <2>1. OneAccount'
    BY <1>1, <1>2, <1>5 DEF Foreign, OneAccount
  <2>2. \A j \in Check : check'[j].at # "none" => check'[j].user = check'[j].token
    BY <1>1, <1>5, CheckOver DEF Inv, AccessInv
  <2> QED BY <1>1, <1>3, <1>4, <1>5, <2>1, <2>2 DEF Inv, AccessInv
<1> QED BY <1>6, <1>7, <1>8 DEF Inv

LEMMA StatusRefusedInv ==
  ASSUME Inv, NEW i \in Check, StatusRefused(i)
  PROVE  Inv'
<1>1. /\ UNCHANGED <<inFlight, active, cancelled, callbacks, queued, handling, completed, opened,
                     pending, snared, rename, logout, restarts, valid, snapshot, remembered>>
      /\ check[i].at # "none"
      /\ \/ /\ stored \in valid
            /\ check' = [check EXCEPT ![i].at = "again", ![i].token = stored]
            /\ crossed' = (crossed \/ Foreign(check[i].user))
            /\ UNCHANGED <<sessionUser, stored, screen, access>>
         \/ Invalid(i) /\ UNCHANGED crossed
  BY DEF StatusRefused, CheckRest, loginVars
<1>2. LoginInv'
  BY <1>1, LoginStands DEF Inv
<1>3. CASE /\ stored \in valid
           /\ check' = [check EXCEPT ![i].at = "again", ![i].token = stored]
           /\ crossed' = (crossed \/ Foreign(check[i].user))
           /\ UNCHANGED <<sessionUser, stored, screen, access>>
  <2>1. crossed' \in BOOLEAN /\ (~crossed' => ~crossed /\ ~Foreign(check[i].user))
    BY Zenon, <1>3
  <2>2. /\ check'[i].at = "again" /\ check'[i].user = check[i].user /\ check'[i].token = stored
        /\ \A j \in Check : j # i => check'[j] = check[j]
        /\ check' \in [Check -> [at : {"none", "sent", "again"}, user : Somebody, token : Somebody]]
    BY <1>3 DEF Inv, TypeOK
  <2>3. TypeOK'
    BY <1>1, <1>3, <2>1, <2>2 DEF Inv, TypeOK
  <2>4. AccessInv'
    <3> SUFFICES ASSUME ~crossed' PROVE AccessInv'
      BY DEF AccessInv
    <3>1. stored = check[i].user
      BY <1>3, <2>1, SessionAssumption DEF Foreign, Inv, TypeOK
    <3>2. \A j \in Check : check'[j].at # "none" => check'[j].user = check'[j].token
      BY <2>1, <2>2, <3>1 DEF Inv, AccessInv
    <3> QED BY <1>1, <1>3, <2>1, <3>2 DEF Inv, AccessInv, OneAccount
  <2> QED BY <1>2, <2>3, <2>4 DEF Inv
<1>4. CASE Invalid(i) /\ UNCHANGED crossed
  <2>1. /\ check' = [check EXCEPT ![i] = NoCheck] /\ stored' = Nobody /\ sessionUser' = Nobody
        /\ Shown(Nobody, Nobody)
    BY <1>4 DEF Invalid
  <2>2. /\ check' \in [Check -> [at : {"none", "sent", "again"}, user : Somebody, token : Somebody]]
        /\ \A j \in Check : check'[j] = check[j] \/ check'[j].at = "none"
    BY <2>1, CheckOver DEF Inv
  <2>3. /\ AccessInv'
        /\ screen' \in Somebody /\ sessionUser' \in Somebody /\ stored' \in Somebody
        /\ access' \in Kept
    BY <1>1, <1>4, <2>1, <2>2, SignedOut
  <2>4. TypeOK'
    BY <1>1, <1>4, <2>2, <2>3 DEF Inv, TypeOK
  <2> QED BY <1>2, <2>3, <2>4 DEF Inv
<1> QED BY <1>1, <1>3, <1>4

LEMMA StatusUnavailableInv ==
  ASSUME Inv, NEW i \in Check, StatusUnavailable(i)
  PROVE  Inv'
<1>1. /\ UNCHANGED <<inFlight, active, cancelled, callbacks, queued, handling, completed, opened,
                     pending, snared, rename, logout, restarts, valid, crossed, snapshot,
                     remembered, sessionUser, stored>>
      /\ check' = [check EXCEPT ![i] = NoCheck]
      /\ IF sessionUser = Nobody THEN UNCHANGED <<screen, access>>
         ELSE /\ screen' = sessionUser
              /\ access' = [user |-> sessionUser, of |-> LastKnown(sessionUser)]
  BY DEF StatusUnavailable, CheckRest, loginVars, Shown
<1>2. LoginInv'
  BY <1>1, LoginStands DEF Inv
<1>3. /\ check' \in [Check -> [at : {"none", "sent", "again"}, user : Somebody, token : Somebody]]
      /\ \A j \in Check : check'[j] = check[j] \/ check'[j].at = "none"
  BY <1>1, CheckOver DEF Inv
<1>4. LastKnown(sessionUser) \in Somebody
  BY DEF Inv, TypeOK, LastKnown, Kept, Somebody
<1>5. ~crossed => LastKnown(sessionUser) \in {sessionUser, Nobody}
  BY DEF Inv, AccessInv, LastKnown
<1>6. /\ screen' \in Somebody /\ access' \in Kept
      /\ sessionUser # Nobody => access'.user = screen' /\ access'.of = LastKnown(sessionUser)
  BY <1>1, <1>4 DEF Inv, TypeOK, Kept
<1>7. TypeOK'
  BY <1>1, <1>3, <1>6 DEF Inv, TypeOK
<1>8. AccessInv'
  <2> SUFFICES ASSUME ~crossed' PROVE AccessInv'
    BY DEF AccessInv
  <2>1. OneAccount' /\ access'.of \in {access'.user, Nobody} /\ access'.of \in {screen', Nobody}
    BY <1>1, <1>5, <1>6 DEF Inv, AccessInv, OneAccount
  <2> QED BY <1>1, <1>3, <2>1 DEF Inv, AccessInv
<1> QED BY <1>2, <1>7, <1>8 DEF Inv

LEMMA RememberInv ==
  ASSUME Inv, NEW r \in remembered, Remember(r)
  PROVE  Inv'
<1>1. /\ UNCHANGED <<inFlight, active, cancelled, callbacks, queued, handling, completed, opened,
                     pending, snared, rename, logout, restarts, valid, crossed, check, access,
                     sessionUser, stored, screen>>
      /\ remembered' = remembered \ {r} /\ snapshot' \in {r, snapshot}
  BY DEF Remember, CheckRest, loginVars
<1>2. LoginInv'
  BY <1>1, LoginStands DEF Inv
<1>3. TypeOK'
  BY <1>1 DEF Inv, TypeOK
<1>4. AccessInv'
  BY <1>1 DEF Inv, AccessInv, OneAccount
<1> QED BY <1>2, <1>3, <1>4 DEF Inv

-----------------------------------------------------------------------------
LEMMA LogoutInv == Inv /\ Logout => Inv'
<1> SUFFICES ASSUME Inv, Logout PROVE Inv'
  OBVIOUS
<1>1. /\ UNCHANGED <<inFlight, active, cancelled, callbacks, queued, handling, completed, opened,
                     pending, snared, check, rename, snapshot, remembered, access, sessionUser,
                     stored, valid, screen, restarts, crossed>>
      /\ logout' = "asked"
  BY DEF Logout, loginVars, checkVars
<1> QED BY <1>1, LoginStands, AccessStands DEF Inv, TypeOK

LEMMA LogoutSignedInv == Inv /\ LogoutSigned => Inv'
<1> SUFFICES ASSUME Inv, LogoutSigned PROVE Inv'
  OBVIOUS
<1>1. /\ UNCHANGED <<inFlight, active, cancelled, callbacks, queued, handling, completed, opened,
                     pending, snared, check, rename, snapshot, remembered, access, sessionUser,
                     screen, restarts, crossed>>
      /\ logout' \in {"signed", "none"} /\ valid' \subseteq valid /\ stored' \in {stored, Nobody}
  BY DEF LogoutSigned, loginVars, checkVars
<1>2. LoginInv'
  BY <1>1, LoginStands DEF Inv
<1>3. TypeOK'
  BY <1>1, NoCheckTyped DEF Inv, TypeOK
<1>4. AccessInv'
  BY <1>1 DEF Inv, AccessInv, OneAccount
<1> QED BY <1>2, <1>3, <1>4 DEF Inv

LEMMA LogoutEndsInv == Inv /\ LogoutEnds => Inv'
<1> SUFFICES ASSUME Inv, LogoutEnds PROVE Inv'
  OBVIOUS
<1>1. /\ UNCHANGED <<inFlight, active, cancelled, callbacks, queued, handling, completed, opened,
                     pending, snared, check, rename, remembered, stored, valid, restarts, crossed>>
      /\ logout' = "none" /\ snapshot' = Nothing /\ sessionUser' = Nobody /\ Shown(Nobody, Nobody)
  BY DEF LogoutEnds, loginVars
<1>2. LoginInv'
  BY <1>1, LoginStands DEF Inv
<1>3. /\ AccessInv'
      /\ screen' \in Somebody /\ sessionUser' \in Somebody /\ access' \in Kept
      /\ snapshot' \in Kept
  BY <1>1, SignedOut
<1>4. TypeOK'
  BY <1>1, <1>3 DEF Inv, TypeOK
<1> QED BY <1>2, <1>3, <1>4 DEF Inv

LEMMA AskRenameInv == Inv /\ AskRename => Inv'
<1> SUFFICES ASSUME Inv, AskRename PROVE Inv'
  OBVIOUS
<1>1. /\ UNCHANGED <<inFlight, active, cancelled, callbacks, queued, handling, completed, opened,
                     pending, snared, check, snapshot, remembered, access, sessionUser, stored,
                     valid, logout, screen, restarts, crossed>>
      /\ rename' = sessionUser
  BY DEF AskRename, loginVars
<1> QED BY <1>1, LoginStands, AccessStands DEF Inv, TypeOK

(* The answer of a rename signs its account in over nobody, or it crosses.   *)
LEMMA RenameEndsInv == Inv /\ RenameEnds => Inv'
<1> SUFFICES ASSUME Inv, RenameEnds PROVE Inv'
  OBVIOUS
<1>1. /\ UNCHANGED <<inFlight, active, cancelled, callbacks, queued, handling, completed, opened,
                     pending, snared, check, snapshot, remembered, stored, valid, logout, restarts>>
      /\ rename' = Nobody
      /\ \/ /\ sessionUser' = rename /\ screen' = rename
            /\ access' = [access EXCEPT !.user = rename]
            /\ crossed' = (crossed \/ Foreign(rename))
         \/ UNCHANGED <<sessionUser, screen, access, crossed>>
  BY DEF RenameEnds, loginVars
<1>2. LoginInv'
  BY <1>1, LoginStands DEF Inv
<1>3. CASE UNCHANGED <<sessionUser, screen, access, crossed>>
  BY <1>1, <1>2, <1>3, AccessStands, NoCheckTyped DEF Inv, TypeOK
<1>4. CASE /\ sessionUser' = rename /\ screen' = rename
           /\ access' = [access EXCEPT !.user = rename]
           /\ crossed' = (crossed \/ Foreign(rename))
  <2>1. crossed' \in BOOLEAN /\ (~crossed' => ~crossed /\ ~Foreign(rename))
    BY Zenon, <1>4
  <2>2. access' \in Kept /\ access'.user = rename /\ access'.of = access.of
    BY <1>4 DEF Inv, TypeOK, Kept
  <2>3. TypeOK'
    BY <1>1, <1>4, <2>1, <2>2, NoCheckTyped DEF Inv, TypeOK
  <2>4. AccessInv'
    <3> SUFFICES ASSUME ~crossed' PROVE AccessInv'
      BY DEF AccessInv
    <3>1. screen \in {rename, Nobody} /\ stored \in {rename, Nobody} /\ rename \in Somebody
      BY <2>1 DEF Foreign, Inv, TypeOK
    <3>2. OneAccount'
      BY <1>1, <1>4, <3>1 DEF OneAccount
    <3> QED BY <1>1, <1>4, <2>1, <2>2, <3>1, <3>2 DEF Inv, AccessInv
  <2> QED BY <1>2, <2>3, <2>4 DEF Inv
<1> QED BY <1>1, <1>3, <1>4

LEMMA RevokeInv ==
  ASSUME Inv, NEW u \in User, Revoke(u)
  PROVE  Inv'
<1>1. /\ UNCHANGED <<inFlight, active, cancelled, callbacks, queued, handling, completed, opened,
                     pending, snared, check, rename, snapshot, remembered, access, sessionUser,
                     stored, logout, screen, restarts, crossed>>
      /\ valid' = valid \ {u}
  BY DEF Revoke, loginVars, checkVars
<1> QED BY <1>1, LoginStands, AccessStands DEF Inv, TypeOK

(* A new process waits for nothing and knows the saved session's account.    *)
LEMMA RestartInv == Inv /\ Restart => Inv'
<1> SUFFICES ASSUME Inv, Restart PROVE Inv'
  OBVIOUS
<1>1. PICK u \in Restored : sessionUser' = u /\ screen' = u /\ access' = [user |-> u, of |-> Nobody]
  BY DEF Restart, Shown
<1>2. /\ restarts < MaxRestarts /\ restarts' = restarts + 1
      /\ inFlight' = FALSE /\ active' = NoFlow /\ cancelled' = {} /\ callbacks' = <<>>
      /\ handling' = NoCallback /\ completed' = {} /\ pending' = FALSE
      /\ check' = [i \in Check |-> NoCheck] /\ logout' = "none" /\ rename' = Nobody
      /\ remembered' = {}
      /\ UNCHANGED <<queued, opened, snared, stored, valid, snapshot, crossed>>
  BY DEF Restart
<1>3. u \in {stored, Nobody} /\ u \in Somebody
  BY DEF Restored, Confirmed, Unconfirmed, Inv, TypeOK, Somebody
<1>4. access' \in Kept /\ access'.of = Nobody
  BY <1>1, <1>3, NoCheckTyped DEF Kept
<1>5. inFlight' \in BOOLEAN /\ pending' \in BOOLEAN /\ ~inFlight' /\ ~pending'
  BY Zenon, <1>2
<1>6. NoCallback \in [flow : Flow \cup {NoFlow}, owns : BOOLEAN]
  BY DEF NoCallback
<1>7. TypeOK'
  BY <1>1, <1>2, <1>3, <1>4, <1>5, <1>6, NoCheckTyped, SessionAssumption DEF Inv, TypeOK
<1>8. LoginInv'
  BY <1>2, <1>5 DEF LoginInv, LoginEnds
<1>9. AccessInv'
  <2> SUFFICES ASSUME ~crossed' PROVE AccessInv'
    BY DEF AccessInv
  <2>1. OneAccount'
    <3>1. stored' \in Somebody /\ {screen', sessionUser', stored'} \subseteq {stored', Nobody}
      BY <1>1, <1>2, <1>3 DEF Inv, TypeOK
    <3> QED BY <3>1 DEF OneAccount
  <2>2. \A j \in Check : check'[j].at = "none"
    BY <1>2, NoCheckTyped
  <2> QED BY <1>2, <1>4, <2>1, <2>2 DEF Inv, AccessInv
<1> QED BY <1>7, <1>8, <1>9 DEF Inv

-----------------------------------------------------------------------------
LEMMA InitInv == Init => Inv
<1> SUFFICES ASSUME Init PROVE Inv
  OBVIOUS
<1>1. inFlight \in BOOLEAN /\ pending \in BOOLEAN /\ snared \in BOOLEAN /\ crossed \in BOOLEAN
      /\ ~inFlight /\ ~pending
  BY Zenon DEF Init
<1>2. /\ Nobody \in Somebody /\ Nothing \in Kept /\ Nothing.user = Nothing.of /\ Nothing.of = Nobody
      /\ NoCallback \in [flow : Flow \cup {NoFlow}, owns : BOOLEAN]
  BY DEF Somebody, Nothing, Kept, NoCallback
<1>3. TypeOK
  BY <1>1, <1>2, NoCheckTyped, SessionAssumption DEF Init, TypeOK
<1>4. LoginInv
  BY <1>1 DEF Init, LoginInv, LoginEnds
<1>5. AccessInv
  BY <1>2, NoCheckTyped DEF Init, AccessInv, OneAccount
<1> QED BY <1>3, <1>4, <1>5 DEF Inv

LEMMA StepInv == Inv /\ [Next]_vars => Inv'
<1> SUFFICES ASSUME Inv, [Next]_vars PROVE Inv'
  OBVIOUS
<1>1. CASE LoginNext
  BY <1>1, StartLoginInv, CallbacksInv, CancelLoginInv, TakeCallbackInv, ExchangeFailsInv,
     SignInInv DEF LoginNext
<1>2. ASSUME NEW i \in Check,
             AskStatus(i) \/ StatusAnswered(i) \/ StatusRefused(i) \/ StatusUnavailable(i)
      PROVE  Inv'
  BY <1>2, AskStatusInv, StatusAnsweredInv, StatusRefusedInv, StatusUnavailableInv
<1>3. CASE CheckNext
  BY <1>2, <1>3, RememberInv, LogoutInv, LogoutSignedInv, LogoutEndsInv, AskRenameInv,
     RenameEndsInv, RevokeInv, RestartInv DEF CheckNext
<1>4. CASE UNCHANGED vars
  <2>1. UNCHANGED <<inFlight, active, cancelled, callbacks, queued, handling, completed, opened,
                    pending, snared, check, rename, snapshot, remembered, access, sessionUser,
                    stored, valid, logout, screen, restarts, crossed>>
    BY <1>4 DEF vars, loginVars, checkVars
  <2> QED BY <2>1, LoginStands, AccessStands DEF Inv, TypeOK
<1> QED BY <1>1, <1>3, <1>4 DEF Next

LEMMA SpecInv == Spec => []Inv
BY InitInv, StepInv, PTL DEF Spec

-----------------------------------------------------------------------------
(* Every variable of the session keeps its range (supabase-auth.ts, index.ts, *)
(* offline-access.ts).                                                        *)
THEOREM TypeCorrect == Spec => []TypeOK
<1>1. Inv => TypeOK
  BY DEF Inv
<1> QED BY <1>1, SpecInv, PTL

(* A login the screen waits for is in flight and can be cancelled, unless a   *)
(* failed callback of another one ended it silently (cancelPendingLogin).     *)
THEOREM LoginsEnd == Spec => []LoginEnds
<1>1. Inv => LoginEnds
  BY DEF Inv, LoginInv
<1> QED BY <1>1, SpecInv, PTL

(* The access shown for an account is the one the server gave it, in outages  *)
(* and over restarts, until one account came over another                     *)
(* (accessDuringOutage, rememberAccess).                                      *)
THEOREM AccessIsOwn == Spec => []OwnAccess
<1>1. Inv => OwnAccess
  BY DEF Inv, AccessInv, OwnAccess
<1> QED BY <1>1, SpecInv, PTL

=============================================================================
