---------------------------- MODULE LaunchProofs ----------------------------
(***************************************************************************)
(* What the install move keeps, and what launches keep of the pack and of  *)
(* their tokens, for any folders and any number of launches, sign-ins,     *)
(* moves and failures.                                                     *)
(***************************************************************************)
EXTENDS Launch, TLAPS

Whole(l, e) == files[l][e] = "whole"

\* Phase by phase, where each folder is complete and what the old location may still have.
RenamePhase == \A e \in Entry :
  IF e \in move.todo
  THEN e \notin move.done /\ Whole(move.from, e) /\ files[Other(move.from)][e] = "none"
  ELSE files[move.from][e] = "none" /\ Whole(Other(move.from), e)

BackPhase == \A e \in Entry :
  IF e \in move.done THEN files[move.from][e] = "none" /\ Whole(Other(move.from), e)
  ELSE Whole(move.from, e) \/ Whole(Other(move.from), e)

CopyPhase == \A e \in Entry :
  /\ e \in move.todo => Whole(move.from, e)
  /\ e \in move.todo /\ e \notin move.done => files[Other(move.from)][e] = "none"
  /\ e \notin move.todo => Whole(Other(move.from), e)
  /\ e \notin move.todo => Whole(move.from, e) \/ e \notin move.done
  /\ e \in move.todo \cup move.done \/ files[move.from][e] = "none"

UndoPhase == \A e \in Entry :
  \/ Whole(move.from, e)
  \/ e \notin move.done /\ Whole(Other(move.from), e)

ArrivedPhase == \A e \in Entry : Whole(Other(move.from), e)

\* While nothing was broken, everything was at the location the move began from.
NothingBroken ==
  /\ move.pc = "none" => \A e \in Entry : Whole(root, e)
  /\ move.pc \in {"rename", "copy"} => move.todo \cup move.done = Entry
  /\ move.pc = "back" => \A e \in Entry : e \notin move.done => Whole(move.from, e)
  /\ move.pc = "undo" => \A e \in Entry : Whole(move.from, e)

MoveInv ==
  /\ MoveTypeOK
  /\ NothingLost
  /\ move.pc \in Phase \ {"none", "remove"} => root = move.from
  /\ move.pc = "remove" => root = Other(move.from)
  /\ move.pc = "rename" => RenamePhase /\ ~move.copied
  /\ move.pc = "back" => BackPhase
  /\ move.pc = "copy" => CopyPhase
  /\ move.pc = "undo" => UndoPhase
  /\ move.pc \in {"moved", "remove"} => ArrivedPhase
  /\ ~broken => NothingBroken

-----------------------------------------------------------------------------
Handling(r) == pc[r] \in {"leftover", "manifest", "files", "content", "install"}

\* Only the newest launch has a handler before its game, or a game.
NewestHandles == \A r \in Run :
  /\ r > runId => pc[r] = "none"
  /\ pc[r] = "none" => proc[r] = "none"
  /\ Handling(r) => r = runId /\ state = "starting" /\ proc[r] = "none"
  /\ proc[r] = "alive" => r = runId /\ state # "idle" /\ pc[r] \in {"spawned", "done"}

\* A job still runs only in its own launch's wait or as the one thing left over.
JobsWaitedFor == \A r \in Run : jobs[r] # {} =>
  \/ pc[r] = "files"
  \/ /\ pc[r] = "done" /\ leftover = r
     /\ \A q \in Run : proc[q] # "alive" /\ (Handling(q) => pc[q] = "leftover")

HandlerInv == NewestHandles /\ JobsWaitedFor

\* The session a call was made with is one there was; the present one is the last.
SessionsGrow ==
  /\ session \in {0, sessions}
  /\ \A r \in Run : /\ ticket[r] <= sessions
                    /\ auth[r] # "none" => ticket[r] # 0
                    /\ pc[r] = "spawned" \/ proc[r] # "none" => auth[r] = "ready"
                    /\ pc[r] \in {"none", "leftover", "manifest"} => auth[r] = "none"
                    /\ pc[r] \in {"files", "content", "install"} => auth[r] # "none"

OnItsWay(r) == auth[r] \in {"sent", "retired", "issued", "got"}

\* A call of the present session whose launch is over is going to be retired.
CallsRetired == \A r \in Run :
  OnItsWay(r) /\ ticket[r] = session /\ pc[r] = "done" => r \in retires

\* What is still to retire a token of the present session.
ToBeRetired(t) ==
  \/ revokes[session] > 0
  \/ pc[t.run] \in {"files", "content", "install"}
  \/ proc[t.run] = "alive"
  \/ auth[t.run] \in {"issued", "got"} /\ t.run \in retires

TokensRetired == \A t \in tokens :
  /\ t.session = ticket[t.run]
  /\ auth[t.run] \in {"issued", "got", "ready", "failed"}
  /\ t.run \notin kept => auth[t.run] # "failed"
  /\ Works(t) /\ t.run \notin kept => ToBeRetired(t)

TokenInv == SessionsGrow /\ CallsRetired /\ TokensRetired

Inv == TypeOK /\ MoveInv /\ HandlerInv /\ TokenInv

-----------------------------------------------------------------------------
(* The bounds are numbers, and the first session is within its bound.        *)
LEMMA Bounds ==
  /\ MaxMoves \in Nat /\ MaxMishaps \in Nat
  /\ MaxRuns \in Nat /\ MaxSessions \in Nat \ {0} /\ MaxFailures \in Nat
  /\ NoRun \notin Run
BY MoveAssumption, LaunchAssumption DEF Run

USE Bounds

(* There are two locations. *)
LEMMA OtherLocation ==
  ASSUME NEW l \in Location
  PROVE  Other(l) \in Location /\ Other(l) # l /\ Other(Other(l)) = l
<1>1. \A k \in Location : \E m \in Location : m # k
  BY DEF Location
<1>2. \A k \in Location : Other(k) \in Location /\ Other(k) # k
  BY <1>1 DEF Other
<1> QED BY <1>2 DEF Location

LEMMA MoveInitInv == MoveInit => MoveInv
<1> SUFFICES ASSUME MoveInit PROVE MoveInv
  OBVIOUS
<1>1. MoveTypeOK
  <2>1. root \in Location
    BY DEF MoveInit, Location
  <2>2. files \in [Location -> [Entry -> {"none", "part", "whole"}]]
    BY DEF MoveInit
  <2>3. move \in [pc : Phase, from : Location, todo : SUBSET Entry, done : SUBSET Entry,
                  copied : BOOLEAN]
    BY DEF MoveInit, NoMove, Phase, Location
  <2>4. moves \in 0..MaxMoves /\ mishaps \in 0..MaxMishaps
    BY DEF MoveInit
  <2>5. broken \in BOOLEAN
    BY Zenon DEF MoveInit
  <2> QED BY <2>1, <2>2, <2>3, <2>4, <2>5 DEF MoveTypeOK
<1>2. \A e \in Entry : Whole("here", e)
  BY DEF MoveInit, Whole, Location
<1>3. NothingLost
  BY <1>2 DEF NothingLost, Whole, Location
<1> QED BY <1>1, <1>2, <1>3 DEF MoveInit, NoMove, MoveInv, NothingBroken, Whole

LEMMA MoveStartInv == MoveInv /\ MoveStart => MoveInv'
<1> SUFFICES ASSUME MoveInv, MoveStart PROVE MoveInv'
  OBVIOUS
<1>1. /\ move.pc = "none" /\ moves' = moves + 1 /\ moves < MaxMoves
      /\ UNCHANGED <<root, files, mishaps, broken>>
      /\ Present(root) \cap Present(Other(root)) = {}
  BY DEF MoveStart
<1>2. PICK p \in {"rename", "copy"} :
        move' = [pc |-> p, from |-> root, todo |-> Present(root), done |-> {}, copied |-> p = "copy"]
  BY DEF MoveStart
<1>3. root \in Location /\ Other(root) \in Location /\ Present(root) \subseteq Entry
  BY OtherLocation DEF MoveInv, MoveTypeOK, Present
<1>4. MoveTypeOK'
  BY <1>1, <1>2, <1>3 DEF MoveInv, MoveTypeOK, Phase
<1>5. NothingLost'
  BY <1>1 DEF MoveInv, NothingLost
<1>6. \A e \in Entry : IF e \in Present(root) THEN Whole(root, e) /\ files[Other(root)][e] = "none"
                       ELSE files[root][e] = "none" /\ Whole(Other(root), e)
  <2> TAKE e \in Entry
  <2>1. Whole(root, e) \/ Whole(Other(root), e)
    BY <1>3, OtherLocation DEF MoveInv, NothingLost, Whole, Location
  <2> QED BY <2>1, <1>1, <1>3 DEF Present, Whole
<1>7. p = "rename" => RenamePhase'
  BY <1>1, <1>2, <1>6 DEF RenamePhase, Whole
<1>8. p = "copy" => CopyPhase'
  BY <1>1, <1>2, <1>6 DEF CopyPhase, Whole
<1>9. ~broken => Present(root) = Entry
  BY <1>1, <1>3 DEF MoveInv, NothingBroken, Present, Whole
<1> QED BY <1>1, <1>2, <1>3, <1>4, <1>5, <1>7, <1>8, <1>9 DEF MoveInv, NothingBroken, Phase

LEMMA RenameInv ==
  ASSUME MoveInv, NEW e \in Entry, Rename(e)
  PROVE  MoveInv'
<1> DEFINE old == move.from
           new == Other(move.from)
<1>1. /\ move.pc = "rename" /\ e \in move.todo
      /\ files' = [files EXCEPT ![old][e] = "none", ![new][e] = files[old][e]]
      /\ move' = [move EXCEPT !.todo = @ \ {e}, !.done = @ \cup {e}]
      /\ UNCHANGED <<root, moves, mishaps, broken>>
  BY DEF Rename, RenameEntry
<1>2. old \in Location /\ new \in Location /\ new # old
  BY OtherLocation DEF MoveInv, MoveTypeOK
<1>3. MoveTypeOK /\ RenamePhase /\ Whole(old, e) /\ root = old
  BY <1>1 DEF MoveInv, RenamePhase, Phase
<1>4. MoveTypeOK'
  BY <1>1, <1>2, <1>3 DEF MoveTypeOK, Whole
<1>5. /\ files'[old][e] = "none" /\ files'[new][e] = "whole"
      /\ \A l \in Location, d \in Entry : d # e => files'[l][d] = files[l][d]
  BY <1>1, <1>2, <1>3 DEF MoveTypeOK, Whole
<1>6. /\ move'.pc = "rename" /\ move'.from = old /\ move'.copied = move.copied
      /\ move'.todo = move.todo \ {e} /\ move'.done = move.done \cup {e}
  BY <1>1, <1>3 DEF MoveTypeOK
<1>7. NothingLost'
  BY <1>2, <1>5 DEF MoveInv, NothingLost
<1>8. RenamePhase'
  BY <1>2, <1>3, <1>5, <1>6 DEF RenamePhase, Whole
<1>9. ~broken' => NothingBroken'
  BY <1>1, <1>6 DEF MoveInv, NothingBroken
<1> QED BY <1>1, <1>3, <1>4, <1>6, <1>7, <1>8, <1>9 DEF MoveInv

LEMMA RenameFailsInv == MoveInv /\ RenameFails => MoveInv'
<1> SUFFICES ASSUME MoveInv, RenameFails PROVE MoveInv'
  OBVIOUS
<1>1. /\ move.pc = "rename" /\ mishaps < MaxMishaps /\ mishaps' = mishaps + 1
      /\ UNCHANGED <<root, files, moves, broken>>
  BY DEF RenameFails, Mishap
<1>2. MoveTypeOK /\ RenamePhase /\ root = move.from
  BY <1>1 DEF MoveInv, Phase
<1>3. NothingLost'
  BY <1>1 DEF MoveInv, NothingLost
<1>4. CASE move' = [move EXCEPT !.pc = "back"]
  <2>1. MoveTypeOK'
    BY <1>1, <1>2, <1>4 DEF MoveTypeOK, Phase
  <2>2. /\ move'.pc = "back" /\ move'.from = move.from
        /\ move'.done = move.done /\ move'.todo = move.todo
    BY <1>2, <1>4 DEF MoveTypeOK
  <2>3. BackPhase'
    BY <1>1, <1>2, <2>2 DEF BackPhase, RenamePhase, Whole
  <2>4. ~broken' => NothingBroken'
    BY <1>1, <1>2, <2>2 DEF MoveInv, NothingBroken, RenamePhase, Whole
  <2> QED BY <1>1, <1>2, <1>3, <2>1, <2>2, <2>3, <2>4 DEF MoveInv
<1>5. CASE move.done = {} /\ move' = [move EXCEPT !.pc = "copy", !.copied = TRUE]
  <2> DEFINE Move == [pc : Phase, from : Location, todo : SUBSET Entry, done : SUBSET Entry,
                      copied : BOOLEAN]
  <2>a. \A m \in Move, p \in Phase, b \in BOOLEAN : [m EXCEPT !.pc = p, !.copied = b] \in Move
    OBVIOUS
  <2>b. move' \in Move
    <3>1. move \in Move /\ "copy" \in Phase /\ TRUE \in BOOLEAN
      BY <1>2 DEF MoveTypeOK, Phase
    <3> HIDE DEF Move
    <3> QED BY Zenon, <2>a, <3>1, <1>5
  <2>1. MoveTypeOK'
    BY <1>1, <1>2, <2>b DEF MoveTypeOK
  <2>2. /\ move'.pc = "copy" /\ move'.from = move.from
        /\ move'.done = {} /\ move'.todo = move.todo
    BY <1>2, <1>5 DEF MoveTypeOK
  <2>3. CopyPhase'
    BY <1>1, <1>2, <2>2 DEF CopyPhase, RenamePhase, Whole
  <2>4. ~broken' => NothingBroken'
    BY <1>1, <1>5, <2>2 DEF MoveInv, NothingBroken
  <2> QED BY <1>1, <1>2, <1>3, <2>1, <2>2, <2>3, <2>4 DEF MoveInv
<1> QED BY <1>4, <1>5 DEF RenameFails

LEMMA BackInv ==
  ASSUME MoveInv, NEW e \in Entry, Back(e)
  PROVE  MoveInv'
<1> DEFINE old == move.from
           new == Other(move.from)
<1>1. old \in Location /\ new \in Location /\ new # old /\ Other(new) = old
  BY OtherLocation DEF MoveInv, MoveTypeOK
<1>2. /\ move.pc = "back" /\ e \in move.done
      /\ files' = [files EXCEPT ![new][e] = "none", ![old][e] = files[new][e]]
      /\ move' = [move EXCEPT !.done = @ \ {e}]
      /\ UNCHANGED <<root, moves, mishaps, broken>>
  BY <1>1 DEF Back, RenameEntry
<1>3. MoveTypeOK /\ BackPhase /\ Whole(new, e) /\ root = old
  BY <1>2 DEF MoveInv, BackPhase, Phase
<1>4. MoveTypeOK'
  BY <1>1, <1>2, <1>3 DEF MoveTypeOK, Whole
<1>5. /\ files'[old][e] = "whole"
      /\ \A l \in Location, d \in Entry : d # e => files'[l][d] = files[l][d]
  BY <1>1, <1>2, <1>3 DEF MoveTypeOK, Whole
<1>6. move'.pc = "back" /\ move'.from = old /\ move'.done = move.done \ {e}
  BY <1>2, <1>3 DEF MoveTypeOK
<1>7. NothingLost'
  BY <1>1, <1>5 DEF MoveInv, NothingLost
<1>8. BackPhase'
  BY <1>1, <1>3, <1>5, <1>6 DEF BackPhase, Whole
<1>9. ~broken' => NothingBroken'
  BY <1>1, <1>2, <1>5, <1>6 DEF MoveInv, NothingBroken, Whole
<1> QED BY <1>2, <1>3, <1>4, <1>6, <1>7, <1>8, <1>9 DEF MoveInv

LEMMA CopyInv ==
  ASSUME MoveInv, NEW e \in Entry, Copy(e)
  PROVE  MoveInv'
<1> DEFINE old == move.from
           new == Other(move.from)
<1>1. old \in Location /\ new \in Location /\ new # old
  BY OtherLocation DEF MoveInv, MoveTypeOK
<1>2. /\ move.pc = "copy" /\ e \in move.todo
      /\ UNCHANGED <<root, moves, mishaps, broken>>
  BY DEF Copy
<1>3. MoveTypeOK /\ CopyPhase /\ Whole(old, e) /\ root = old
  BY <1>2 DEF MoveInv, CopyPhase, Phase
<1>4. CASE /\ files[new][e] = "none"
           /\ files' = [files EXCEPT ![new][e] = "part"]
           /\ move' = [move EXCEPT !.done = @ \cup {e}]
  <2>1. MoveTypeOK'
    BY <1>1, <1>2, <1>3, <1>4 DEF MoveTypeOK
  <2>2. /\ files'[new][e] = "part" /\ files'[old] = files[old]
        /\ \A d \in Entry : d # e => files'[new][d] = files[new][d]
    BY <1>1, <1>3, <1>4 DEF MoveTypeOK
  <2>3. /\ move'.pc = "copy" /\ move'.from = old /\ move'.todo = move.todo
        /\ move'.done = move.done \cup {e}
    BY <1>2, <1>3, <1>4 DEF MoveTypeOK
  <2>4. NothingLost'
    <3>1. \A d \in Entry : Whole(old, d) \/ Whole(new, d)
      BY <1>3 DEF CopyPhase
    <3>2. \A d \in Entry : files'[old][d] = "whole" \/ files'[new][d] = "whole"
      BY <1>3, <2>2, <3>1 DEF Whole
    <3> QED BY <1>1, <3>2 DEF NothingLost
  <2>5. CopyPhase'
    BY <1>2, <1>3, <2>2, <2>3 DEF CopyPhase, Whole
  <2>6. ~broken' => NothingBroken'
    BY <1>2, <2>3 DEF MoveInv, NothingBroken
  <2> QED BY <1>2, <1>3, <2>1, <2>3, <2>4, <2>5, <2>6 DEF MoveInv
<1>5. CASE /\ files[new][e] # "none"
           /\ files' = [files EXCEPT ![new][e] = files[old][e]]
           /\ move' = [move EXCEPT !.todo = @ \ {e}]
  <2>1. MoveTypeOK'
    BY <1>1, <1>2, <1>3, <1>5 DEF MoveTypeOK
  <2>2. /\ files'[new][e] = "whole" /\ files'[old] = files[old]
        /\ \A d \in Entry : d # e => files'[new][d] = files[new][d]
    BY <1>1, <1>3, <1>5 DEF MoveTypeOK, Whole
  <2>3. /\ move'.pc = "copy" /\ move'.from = old /\ move'.todo = move.todo \ {e}
        /\ move'.done = move.done
    BY <1>2, <1>3, <1>5 DEF MoveTypeOK
  <2>4. e \in move.done
    BY <1>2, <1>3, <1>5 DEF CopyPhase
  <2>5. NothingLost'
    BY <1>1, <2>2 DEF MoveInv, NothingLost, Location
  <2>6. CopyPhase'
    BY <1>2, <1>3, <2>2, <2>3, <2>4 DEF CopyPhase, Whole
  <2>7. ~broken' => NothingBroken'
    BY <1>2, <2>3, <2>4 DEF MoveInv, NothingBroken
  <2> QED BY <1>2, <1>3, <2>1, <2>3, <2>5, <2>6, <2>7 DEF MoveInv
<1> QED BY <1>4, <1>5 DEF Copy

LEMMA CopyFailsInv == MoveInv /\ CopyFails => MoveInv'
<1> SUFFICES ASSUME MoveInv, CopyFails PROVE MoveInv'
  OBVIOUS
<1>1. /\ move.pc = "copy" /\ mishaps < MaxMishaps /\ mishaps' = mishaps + 1
      /\ move' = [move EXCEPT !.pc = "undo"]
      /\ UNCHANGED <<root, files, moves, broken>>
  BY DEF CopyFails, Mishap
<1>2. MoveTypeOK /\ CopyPhase /\ root = move.from
  BY <1>1 DEF MoveInv, Phase
<1>3. MoveTypeOK'
  BY <1>1, <1>2 DEF MoveTypeOK, Phase
<1>4. move'.pc = "undo" /\ move'.from = move.from /\ move'.done = move.done
  BY <1>1, <1>2 DEF MoveTypeOK
<1>5. NothingLost'
  BY <1>1 DEF MoveInv, NothingLost
<1>6. UndoPhase'
  BY <1>1, <1>2, <1>4 DEF UndoPhase, CopyPhase, Whole
<1>7. ~broken' => NothingBroken'
  BY <1>1, <1>2, <1>4 DEF MoveInv, NothingBroken, CopyPhase, Whole
<1> QED BY <1>1, <1>2, <1>3, <1>4, <1>5, <1>6, <1>7 DEF MoveInv

LEMMA UndoInv ==
  ASSUME MoveInv, NEW e \in Entry, Undo(e)
  PROVE  MoveInv'
<1> DEFINE old == move.from
           new == Other(move.from)
<1>1. old \in Location /\ new \in Location /\ new # old
  BY OtherLocation DEF MoveInv, MoveTypeOK
<1>2. /\ move.pc = "undo" /\ e \in move.done
      /\ files' = [files EXCEPT ![new][e] = "none"]
      /\ move' = [move EXCEPT !.done = @ \ {e}]
      /\ UNCHANGED <<root, moves, mishaps, broken>>
  BY DEF Undo
<1>3. MoveTypeOK /\ UndoPhase /\ Whole(old, e) /\ root = old
  BY <1>2 DEF MoveInv, UndoPhase, Phase
<1>4. MoveTypeOK'
  BY <1>1, <1>2, <1>3 DEF MoveTypeOK
<1>5. /\ files'[old] = files[old]
      /\ \A d \in Entry : d # e => files'[new][d] = files[new][d]
  BY <1>1, <1>2, <1>3 DEF MoveTypeOK
<1>6. move'.pc = "undo" /\ move'.from = old /\ move'.done = move.done \ {e}
  BY <1>2, <1>3 DEF MoveTypeOK
<1>7. UndoPhase'
  BY <1>3, <1>5, <1>6 DEF UndoPhase, Whole
<1>8. NothingLost'
  BY <1>1, <1>6, <1>7 DEF UndoPhase, NothingLost, Whole
<1>9. ~broken' => NothingBroken'
  BY <1>1, <1>2, <1>5, <1>6 DEF MoveInv, NothingBroken, Whole
<1> QED BY <1>2, <1>3, <1>4, <1>6, <1>7, <1>8, <1>9 DEF MoveInv

LEMMA MoveFailedInv == MoveInv /\ MoveFailed => MoveInv'
<1> SUFFICES ASSUME MoveInv, MoveFailed PROVE MoveInv'
  OBVIOUS
<1>1. /\ move.pc \in {"back", "undo"} /\ move' = NoMove
      /\ UNCHANGED <<root, files, moves>>
      /\ \/ move.done = {} /\ UNCHANGED <<mishaps, broken>>
         \/ mishaps < MaxMishaps /\ mishaps' = mishaps + 1 /\ broken' = TRUE
  BY DEF MoveFailed, Mishap
<1>2. move'.pc = "none"
  BY <1>1 DEF NoMove
<1>3. root = move.from
  BY <1>1 DEF MoveInv, Phase
<1>4. MoveTypeOK'
  <2>1. move' \in [pc : Phase, from : Location, todo : SUBSET Entry, done : SUBSET Entry,
                   copied : BOOLEAN]
    BY <1>1 DEF NoMove, Phase, Location
  <2>2. root' \in Location /\ moves' \in 0..MaxMoves /\ mishaps' \in 0..MaxMishaps
    BY <1>1 DEF MoveInv, MoveTypeOK
  <2>3. broken' \in BOOLEAN
    BY Zenon, <1>1 DEF MoveInv, MoveTypeOK
  <2>4. files' \in [Location -> [Entry -> {"none", "part", "whole"}]]
    BY <1>1 DEF MoveInv, MoveTypeOK
  <2> QED BY <2>1, <2>2, <2>3, <2>4 DEF MoveTypeOK
<1>5. NothingLost'
  BY <1>1 DEF MoveInv, NothingLost
<1>6. ~broken' => \A e \in Entry : Whole(root, e)'
  BY <1>1, <1>3 DEF MoveInv, NothingBroken, Whole
<1> QED BY <1>2, <1>4, <1>5, <1>6 DEF MoveInv, NothingBroken, Phase

LEMMA MoveSucceedsInv == MoveInv /\ MoveSucceeds => MoveInv'
<1> SUFFICES ASSUME MoveInv, MoveSucceeds PROVE MoveInv'
  OBVIOUS
<1>1. /\ move.pc \in {"rename", "copy"} /\ move.todo = {}
      /\ move' = [move EXCEPT !.pc = "moved"]
      /\ UNCHANGED <<root, files, moves, mishaps, broken>>
  BY DEF MoveSucceeds
<1>2. MoveTypeOK'
  BY <1>1 DEF MoveInv, MoveTypeOK, Phase
<1>3. move'.pc = "moved" /\ move'.from = move.from /\ root = move.from
  BY <1>1 DEF MoveInv, MoveTypeOK, Phase
<1>4. ArrivedPhase'
  BY <1>1, <1>3 DEF MoveInv, ArrivedPhase, RenamePhase, CopyPhase, Whole
<1>5. NothingLost'
  BY <1>1 DEF MoveInv, NothingLost
<1> QED BY <1>1, <1>2, <1>3, <1>4, <1>5 DEF MoveInv, NothingBroken

LEMMA SaveInv == MoveInv /\ Save => MoveInv'
<1> SUFFICES ASSUME MoveInv, Save PROVE MoveInv'
  OBVIOUS
<1>1. /\ move.pc = "moved" /\ root' = Other(move.from)
      /\ move' = [move EXCEPT !.pc = "remove"]
      /\ UNCHANGED <<files, moves, mishaps, broken>>
  BY DEF Save
<1>2. MoveTypeOK'
  BY <1>1, OtherLocation DEF MoveInv, MoveTypeOK, Phase
<1>3. move'.pc = "remove" /\ move'.from = move.from
  BY <1>1 DEF MoveInv, MoveTypeOK
<1>4. ArrivedPhase'
  BY <1>1, <1>3 DEF MoveInv, ArrivedPhase, Whole
<1>5. NothingLost'
  BY <1>1 DEF MoveInv, NothingLost
<1> QED BY <1>1, <1>2, <1>3, <1>4, <1>5 DEF MoveInv, NothingBroken

LEMMA RemoveInv == MoveInv /\ Remove => MoveInv'
<1> SUFFICES ASSUME MoveInv, Remove PROVE MoveInv'
  OBVIOUS
<1> DEFINE old == move.from
           new == Other(move.from)
<1>1. move.pc = "remove" /\ UNCHANGED <<root, moves, broken>>
  BY DEF Remove
<1>2. old \in Location /\ new \in Location /\ new # old
  BY OtherLocation DEF MoveInv, MoveTypeOK
<1>3. MoveTypeOK /\ ArrivedPhase /\ root = new
  BY <1>1 DEF MoveInv
<1>4. CASE /\ UNCHANGED <<move, mishaps>>
           /\ \E e \in Present(old) :
                files' = [files EXCEPT ![old][e] = IF @ = "whole" THEN "part" ELSE "none"]
  <2>1. PICK e \in Present(old) :
          files' = [files EXCEPT ![old][e] = IF @ = "whole" THEN "part" ELSE "none"]
    BY <1>4
  <2>2. e \in Entry
    BY DEF Present
  <2>3. MoveTypeOK'
    BY <1>1, <1>2, <1>3, <1>4, <2>1, <2>2 DEF MoveTypeOK
  <2>4. files'[new] = files[new]
    BY <1>2, <1>3, <2>1 DEF MoveTypeOK
  <2>5. ArrivedPhase'
    BY <1>3, <1>4, <2>4 DEF ArrivedPhase, Whole
  <2>6. NothingLost'
    BY <1>2, <1>3, <2>4 DEF ArrivedPhase, NothingLost, Whole
  <2> QED BY <1>1, <1>3, <1>4, <2>3, <2>5, <2>6 DEF MoveInv, NothingBroken
<1>5. CASE /\ move' = NoMove /\ UNCHANGED files
           /\ UNCHANGED mishaps \/ (mishaps < MaxMishaps /\ mishaps' = mishaps + 1)
  <2>1. move'.pc = "none"
    BY <1>5 DEF NoMove
  <2>2. MoveTypeOK'
    <3>1. move' \in [pc : Phase, from : Location, todo : SUBSET Entry, done : SUBSET Entry,
                     copied : BOOLEAN]
      BY <1>5 DEF NoMove, Phase, Location
    <3> QED BY <1>1, <1>3, <1>5, <3>1 DEF MoveTypeOK
  <2>3. NothingLost'
    BY <1>5 DEF MoveInv, NothingLost
  <2>4. \A e \in Entry : Whole(root, e)'
    BY <1>1, <1>3, <1>5 DEF ArrivedPhase, Whole
  <2> QED BY <2>1, <2>2, <2>3, <2>4 DEF MoveInv, NothingBroken, Phase
<1> QED BY <1>4, <1>5 DEF Remove, Mishap

LEMMA MoveForgottenInv == MoveInv /\ MoveForgotten => MoveInv'
<1> SUFFICES ASSUME MoveInv, MoveForgotten PROVE MoveInv'
  OBVIOUS
<1>1. /\ move' = NoMove /\ broken' = TRUE /\ UNCHANGED <<root, files, moves>>
      /\ mishaps < MaxMishaps /\ mishaps' = mishaps + 1
  BY DEF MoveForgotten, Mishap
<1>2. move'.pc = "none"
  BY <1>1 DEF NoMove
<1>3. MoveTypeOK'
  <2>1. move' \in [pc : Phase, from : Location, todo : SUBSET Entry, done : SUBSET Entry,
                   copied : BOOLEAN]
    BY <1>1 DEF NoMove, Phase, Location
  <2>2. root' \in Location /\ moves' \in 0..MaxMoves /\ mishaps' \in 0..MaxMishaps
    BY <1>1 DEF MoveInv, MoveTypeOK
  <2>3. broken' \in BOOLEAN
    BY Zenon, <1>1
  <2>4. files' \in [Location -> [Entry -> {"none", "part", "whole"}]]
    BY <1>1 DEF MoveInv, MoveTypeOK
  <2> QED BY <2>1, <2>2, <2>3, <2>4 DEF MoveTypeOK
<1>4. NothingLost'
  BY <1>1 DEF MoveInv, NothingLost
<1> QED BY <1>1, <1>2, <1>3, <1>4 DEF MoveInv, Phase

LEMMA MoveStepInv == MoveInv /\ MoveStep => MoveInv'
BY RenameInv, BackInv, CopyInv, UndoInv, RenameFailsInv, CopyFailsInv, MoveFailedInv,
   MoveSucceedsInv, SaveInv, RemoveInv DEF MoveStep

LEMMA MoveStutters == MoveInv /\ UNCHANGED moveVars => MoveInv'
BY DEF moveVars, MoveInv, MoveTypeOK, NothingLost, RenamePhase, BackPhase, CopyPhase, UndoPhase,
       ArrivedPhase, NothingBroken, Whole

-----------------------------------------------------------------------------
LEMMA InitInv == Init => Inv
<1> SUFFICES ASSUME Init PROVE Inv
  OBVIOUS
<1>1. MoveInv
  BY MoveInitInv DEF Init
<1>2. TypeOK
  BY <1>1 DEF Init, TypeOK, MoveInv, HandlerPc, Call, Run
<1>3. HandlerInv
  BY DEF Init, HandlerInv, NewestHandles, JobsWaitedFor, Handling
<1>4. TokenInv
  BY DEF Init, TokenInv, SessionsGrow, CallsRetired, TokensRetired, OnItsWay
<1> QED BY <1>1, <1>2, <1>3, <1>4 DEF Inv

LEMMA PressInv == Inv /\ Press => Inv'
<1> SUFFICES ASSUME Inv, Press PROVE Inv'
  OBVIOUS
<1> DEFINE r == runId + 1
<1>1. /\ state = "idle" /\ runId < MaxRuns /\ runId' = r /\ state' = "starting"
      /\ pc' = [pc EXCEPT ![r] = "leftover"]
      /\ UNCHANGED <<jobs, ready, leftover, proc, authVars, failures, moveVars>>
  BY DEF Press
<1>2. TypeOK /\ HandlerInv /\ TokenInv /\ MoveInv
  BY DEF Inv
<1>3. r \in Run /\ pc[r] = "none" /\ runId \in Nat
  BY <1>1, <1>2 DEF TypeOK, Run, HandlerInv, NewestHandles
<1>4. MoveInv'
  BY <1>1, <1>2, MoveStutters
<1>5. TypeOK'
  BY <1>1, <1>2, <1>3, <1>4 DEF TypeOK, MoveInv, HandlerPc, authVars
<1>6. pc'[r] = "leftover" /\ \A q \in Run : q # r => pc'[q] = pc[q]
  BY <1>1, <1>2, <1>3 DEF TypeOK
<1>7. \A q \in Run : ~Handling(q) /\ proc[q] # "alive"
  BY <1>1, <1>2 DEF HandlerInv, NewestHandles
<1>8. HandlerInv'
  <2>1. NewestHandles'
    BY <1>1, <1>2, <1>3, <1>6, <1>7 DEF HandlerInv, NewestHandles, Handling, Run
  <2>2. JobsWaitedFor'
    BY <1>1, <1>2, <1>3, <1>6, <1>7 DEF HandlerInv, JobsWaitedFor, Handling
  <2> QED BY <2>1, <2>2 DEF HandlerInv
<1>9. TokenInv'
  <2>1. SessionsGrow'
    BY <1>1, <1>2, <1>3, <1>6 DEF TokenInv, SessionsGrow, authVars
  <2>2. CallsRetired'
    BY <1>1, <1>2, <1>3, <1>6 DEF TokenInv, CallsRetired, OnItsWay, authVars
  <2>3. TokensRetired'
    BY <1>1, <1>2, <1>3, <1>6 DEF TokenInv, TokensRetired, ToBeRetired, Works, authVars, TypeOK, Token
  <2> QED BY <2>1, <2>2, <2>3 DEF TokenInv
<1> QED BY <1>4, <1>5, <1>8, <1>9 DEF Inv

LEMMA LeftoverDoneInv ==
  ASSUME Inv, NEW r \in Run, LeftoverDone(r)
  PROVE  Inv'
<1>1. /\ pc[r] = "leftover" /\ (leftover # NoRun => jobs[leftover] = {})
      /\ leftover' = NoRun /\ pc' = [pc EXCEPT ![r] = "manifest"]
      /\ UNCHANGED <<state, runId, jobs, ready, proc, authVars, failures, moveVars>>
  BY DEF LeftoverDone
<1>2. TypeOK /\ HandlerInv /\ TokenInv /\ MoveInv
  BY DEF Inv
<1>3. MoveInv'
  BY <1>1, <1>2, MoveStutters
<1>4. TypeOK'
  BY <1>1, <1>2, <1>3 DEF TypeOK, MoveInv, HandlerPc, authVars
<1>5. pc'[r] = "manifest" /\ \A q \in Run : q # r => pc'[q] = pc[q]
  BY <1>1, <1>2 DEF TypeOK
<1>6. \A q \in Run : jobs[q] = {}
  BY <1>1, <1>2 DEF HandlerInv, NewestHandles, JobsWaitedFor, Handling
<1>7. HandlerInv'
  BY <1>1, <1>2, <1>5, <1>6 DEF HandlerInv, NewestHandles, JobsWaitedFor, Handling
<1>8. TokenInv'
  BY <1>1, <1>2, <1>5 DEF TokenInv, SessionsGrow, CallsRetired, TokensRetired, ToBeRetired, Works,
                          OnItsWay, authVars, TypeOK, Token
<1> QED BY <1>3, <1>4, <1>7, <1>8 DEF Inv

LEMMA ManifestArrivesInv ==
  ASSUME Inv, NEW r \in Run, ManifestArrives(r)
  PROVE  Inv'
<1>1. /\ pc[r] = "manifest" /\ session # 0
      /\ jobs' = [jobs EXCEPT ![r] = Job]
      /\ auth' = [auth EXCEPT ![r] = "sent"] /\ ticket' = [ticket EXCEPT ![r] = session]
      /\ pc' = [pc EXCEPT ![r] = "files"]
      /\ UNCHANGED <<state, runId, ready, leftover, proc, retires, session, sessions, tokens,
                     revokes, kept, failures, moveVars>>
  BY DEF ManifestArrives
<1>2. TypeOK /\ HandlerInv /\ TokenInv /\ MoveInv
  BY DEF Inv
<1>3. MoveInv'
  BY <1>1, <1>2, MoveStutters
<1>4. TypeOK'
  BY <1>1, <1>2, <1>3 DEF TypeOK, MoveInv, HandlerPc, Call
<1>5. /\ pc'[r] = "files" /\ auth'[r] = "sent" /\ ticket'[r] = session /\ auth[r] = "none"
      /\ \A q \in Run : q # r => /\ pc'[q] = pc[q] /\ auth'[q] = auth[q]
                                 /\ ticket'[q] = ticket[q] /\ jobs'[q] = jobs[q]
  BY <1>1, <1>2 DEF TypeOK, TokenInv, SessionsGrow
<1>6. HandlerInv'
  BY <1>1, <1>2, <1>5 DEF HandlerInv, NewestHandles, JobsWaitedFor, Handling
<1>7. TokenInv'
  <2>1. SessionsGrow'
    BY <1>1, <1>2, <1>5 DEF TypeOK, TokenInv, SessionsGrow
  <2>2. CallsRetired'
    BY <1>1, <1>2, <1>5 DEF TokenInv, CallsRetired, OnItsWay
  <2>3. TokensRetired'
    BY <1>1, <1>2, <1>5 DEF TokenInv, TokensRetired, ToBeRetired, Works, TypeOK, Token
  <2> QED BY <2>1, <2>2, <2>3 DEF TokenInv
<1> QED BY <1>3, <1>4, <1>6, <1>7 DEF Inv

LEMMA JobEndsInv ==
  ASSUME Inv, NEW r \in Run, NEW j \in Job, JobEnds(r, j)
  PROVE  Inv'
<1>1. /\ j \in jobs[r] /\ jobs' = [jobs EXCEPT ![r] = @ \ {j}]
      /\ UNCHANGED <<state, runId, pc, leftover, proc, authVars, moveVars>>
      /\ \/ UNCHANGED <<ready, failures>>
         \/ /\ failures < MaxFailures /\ failures' = failures + 1
            /\ ready' = [ready EXCEPT ![r] = "failed"]
  BY DEF JobEnds, Fault
<1>2. TypeOK /\ HandlerInv /\ TokenInv /\ MoveInv
  BY DEF Inv
<1>3. MoveInv'
  BY <1>1, <1>2, MoveStutters
<1>4. TypeOK'
  <2>1. jobs' \in [Run -> SUBSET Job]
    BY <1>1, <1>2 DEF TypeOK
  <2>2. ready' \in [Run -> {"wait", "failed"}]
    BY <1>1, <1>2 DEF TypeOK
  <2>3. failures' \in 0..MaxFailures
    BY <1>1, <1>2 DEF TypeOK
  <2> QED BY <1>1, <1>2, <1>3, <2>1, <2>2, <2>3 DEF TypeOK, MoveInv, authVars
<1>5. \A q \in Run : jobs'[q] \subseteq jobs[q]
  BY <1>1, <1>2 DEF TypeOK
<1>6. HandlerInv'
  BY <1>1, <1>2, <1>5 DEF HandlerInv, NewestHandles, JobsWaitedFor, Handling
<1>7. TokenInv'
  BY <1>1, <1>2 DEF TokenInv, SessionsGrow, CallsRetired, TokensRetired, ToBeRetired, Works,
                    OnItsWay, authVars
<1> QED BY <1>3, <1>4, <1>6, <1>7 DEF Inv

LEMMA FilesReadyInv ==
  ASSUME Inv, NEW r \in Run, FilesReady(r)
  PROVE  Inv'
<1>1. /\ pc[r] = "files" /\ jobs[r] = {} /\ pc' = [pc EXCEPT ![r] = "content"]
      /\ UNCHANGED <<state, runId, jobs, ready, leftover, proc, authVars, failures, moveVars>>
  BY DEF FilesReady
<1>2. TypeOK /\ HandlerInv /\ TokenInv /\ MoveInv
  BY DEF Inv
<1>3. MoveInv'
  BY <1>1, <1>2, MoveStutters
<1>4. TypeOK'
  BY <1>1, <1>2, <1>3 DEF TypeOK, MoveInv, HandlerPc, authVars
<1>5. pc'[r] = "content" /\ \A q \in Run : q # r => pc'[q] = pc[q]
  BY <1>1, <1>2 DEF TypeOK
<1>6. HandlerInv'
  BY <1>1, <1>2, <1>5 DEF HandlerInv, NewestHandles, JobsWaitedFor, Handling
<1>7. TokenInv'
  BY <1>1, <1>2, <1>5 DEF TokenInv, SessionsGrow, CallsRetired, TokensRetired, ToBeRetired, Works,
                          OnItsWay, authVars, TypeOK, Token
<1> QED BY <1>3, <1>4, <1>6, <1>7 DEF Inv

LEMMA ContentReadyInv ==
  ASSUME Inv, NEW r \in Run, ContentReady(r)
  PROVE  Inv'
<1>1. /\ pc[r] = "content" /\ pc' = [pc EXCEPT ![r] = "install"]
      /\ UNCHANGED <<state, runId, jobs, ready, leftover, proc, authVars, failures, moveVars>>
  BY DEF ContentReady
<1>2. TypeOK /\ HandlerInv /\ TokenInv /\ MoveInv
  BY DEF Inv
<1>3. MoveInv'
  BY <1>1, <1>2, MoveStutters
<1>4. TypeOK'
  BY <1>1, <1>2, <1>3 DEF TypeOK, MoveInv, HandlerPc, authVars
<1>5. pc'[r] = "install" /\ \A q \in Run : q # r => pc'[q] = pc[q]
  BY <1>1, <1>2 DEF TypeOK
<1>6. HandlerInv'
  BY <1>1, <1>2, <1>5 DEF HandlerInv, NewestHandles, JobsWaitedFor, Handling
<1>7. TokenInv'
  BY <1>1, <1>2, <1>5 DEF TokenInv, SessionsGrow, CallsRetired, TokensRetired, ToBeRetired, Works,
                          OnItsWay, authVars, TypeOK, Token
<1> QED BY <1>3, <1>4, <1>6, <1>7 DEF Inv

LEMMA SpawnInv ==
  ASSUME Inv, NEW r \in Run, Spawn(r)
  PROVE  Inv'
<1>1. /\ pc[r] = "install" /\ auth[r] = "ready"
      /\ proc' = [proc EXCEPT ![r] = "alive"] /\ pc' = [pc EXCEPT ![r] = "spawned"]
      /\ UNCHANGED <<state, runId, jobs, ready, leftover, authVars, failures, moveVars>>
  BY DEF Spawn
<1>2. TypeOK /\ HandlerInv /\ TokenInv /\ MoveInv
  BY DEF Inv
<1>3. MoveInv'
  BY <1>1, <1>2, MoveStutters
<1>4. TypeOK'
  BY <1>1, <1>2, <1>3 DEF TypeOK, MoveInv, HandlerPc, authVars
<1>5. /\ pc'[r] = "spawned" /\ proc'[r] = "alive"
      /\ \A q \in Run : q # r => pc'[q] = pc[q] /\ proc'[q] = proc[q]
  BY <1>1, <1>2 DEF TypeOK
<1>6. HandlerInv'
  BY <1>1, <1>2, <1>5 DEF HandlerInv, NewestHandles, JobsWaitedFor, Handling
<1>7. TokenInv'
  <2>1. SessionsGrow'
    BY <1>1, <1>2, <1>5 DEF TypeOK, TokenInv, SessionsGrow, authVars
  <2>2. CallsRetired'
    BY <1>1, <1>2, <1>5 DEF TokenInv, CallsRetired, OnItsWay, authVars
  <2>3. TokensRetired'
    BY <1>1, <1>2, <1>5 DEF TokenInv, TokensRetired, ToBeRetired, Works, authVars, TypeOK, Token
  <2> QED BY <2>1, <2>2, <2>3 DEF TokenInv
<1> QED BY <1>3, <1>4, <1>6, <1>7 DEF Inv

LEMMA ReturnedInv ==
  ASSUME Inv, NEW r \in Run, Returned(r)
  PROVE  Inv'
<1>1. /\ pc[r] = "spawned" /\ pc' = [pc EXCEPT ![r] = "done"]
      /\ state' = IF runId = r /\ state = "starting" THEN "running" ELSE state
      /\ UNCHANGED <<runId, jobs, ready, leftover, proc, authVars, failures, moveVars>>
  BY DEF Returned
<1>2. TypeOK /\ HandlerInv /\ TokenInv /\ MoveInv
  BY DEF Inv
<1>3. MoveInv'
  BY <1>1, <1>2, MoveStutters
<1>4. TypeOK'
  BY <1>1, <1>2, <1>3 DEF TypeOK, MoveInv, HandlerPc, authVars
<1>5. pc'[r] = "done" /\ \A q \in Run : q # r => pc'[q] = pc[q]
  BY <1>1, <1>2 DEF TypeOK
<1>6. HandlerInv'
  BY <1>1, <1>2, <1>5 DEF HandlerInv, NewestHandles, JobsWaitedFor, Handling
<1>7. TokenInv'
  <2>1. SessionsGrow'
    BY <1>1, <1>2, <1>5 DEF TypeOK, TokenInv, SessionsGrow, authVars
  <2>2. CallsRetired'
    BY <1>1, <1>2, <1>5 DEF TokenInv, SessionsGrow, CallsRetired, OnItsWay, authVars
  <2>3. TokensRetired'
    BY <1>1, <1>2, <1>5 DEF TokenInv, TokensRetired, ToBeRetired, Works, authVars, TypeOK, Token
  <2> QED BY <2>1, <2>2, <2>3 DEF TokenInv
<1> QED BY <1>3, <1>4, <1>6, <1>7 DEF Inv

LEMMA LaunchFailsInv ==
  ASSUME Inv, NEW r \in Run, LaunchFails(r)
  PROVE  Inv'
<1>1. /\ pc' = [pc EXCEPT ![r] = "done"]
      /\ leftover' = IF pc[r] = "manifest" THEN leftover ELSE r
      /\ state' = IF runId = r THEN "idle" ELSE state
      /\ UNCHANGED <<runId, jobs, ready, proc, auth, ticket, session, sessions, tokens, kept,
                     moveVars>>
  BY DEF LaunchFails
<1>2. TypeOK /\ HandlerInv /\ TokenInv /\ MoveInv
  BY DEF Inv
<1>3. /\ pc[r] \in {"manifest", "files", "content", "install"}
      /\ failures' \in {failures, failures + 1} /\ (failures' # failures => failures < MaxFailures)
  BY <1>2 DEF LaunchFails, Failing, Fault, TypeOK
<1>4. /\ revokes' \in [1..MaxSessions -> Nat]
      /\ \A s \in 1..MaxSessions : revokes'[s] >= revokes[s]
      /\ session # 0 /\ auth[r] = "ready" => revokes'[session] > 0
  <2>1. CASE session # 0 /\ auth[r] = "ready"
    <3>1. revokes' = [revokes EXCEPT ![session] = @ + 1]
      BY <2>1 DEF LaunchFails, Revokes
    <3>2. session \in 1..MaxSessions
      BY <1>2, <2>1 DEF TypeOK
    <3> QED BY <1>2, <3>1, <3>2 DEF TypeOK
  <2>2. CASE ~(session # 0 /\ auth[r] = "ready")
    BY <1>2, <2>2 DEF LaunchFails, TypeOK
  <2> QED BY <2>1, <2>2
<1>5. /\ retires \subseteq retires' /\ retires' \subseteq retires \cup {r}
      /\ session # 0 /\ auth[r] \notin {"none", "ready"} => r \in retires'
  BY DEF LaunchFails
<1>6. MoveInv'
  BY <1>1, <1>2, MoveStutters
<1>7. TypeOK'
  <2>1. failures' \in 0..MaxFailures
    BY <1>2, <1>3 DEF TypeOK
  <2>2. pc' \in [Run -> HandlerPc]
    BY <1>1, <1>2 DEF TypeOK, HandlerPc
  <2>3. retires' \subseteq Run
    BY <1>2, <1>5 DEF TypeOK
  <2> QED BY <1>1, <1>2, <1>4, <1>6, <2>1, <2>2, <2>3 DEF TypeOK, MoveInv
<1>8. pc'[r] = "done" /\ \A q \in Run : q # r => pc'[q] = pc[q]
  BY <1>1, <1>2 DEF TypeOK
<1>9. r = runId /\ proc[r] = "none"
  BY <1>2, <1>3 DEF HandlerInv, NewestHandles, Handling
<1>10. HandlerInv'
  <2>1. NewestHandles'
    BY <1>1, <1>2, <1>8, <1>9 DEF HandlerInv, NewestHandles, Handling, TypeOK, Run
  <2>2. JobsWaitedFor'
    <3> SUFFICES ASSUME NEW q \in Run, jobs[q] # {}
                 PROVE  /\ pc'[q] = "done" /\ leftover' = q
                        /\ \A x \in Run : proc[x] # "alive" /\ ~Handling(x)'
      BY <1>1 DEF JobsWaitedFor
    <3>1. \A x \in Run : proc[x] # "alive" /\ ~Handling(x)'
      BY <1>2, <1>8, <1>9 DEF HandlerInv, NewestHandles, Handling
    <3>2. pc[q] = "files"
      BY <1>2, <1>3 DEF HandlerInv, JobsWaitedFor, Handling
    <3>3. q = r
      BY <1>2, <1>9, <3>2 DEF HandlerInv, NewestHandles, Handling
    <3> QED BY <1>1, <1>8, <3>1, <3>2, <3>3
  <2> QED BY <2>1, <2>2 DEF HandlerInv
<1>11. TokenInv'
  <2>1. SessionsGrow'
    BY <1>1, <1>2, <1>8 DEF TokenInv, SessionsGrow
  <2>2. CallsRetired'
    BY <1>1, <1>2, <1>5, <1>8 DEF TokenInv, SessionsGrow, CallsRetired, OnItsWay
  <2>3. TokensRetired'
    <3> SUFFICES ASSUME NEW t \in tokens, t.session = session, t.run \notin kept
                 PROVE  ToBeRetired(t)'
      BY <1>1, <1>2 DEF TokenInv, TokensRetired, Works
    <3>1. session \in 1..MaxSessions /\ t.run \in Run
      BY <1>2 DEF TypeOK, Token
    <3>2. ToBeRetired(t) /\ auth[t.run] \in {"issued", "got", "ready"}
      BY <1>2 DEF TokenInv, TokensRetired, Works
    <3>3. CASE t.run = r
      BY <1>1, <1>4, <1>5, <3>1, <3>2, <3>3 DEF ToBeRetired
    <3>4. CASE t.run # r
      BY <1>1, <1>2, <1>4, <1>5, <1>8, <3>1, <3>2, <3>4 DEF ToBeRetired, TypeOK
    <3> QED BY <3>3, <3>4
  <2> QED BY <2>1, <2>2, <2>3 DEF TokenInv
<1> QED BY <1>6, <1>7, <1>10, <1>11 DEF Inv

LEMMA ExitInv ==
  ASSUME Inv, NEW r \in Run, Exit(r)
  PROVE  Inv'
<1>1. /\ proc[r] = "alive" /\ proc' = [proc EXCEPT ![r] = "gone"]
      /\ state' = IF runId = r THEN "idle" ELSE state
      /\ revokes' = Revokes
      /\ UNCHANGED <<runId, pc, jobs, ready, leftover, auth, ticket, retires, session, sessions,
                     tokens, kept, failures, moveVars>>
  BY DEF Exit
<1>2. TypeOK /\ HandlerInv /\ TokenInv /\ MoveInv
  BY DEF Inv
<1>3. /\ revokes' \in [1..MaxSessions -> Nat]
      /\ session # 0 => revokes'[session] > 0
  <2>1. session # 0 => session \in 1..MaxSessions
    BY <1>2 DEF TypeOK
  <2> QED BY <1>1, <1>2, <2>1 DEF Revokes, TypeOK
<1>4. MoveInv'
  BY <1>1, <1>2, MoveStutters
<1>5. TypeOK'
  BY <1>1, <1>2, <1>3, <1>4 DEF TypeOK, MoveInv
<1>6. proc'[r] = "gone" /\ \A q \in Run : q # r => proc'[q] = proc[q]
  BY <1>1, <1>2 DEF TypeOK
<1>7. r = runId /\ pc[r] \in {"spawned", "done"}
  BY <1>1, <1>2 DEF HandlerInv, NewestHandles
<1>8. HandlerInv'
  BY <1>1, <1>2, <1>6, <1>7 DEF HandlerInv, NewestHandles, JobsWaitedFor, Handling
<1>9. TokenInv'
  <2>1. SessionsGrow'
    BY <1>1, <1>2, <1>6 DEF TokenInv, SessionsGrow
  <2>2. CallsRetired'
    BY <1>1, <1>2 DEF TokenInv, CallsRetired, OnItsWay
  <2>3. \A t \in tokens : t.session # 0
    BY <1>2 DEF TypeOK, Token
  <2>4. TokensRetired'
    BY <1>1, <1>2, <1>3, <2>3 DEF TokenInv, TokensRetired, ToBeRetired, Works
  <2> QED BY <2>1, <2>2, <2>4 DEF TokenInv
<1> QED BY <1>4, <1>5, <1>8, <1>9 DEF Inv

-----------------------------------------------------------------------------
(* What the steps that leave the handlers alone have to show.                *)
LEMMA HandlersStand ==
  ASSUME Inv, UNCHANGED runVars, UNCHANGED moveVars, TokenInv',
         auth' \in [Run -> Call], ticket' \in [Run -> 0..MaxSessions], retires' \subseteq Run,
         session' \in 0..MaxSessions, sessions' \in 0..MaxSessions, tokens' \subseteq Token,
         revokes' \in [1..MaxSessions -> Nat], kept' \subseteq Run, failures' \in 0..MaxFailures
  PROVE  Inv'
<1>1. MoveInv'
  BY MoveStutters DEF Inv
<1>2. TypeOK'
  BY <1>1 DEF Inv, TypeOK, MoveInv, runVars
<1>3. HandlerInv'
  BY DEF Inv, HandlerInv, NewestHandles, JobsWaitedFor, Handling, runVars
<1> QED BY <1>1, <1>2, <1>3 DEF Inv

LEMMA RetireOldInv ==
  ASSUME Inv, NEW r \in Run, RetireOld(r)
  PROVE  Inv'
<1>1. /\ auth[r] = "sent" /\ auth' = [auth EXCEPT ![r] = "retired"] /\ tokens' = {}
      /\ UNCHANGED <<runVars, ticket, retires, session, sessions, revokes, kept, failures, moveVars>>
  BY DEF RetireOld, AuthStep
<1>2. TypeOK /\ TokenInv
  BY DEF Inv
<1>3. auth' \in [Run -> Call]
  BY <1>1, <1>2 DEF TypeOK, Call
<1>4. auth'[r] = "retired" /\ \A q \in Run : q # r => auth'[q] = auth[q]
  BY <1>1, <1>2 DEF TypeOK
<1>5. TokenInv'
  BY <1>1, <1>2, <1>4 DEF TokenInv, SessionsGrow, CallsRetired, TokensRetired, OnItsWay, runVars
<1> QED BY <1>1, <1>2, <1>3, <1>5, HandlersStand DEF TypeOK

LEMMA IssueInv ==
  ASSUME Inv, NEW r \in Run, Issue(r)
  PROVE  Inv'
<1> DEFINE new == [run |-> r, session |-> ticket[r]]
<1>1. /\ auth[r] = "retired" /\ auth' = [auth EXCEPT ![r] = "issued"]
      /\ tokens' = tokens \cup {new}
      /\ UNCHANGED <<runVars, ticket, retires, session, sessions, revokes, kept, failures, moveVars>>
  BY DEF Issue, AuthStep
<1>2. TypeOK /\ TokenInv
  BY DEF Inv
<1>3. auth' \in [Run -> Call]
  BY <1>1, <1>2 DEF TypeOK, Call
<1>4. auth'[r] = "issued" /\ \A q \in Run : q # r => auth'[q] = auth[q]
  BY <1>1, <1>2 DEF TypeOK
<1>5. ticket[r] \in 1..MaxSessions
  BY <1>1, <1>2 DEF TypeOK, TokenInv, SessionsGrow
<1>6. tokens' \subseteq Token
  BY <1>1, <1>2, <1>5 DEF TypeOK, Token
<1>7. TokenInv'
  <2>1. SessionsGrow'
    BY <1>1, <1>2, <1>4 DEF TokenInv, SessionsGrow, runVars
  <2>2. CallsRetired'
    BY <1>1, <1>2, <1>4 DEF TokenInv, CallsRetired, OnItsWay, runVars
  <2>3. ticket[r] = session => ToBeRetired(new)'
    BY <1>1, <1>2, <1>4 DEF TypeOK, HandlerPc, TokenInv, SessionsGrow, CallsRetired, OnItsWay,
                            ToBeRetired, runVars
  <2>4. \A t \in tokens : t.run \in Run /\ t.run # r
    BY <1>1, <1>2 DEF TypeOK, Token, TokenInv, TokensRetired
  <2>5. TokensRetired'
    <3> SUFFICES ASSUME NEW t \in tokens'
                 PROVE  /\ t.session = ticket[t.run]
                        /\ auth'[t.run] \in {"issued", "got", "ready", "failed"}
                        /\ t.run \notin kept => auth'[t.run] # "failed"
                        /\ t.session = session /\ t.run \notin kept => ToBeRetired(t)'
      BY <1>1 DEF TokensRetired, Works
    <3>1. CASE t = new
      BY <1>1, <1>4, <2>3, <3>1 DEF ToBeRetired
    <3>2. CASE t \in tokens
      BY <1>1, <1>2, <1>4, <2>4, <3>2 DEF TokenInv, TokensRetired, ToBeRetired, Works, runVars
    <3> QED BY <1>1, <3>1, <3>2
  <2> QED BY <2>1, <2>2, <2>5 DEF TokenInv
<1> QED BY <1>1, <1>2, <1>3, <1>6, <1>7, HandlersStand DEF TypeOK

LEMMA AnsweredInv ==
  ASSUME Inv, NEW r \in Run, Answered(r)
  PROVE  Inv'
<1>1. /\ auth[r] = "issued" /\ auth' = [auth EXCEPT ![r] = "got"]
      /\ UNCHANGED <<runVars, ticket, retires, session, sessions, tokens, revokes, kept, failures,
                     moveVars>>
  BY DEF Answered, AuthStep
<1>2. TypeOK /\ TokenInv
  BY DEF Inv
<1>3. auth' \in [Run -> Call]
  BY <1>1, <1>2 DEF TypeOK, Call
<1>4. auth'[r] = "got" /\ \A q \in Run : q # r => auth'[q] = auth[q]
  BY <1>1, <1>2 DEF TypeOK
<1>5. TokenInv'
  <2>1. SessionsGrow'
    BY <1>1, <1>2, <1>4 DEF TokenInv, SessionsGrow, runVars
  <2>2. CallsRetired'
    BY <1>1, <1>2, <1>4 DEF TokenInv, CallsRetired, OnItsWay, runVars
  <2>3. TokensRetired'
    BY <1>1, <1>2, <1>4 DEF TokenInv, TokensRetired, ToBeRetired, Works, TypeOK, Token, runVars
  <2> QED BY <2>1, <2>2, <2>3 DEF TokenInv
<1> QED BY <1>1, <1>2, <1>3, <1>5, HandlersStand DEF TypeOK

LEMMA AuthorizedInv ==
  ASSUME Inv, NEW r \in Run, Authorized(r)
  PROVE  Inv'
<1>1. /\ auth[r] = "got" /\ auth' = [auth EXCEPT ![r] = "ready"] /\ retires' = retires \ {r}
      /\ revokes' = IF r \in retires THEN Revokes ELSE revokes
      /\ UNCHANGED <<runVars, ticket, session, sessions, tokens, kept, failures, moveVars>>
  BY DEF Authorized, AuthStep
<1>2. TypeOK /\ TokenInv
  BY DEF Inv
<1>3. auth' \in [Run -> Call]
  BY <1>1, <1>2 DEF TypeOK, Call
<1>4. auth'[r] = "ready" /\ \A q \in Run : q # r => auth'[q] = auth[q]
  BY <1>1, <1>2 DEF TypeOK
<1>5. /\ revokes' \in [1..MaxSessions -> Nat]
      /\ \A s \in 1..MaxSessions : revokes'[s] >= revokes[s]
      /\ session # 0 /\ r \in retires => revokes'[session] > 0
  <2>1. session # 0 => session \in 1..MaxSessions
    BY <1>2 DEF TypeOK
  <2>2. CASE session # 0 /\ r \in retires
    BY <1>1, <1>2, <2>1, <2>2 DEF Revokes, TypeOK
  <2>3. CASE ~(session # 0 /\ r \in retires)
    BY <1>1, <1>2, <2>3 DEF Revokes, TypeOK
  <2> QED BY <2>2, <2>3
<1>6. TokenInv'
  <2>1. SessionsGrow'
    BY <1>1, <1>2, <1>4 DEF TokenInv, SessionsGrow, runVars
  <2>2. CallsRetired'
    BY <1>1, <1>2, <1>4 DEF TokenInv, CallsRetired, OnItsWay, runVars
  <2>3. TokensRetired'
    <3> SUFFICES ASSUME NEW t \in tokens
                 PROVE  /\ t.session = ticket[t.run]
                        /\ auth'[t.run] \in {"issued", "got", "ready", "failed"}
                        /\ t.run \notin kept => auth'[t.run] # "failed"
                        /\ t.session = session /\ t.run \notin kept => ToBeRetired(t)'
      BY <1>1 DEF TokensRetired, Works
    <3>1. t.run \in Run /\ t.session \in 1..MaxSessions
      BY <1>2 DEF TypeOK, Token
    <3>2. ASSUME t.session = session, t.run \notin kept PROVE ToBeRetired(t)'
      <4>1. ToBeRetired(t)
        BY <1>2, <3>2 DEF TokenInv, TokensRetired, Works
      <4>2. CASE revokes[session] > 0
        BY <1>1, <1>2, <1>5, <3>1, <3>2, <4>2 DEF ToBeRetired, TypeOK
      <4>3. CASE t.run = r
        BY <1>1, <1>5, <3>1, <3>2, <4>1, <4>3 DEF ToBeRetired, runVars
      <4>4. CASE t.run # r /\ ~(revokes[session] > 0)
        BY <1>1, <1>4, <3>1, <4>1, <4>4 DEF ToBeRetired, runVars
      <4> QED BY <4>2, <4>3, <4>4
    <3> QED BY <1>2, <1>4, <3>1, <3>2 DEF TokenInv, TokensRetired
  <2> QED BY <2>1, <2>2, <2>3 DEF TokenInv
<1> QED BY <1>1, <1>2, <1>3, <1>5, <1>6, HandlersStand DEF TypeOK

LEMMA AuthFailsInv ==
  ASSUME Inv, NEW r \in Run, AuthFails(r)
  PROVE  Inv'
<1>1. /\ OnItsWay(r) /\ auth' = [auth EXCEPT ![r] = "failed"] /\ retires' = retires \ {r}
      /\ kept' = IF auth[r] \in {"issued", "got"} THEN kept \cup {r} ELSE kept
      /\ UNCHANGED <<runVars, ticket, session, sessions, tokens, revokes, moveVars>>
  BY DEF AuthFails, OnItsWay
<1>2. TypeOK /\ TokenInv
  BY DEF Inv
<1>3. auth' \in [Run -> Call] /\ failures' \in 0..MaxFailures
  BY <1>1, <1>2 DEF TypeOK, Call, AuthFails, Fault
<1>4. auth'[r] = "failed" /\ \A q \in Run : q # r => auth'[q] = auth[q]
  BY <1>1, <1>2 DEF TypeOK
<1>5. TokenInv'
  <2>1. SessionsGrow'
    BY <1>1, <1>2, <1>4 DEF TokenInv, SessionsGrow, OnItsWay, runVars
  <2>2. CallsRetired'
    BY <1>1, <1>2, <1>4 DEF TokenInv, CallsRetired, OnItsWay, runVars
  <2>3. \A t \in tokens : t.run = r => r \in kept'
    BY <1>1, <1>2 DEF TokenInv, TokensRetired, OnItsWay
  <2>4. TokensRetired'
    BY <1>1, <1>2, <1>4, <2>3 DEF TokenInv, TokensRetired, ToBeRetired, Works, TypeOK, Token, runVars
  <2> QED BY <2>1, <2>2, <2>4 DEF TokenInv
<1> QED BY <1>1, <1>2, <1>3, <1>5, HandlersStand DEF TypeOK

LEMMA RevokeLandsInv ==
  ASSUME Inv, NEW s \in 1..MaxSessions, RevokeLands(s)
  PROVE  Inv'
<1>1. /\ revokes[s] > 0 /\ revokes' = [revokes EXCEPT ![s] = @ - 1]
      /\ UNCHANGED <<runVars, auth, ticket, retires, session, sessions, moveVars>>
  BY DEF RevokeLands
<1>2. TypeOK /\ TokenInv
  BY DEF Inv
<1>3. revokes' \in [1..MaxSessions -> Nat]
  BY <1>1, <1>2 DEF TypeOK
<1>4. SessionsGrow' /\ CallsRetired'
  BY <1>1, <1>2 DEF TokenInv, SessionsGrow, CallsRetired, OnItsWay, runVars
<1>5. CASE tokens' = (IF s = session THEN {} ELSE tokens) /\ UNCHANGED <<kept, failures>>
  <2>1. TokensRetired'
    <3>1. CASE s = session
      BY <1>5, <3>1 DEF TokensRetired
    <3>2. CASE s # session
      <4>1. \A t \in tokens : t.session \in 1..MaxSessions
        BY <1>2 DEF TypeOK, Token
      <4> QED BY <1>1, <1>2, <1>5, <3>2, <4>1
              DEF TypeOK, TokenInv, TokensRetired, ToBeRetired, Works, runVars
    <3> QED BY <3>1, <3>2
  <2> QED BY <1>1, <1>2, <1>3, <1>4, <1>5, <2>1, HandlersStand DEF TypeOK, TokenInv
<1>6. CASE Fault /\ kept' = kept \cup {t.run : t \in tokens} /\ UNCHANGED tokens
  <2>1. kept' \subseteq Run /\ failures' \in 0..MaxFailures
    BY <1>2, <1>6 DEF TypeOK, Token, Fault
  <2>2. TokensRetired'
    BY <1>1, <1>2, <1>6 DEF TokenInv, TokensRetired, runVars
  <2> QED BY <1>1, <1>2, <1>3, <1>4, <1>6, <2>1, <2>2, HandlersStand DEF TypeOK, TokenInv
<1> QED BY <1>5, <1>6 DEF RevokeLands

LEMMA SignOutInv == Inv /\ SignOut => Inv'
<1> SUFFICES ASSUME Inv, SignOut PROVE Inv'
  OBVIOUS
<1>1. /\ session' = 0
      /\ UNCHANGED <<runVars, auth, ticket, retires, sessions, tokens, revokes, kept, failures,
                     moveVars>>
  BY DEF SignOut
<1>2. TypeOK /\ TokenInv
  BY DEF Inv
<1>3. TokenInv'
  <2>1. SessionsGrow'
    BY <1>1, <1>2 DEF TokenInv, SessionsGrow, runVars
  <2>2. CallsRetired'
    BY <1>1, <1>2 DEF TokenInv, SessionsGrow, CallsRetired, OnItsWay, runVars
  <2>3. \A t \in tokens : t.session # 0
    BY <1>2 DEF TypeOK, Token
  <2>4. TokensRetired'
    BY <1>1, <1>2, <2>3 DEF TokenInv, TokensRetired, Works
  <2> QED BY <2>1, <2>2, <2>4 DEF TokenInv
<1> QED BY <1>1, <1>2, <1>3, HandlersStand DEF TypeOK

LEMMA SignInInv == Inv /\ SignIn => Inv'
<1> SUFFICES ASSUME Inv, SignIn PROVE Inv'
  OBVIOUS
<1>1. /\ session = 0 /\ sessions < MaxSessions
      /\ sessions' = sessions + 1 /\ session' = sessions + 1
      /\ UNCHANGED <<runVars, auth, ticket, retires, tokens, revokes, kept, failures, moveVars>>
  BY DEF SignIn
<1>2. TypeOK /\ TokenInv
  BY DEF Inv
<1>3. \A r \in Run : ticket[r] \in Nat /\ ticket[r] < sessions + 1
  BY <1>2 DEF TypeOK, TokenInv, SessionsGrow
<1>4. TokenInv'
  <2>1. SessionsGrow'
    BY <1>1, <1>2, <1>3 DEF TypeOK, TokenInv, SessionsGrow, runVars
  <2>2. CallsRetired'
    BY <1>1, <1>2, <1>3 DEF TypeOK, CallsRetired, OnItsWay
  <2>3. \A t \in tokens : t.session # session'
    BY <1>1, <1>2, <1>3 DEF TypeOK, Token, TokenInv, TokensRetired
  <2>4. TokensRetired'
    BY <1>1, <1>2, <2>3 DEF TokenInv, TokensRetired, Works
  <2> QED BY <2>1, <2>2, <2>4 DEF TokenInv
<1> QED BY <1>1, <1>2, <1>4, HandlersStand DEF TypeOK

(* The steps of a move leave the launches alone.                             *)
LEMMA MovesInv ==
  ASSUME Inv, MoveBegins \/ MoveGoesOn \/ LauncherCloses
  PROVE  Inv'
<1>1. MoveInv'
  BY MoveStartInv, MoveStepInv, MoveForgottenInv DEF Inv, MoveBegins, MoveGoesOn, LauncherCloses
<1>2. UNCHANGED <<runVars, authVars, failures>>
  BY DEF MoveBegins, MoveGoesOn, LauncherCloses
<1>3. TypeOK'
  BY <1>1, <1>2 DEF Inv, TypeOK, MoveInv, runVars, authVars
<1>4. HandlerInv'
  BY <1>2 DEF Inv, HandlerInv, NewestHandles, JobsWaitedFor, Handling, runVars
<1>5. TokenInv'
  BY <1>2 DEF Inv, TokenInv, SessionsGrow, CallsRetired, TokensRetired, ToBeRetired, Works, OnItsWay,
              runVars, authVars
<1> QED BY <1>1, <1>3, <1>4, <1>5 DEF Inv

LEMMA StepInv == Inv /\ [Next]_vars => Inv'
<1> SUFFICES ASSUME Inv, [Next]_vars PROVE Inv'
  OBVIOUS
<1>1. CASE Press
  BY <1>1, PressInv
<1>2. ASSUME NEW r \in Run, HandlerStep(r) PROVE Inv'
  BY <1>2, LeftoverDoneInv, ManifestArrivesInv, FilesReadyInv, ContentReadyInv, SpawnInv,
     ReturnedInv, LaunchFailsInv DEF HandlerStep
<1>3. ASSUME NEW r \in Run, CallStep(r) PROVE Inv'
  BY <1>3, RetireOldInv, IssueInv, AnsweredInv, AuthorizedInv, AuthFailsInv DEF CallStep
<1>4. ASSUME NEW r \in Run, Exit(r) \/ \E j \in Job : JobEnds(r, j) PROVE Inv'
  BY <1>4, ExitInv, JobEndsInv
<1>5. ASSUME NEW s \in 1..MaxSessions, RevokeLands(s) PROVE Inv'
  BY <1>5, RevokeLandsInv
<1>6. CASE SignOut \/ SignIn
  BY <1>6, SignOutInv, SignInInv
<1>7. CASE MoveBegins \/ MoveGoesOn \/ LauncherCloses
  BY <1>7, MovesInv
<1>8. CASE UNCHANGED vars
  <2>1. UNCHANGED <<runVars, moveVars, auth, ticket, retires, session, sessions, tokens, revokes,
                    kept, failures>>
    BY <1>8 DEF vars, authVars
  <2>2. TokenInv'
    BY <2>1 DEF Inv, TokenInv, SessionsGrow, CallsRetired, TokensRetired, ToBeRetired, Works,
                OnItsWay, runVars
  <2> QED BY <2>1, <2>2, HandlersStand DEF Inv, TypeOK
<1> QED BY <1>1, <1>2, <1>3, <1>4, <1>5, <1>6, <1>7, <1>8 DEF Next

LEMMA SpecInv == Spec => []Inv
BY InitInv, StepInv, PTL DEF Spec

-----------------------------------------------------------------------------
(* Every variable of the launches, of their tokens and of the move keeps its  *)
(* range (launch.ts, install-move.ts).                                        *)
THEOREM TypeCorrect == Spec => []TypeOK
<1>1. Inv => TypeOK
  BY DEF Inv
<1> QED BY <1>1, SpecInv, PTL

(* Whatever fails and whenever the launcher is killed, every folder is        *)
(* complete at one of the two locations (moveInstall, cleanUpMovedInstall).   *)
THEOREM FoldersSurvive == Spec => []NothingLost
<1>1. Inv => NothingLost
  BY DEF Inv, MoveInv
<1> QED BY <1>1, SpecInv, PTL

(* A move that is over left everything where the launcher looks for it,       *)
(* unless taking it back failed or the launcher was killed (moveInstall).     *)
THEOREM MovesWhollyOrNot == Spec => []AllOrNothing
<1>1. Inv => AllOrNothing
  <2> SUFFICES ASSUME Inv, ~broken, move.pc \in {"none", "remove"}
               PROVE  \A e \in Entry : files[root][e] = "whole"
    BY DEF AllOrNothing
  <2> QED BY DEF Inv, MoveInv, NothingBroken, ArrivedPhase, Whole
<1> QED BY <1>1, SpecInv, PTL

(* Two launches never have their hands on the pack at once, a running game    *)
(* included (the handler of game:launch, leftoverWork).                       *)
THEOREM OneLaunchWrites == Spec => []OneRunWrites
<1>1. Inv => OneRunWrites
  <2> SUFFICES ASSUME Inv, NEW r \in Run, NEW q \in Run, Writes(r), Writes(q)
               PROVE  r = q
    BY DEF OneRunWrites
  <2>1. CASE jobs[r] # {} /\ jobs[q] # {}
    BY <2>1 DEF Inv, HandlerInv, NewestHandles, JobsWaitedFor, Handling
  <2>2. CASE jobs[r] = {} \/ jobs[q] = {}
    BY <2>2 DEF Inv, HandlerInv, NewestHandles, JobsWaitedFor, Handling, Writes
  <2> QED BY <2>1, <2>2
<1> QED BY <1>1, SpecInv, PTL

(* When nothing is under way, no token works but one whose retiring call or   *)
(* own launch failed after it was issued (revokeGameAuth, game-auth).         *)
THEOREM TokensEnd == Spec => []NoTokenLeft
<1>1. Inv => NoTokenLeft
  <2> SUFFICES ASSUME Inv, NEW t \in tokens, Works(t),
                      \A r \in Run : /\ pc[r] \in {"none", "done"} /\ proc[r] # "alive"
                                     /\ auth[r] \in {"none", "ready", "failed"},
                      \A s \in 1..MaxSessions : revokes[s] = 0
               PROVE  t.run \in kept
    BY DEF NoTokenLeft
  <2>1. t.run \in Run /\ session \in 1..MaxSessions
    BY DEF Inv, TypeOK, Token, Works
  <2>2. ~ToBeRetired(t)
    BY <2>1 DEF ToBeRetired
  <2> QED BY <2>2 DEF Inv, TokenInv, TokensRetired
<1> QED BY <1>1, SpecInv, PTL

=============================================================================
