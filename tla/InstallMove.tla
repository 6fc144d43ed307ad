---------------------------- MODULE InstallMove ----------------------------
(***************************************************************************)
(* Moving what the launcher installed to another location: the folders are *)
(* renamed one by one, or copied and checked one by one; a failure is taken *)
(* back; the window saves the new location, and only then the originals go. *)
(***************************************************************************)
EXTENDS Naturals

CONSTANTS
  Entry,       \* the launcher's folders: instances and the personal content
  MaxMoves,    \* bound: moves started
  MaxMishaps   \* bound: failures and crashes, those of taking back included

ASSUME MoveAssumption == Entry # {} /\ {MaxMoves, MaxMishaps} \subseteq Nat

VARIABLES
  root,     \* the install location the window has saved
  files,    \* how much of each folder is at each location
  move,     \* the move under way
  moves, mishaps, \* counters of the bounds
  broken    \* a failure was not taken back, or the launcher was killed

moveVars == <<root, files, move, moves, mishaps, broken>>

Location == {"here", "there"}
Other(l) == CHOOSE m \in Location : m # l

Phase == {"none", "rename", "back", "copy", "undo", "moved", "remove"}

MoveTypeOK ==
  /\ root \in Location
  /\ files \in [Location -> [Entry -> {"none", "part", "whole"}]]
  /\ move \in [pc : Phase, from : Location, todo : SUBSET Entry, done : SUBSET Entry,
               copied : BOOLEAN]
  /\ moves \in 0..MaxMoves /\ mishaps \in 0..MaxMishaps /\ broken \in BOOLEAN

NoMove == [pc |-> "none", from |-> "here", todo |-> {}, done |-> {}, copied |-> FALSE]

MoveInit ==
  /\ root = "here"
  /\ files = [l \in Location |-> [e \in Entry |-> IF l = "here" THEN "whole" ELSE "none"]]
  /\ move = NoMove /\ moves = 0 /\ mishaps = 0 /\ broken = FALSE

\* installMoveInProgress
Moving == move.pc \in {"rename", "back", "copy", "undo"}

Present(l) == {e \in Entry : files[l][e] # "none"}

Mishap == mishaps < MaxMishaps /\ mishaps' = mishaps + 1

\* The plan refuses a location that already has one of the folders.  Whether both are on
\* one volume decides between renaming and copying.
MoveStart ==
  /\ ~Moving /\ move.pc = "none" /\ moves < MaxMoves
  /\ Present(root) # {} /\ Present(root) \cap Present(Other(root)) = {}
  /\ moves' = moves + 1
  /\ \E pc \in {"rename", "copy"} :
       move' = [pc |-> pc, from |-> root, todo |-> Present(root), done |-> {},
                copied |-> pc = "copy"]
  /\ UNCHANGED <<root, files, mishaps, broken>>

RenameEntry(e, from) ==
  files' = [files EXCEPT ![from][e] = "none", ![Other(from)][e] = files[from][e]]

Rename(e) ==
  /\ move.pc = "rename" /\ e \in move.todo
  /\ RenameEntry(e, move.from)
  /\ move' = [move EXCEPT !.todo = @ \ {e}, !.done = @ \cup {e}]
  /\ UNCHANGED <<root, moves, mishaps, broken>>

\* Another volume after all is noticed at the first folder: copy then.
RenameFails ==
  /\ move.pc = "rename" /\ move.todo # {} /\ Mishap
  /\ \/ move' = [move EXCEPT !.pc = "back"]
     \/ move.done = {} /\ move' = [move EXCEPT !.pc = "copy", !.copied = TRUE]
  /\ UNCHANGED <<root, files, moves, broken>>

Back(e) ==
  /\ move.pc = "back" /\ e \in move.done
  /\ RenameEntry(e, Other(move.from))
  /\ move' = [move EXCEPT !.done = @ \ {e}]
  /\ UNCHANGED <<root, moves, mishaps, broken>>

\* Mutant: a folder counts as moved when its copy has begun.
CopyUnchecked(e) ==
  /\ move.pc = "copy" /\ e \in move.todo
  /\ files' = [files EXCEPT ![Other(move.from)][e] = "part"]
  /\ move' = [move EXCEPT !.todo = @ \ {e}, !.done = @ \cup {e}]
  /\ UNCHANGED <<root, moves, mishaps, broken>>

\* A folder is copied file by file, each checked; what is there in part stays so until the end.
Copy(e) ==
  /\ move.pc = "copy" /\ e \in move.todo
  /\ LET there == Other(move.from) IN
     IF files[there][e] = "none"
     THEN /\ files' = [files EXCEPT ![there][e] = "part"]
          /\ move' = [move EXCEPT !.done = @ \cup {e}]
     ELSE /\ files' = [files EXCEPT ![there][e] = files[move.from][e]]
          /\ move' = [move EXCEPT !.todo = @ \ {e}]
  /\ UNCHANGED <<root, moves, mishaps, broken>>

CopyFails ==
  /\ move.pc = "copy" /\ move.todo # {} /\ Mishap
  /\ move' = [move EXCEPT !.pc = "undo"]
  /\ UNCHANGED <<root, files, moves, broken>>

\* Only what this move created at the new location is removed.
Undo(e) ==
  /\ move.pc = "undo" /\ e \in move.done
  /\ files' = [files EXCEPT ![Other(move.from)][e] = "none"]
  /\ move' = [move EXCEPT !.done = @ \ {e}]
  /\ UNCHANGED <<root, moves, mishaps, broken>>

\* The failed move is over; taking it back may itself have failed half-way.
MoveFailed ==
  /\ move.pc \in {"back", "undo"}
  /\ \/ move.done = {} /\ UNCHANGED <<mishaps, broken>>
     \/ move.done # {} /\ Mishap /\ broken' = TRUE
  /\ move' = NoMove
  /\ UNCHANGED <<root, files, moves>>

\* Mutant: the originals go before the window has saved the new location.
MoveSucceedsAndCleans ==
  /\ move.pc \in {"rename", "copy"} /\ move.todo = {}
  /\ move' = [move EXCEPT !.pc = "remove"]
  /\ UNCHANGED <<root, files, moves, mishaps, broken>>

MoveSucceeds ==
  /\ move.pc \in {"rename", "copy"} /\ move.todo = {}
  /\ move' = [move EXCEPT !.pc = "moved"]
  /\ UNCHANGED <<root, files, moves, mishaps, broken>>

\* The window saves the location, then asks for the originals to go.
Save ==
  /\ move.pc = "moved"
  /\ root' = Other(move.from)
  /\ move' = [move EXCEPT !.pc = "remove"]
  /\ UNCHANGED <<files, moves, mishaps, broken>>

\* After a rename there is nothing to remove; a folder goes file by file.
Remove ==
  /\ move.pc = "remove"
  /\ \/ \E e \in Present(move.from) :
          /\ move.copied
          /\ files' = [files EXCEPT ![move.from][e] = IF @ = "whole" THEN "part" ELSE "none"]
          /\ UNCHANGED <<move, mishaps>>
     \/ /\ ~move.copied \/ Present(move.from) = {}
        /\ move' = NoMove /\ UNCHANGED <<files, mishaps>>
     \/ Mishap /\ move' = NoMove /\ UNCHANGED files
  /\ UNCHANGED <<root, moves, broken>>

\* The launcher is closed or killed: what it had in hand is forgotten.
MoveForgotten ==
  /\ move.pc # "none" /\ Mishap
  /\ move' = NoMove /\ broken' = TRUE
  /\ UNCHANGED <<root, files, moves>>

MoveStep ==
  \/ \E e \in Entry : Rename(e) \/ Back(e) \/ Copy(e) \/ Undo(e)
  \/ RenameFails \/ CopyFails \/ MoveFailed \/ MoveSucceeds \/ Save \/ Remove

-----------------------------------------------------------------------------
\* Whatever fails and whenever the launcher is killed, every folder is complete at one of
\* the two locations (the header of install-move.ts: originals go only after the save).
NothingLost == \A e \in Entry : \E l \in Location : files[l][e] = "whole"

\* "All or nothing": a move that is over left every folder complete where the launcher looks
\* for it, unless taking it back failed or the launcher was killed.
AllOrNothing ==
  ~broken /\ move.pc \in {"none", "remove"} => \A e \in Entry : files[root][e] = "whole"

=============================================================================
