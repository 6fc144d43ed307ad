---------------------------- MODULE AtomicUpdate ----------------------------
(***************************************************************************)
(* What an update of the launcher promises: the launcher that runs is one  *)
(* build in all its files, another takes its place only while it is        *)
(* closed, and it is never an older one.  Once the files are torn nothing  *)
(* is promised until the launcher starts from one build again.             *)
(***************************************************************************)
EXTENDS Naturals

CONSTANT Version

VARIABLES
  alive,  \* the launcher runs
  build,  \* the build that runs, or ran last; 0 for a mixture
  torn    \* the installed files may be a mixture

AbsInit == alive = TRUE /\ build \in Version /\ torn = FALSE

Tear == torn' = TRUE /\ UNCHANGED <<alive, build>>

Quit == alive /\ alive' = FALSE /\ torn' \in {torn, TRUE} /\ UNCHANGED build

Start ==
  /\ ~alive /\ alive' = TRUE
  /\ ~torn /\ UNCHANGED torn
  /\ build' \in {v \in Version : v >= build}

StartTorn ==
  /\ ~alive /\ alive' = TRUE
  /\ torn' = TRUE
  /\ build' \in Version \cup {0}

StartWhole ==
  /\ ~alive /\ alive' = TRUE
  /\ torn /\ torn' = FALSE
  /\ build' \in Version

AbsSpec == AbsInit /\ [][Tear \/ Quit \/ Start \/ StartTorn \/ StartWhole]_<<alive, build, torn>>

=============================================================================
