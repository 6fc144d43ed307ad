------------------------------ MODULE MCLaunch ------------------------------
(***************************************************************************)
(* An instance and the personal content, two launches and two sign-ins.    *)
(***************************************************************************)
EXTENDS Launch

Folders == {"pack", "content"}

=============================================================================
