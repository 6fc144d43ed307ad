----------------------------- MODULE MCSession -----------------------------
(***************************************************************************)
(* Two accounts and two logins in one launcher.                          *)
(***************************************************************************)
EXTENDS Session

CONSTANTS a, b, f1, f2

Accounts == {a, b}
Logins == {f1, f2}
Checks == {1}

=============================================================================
