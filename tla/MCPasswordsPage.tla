--------------------------- MODULE MCPasswordsPage ---------------------------
(* PasswordsPage for TLC: a vault that is empty at first, and one login in  *)
(* Bitwarden, which has the id that the vault will give to the first login  *)
(* the user adds.                                                           *)
EXTENDS PasswordsPage

CONSTANTS p1, p2

MCPasswords == {p1, p2}
MCTyped == {p1}
MCSaved == << >>
MCSavedInBitwarden == <<p2>>
=============================================================================
