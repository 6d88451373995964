-------------------------- MODULE MCPasswordReset --------------------------
(* Instances of PasswordReset for TLC. *)
EXTENDS PasswordReset

CONSTANTS ana, stranger, home

(* Requests for one account from one origin. *)
OneAccount == {[email |-> ana, origin |-> home]}

(* Also for an address that is no account, which uses up the origin's quota. *)
TwoAddresses == OneAccount \cup {[email |-> stranger, origin |-> home]}
=============================================================================
