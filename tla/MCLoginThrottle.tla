-------------------------- MODULE MCLoginThrottle --------------------------
(* Instances of LoginThrottle for TLC. *)
EXTENDS LoginThrottle

CONSTANTS ana, bia, home

(* Right and wrong passwords of one identity, and wrong ones of another that   *)
(* shares its source.                                                          *)
SharedSource ==
  {[identity |-> ana, source |-> home, right |-> r] : r \in BOOLEAN}
    \cup {[identity |-> bia, source |-> home, right |-> FALSE]}
=============================================================================
