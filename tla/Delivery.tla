------------------------------ MODULE Delivery ------------------------------
(***************************************************************************)
(* What the outbox promises about each event: it is posted only while it   *)
(* is pending and has attempts left, attempts are only counted for posts   *)
(* that were made, and a delivered event stays as it is.                   *)
(***************************************************************************)
EXTENDS Naturals

CONSTANTS Events, MaxAttempts, MaxCount

VARIABLES status, attempts, sent, received

delivery == <<status, attempts, sent, received>>

Init ==
  /\ status = [e \in Events |-> "absent"]
  /\ attempts = [e \in Events |-> 0]
  /\ sent = [e \in Events |-> 0]
  /\ received = {}

Emit(e) ==
  /\ status[e] = "absent"
  /\ status' = [status EXCEPT ![e] = "pending"]
  /\ UNCHANGED <<attempts, sent, received>>

Open(e) == status[e] = "pending" /\ attempts[e] < MaxAttempts

Post(e) ==
  /\ Open(e)
  /\ sent' = [sent EXCEPT ![e] = IF @ < MaxCount THEN @ + 1 ELSE @]
  /\ received' \in {received, received \cup {e}}
  /\ UNCHANGED <<status, attempts>>

(* The outcome of posting the events of S is recorded; those of D succeeded. *)
Settle(S, D) ==
  /\ D \subseteq S /\ D \subseteq received
  /\ \A e \in S : Open(e) /\ attempts[e] < sent[e]
  /\ attempts' = [e \in Events |-> IF e \in S THEN attempts[e] + 1 ELSE attempts[e]]
  /\ status' = [e \in Events |-> IF e \in D THEN "delivered" ELSE status[e]]
  /\ UNCHANGED <<sent, received>>

Next ==
  \/ \E e \in Events : Emit(e) \/ Post(e)
  \/ \E S \in SUBSET Events : \E D \in SUBSET S : Settle(S, D)

Spec == Init /\ [][Next]_delivery
=============================================================================
