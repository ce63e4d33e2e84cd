----------------------------- MODULE StateCycle -----------------------------
(***************************************************************************)
(* The machine of lab 17: 0, 1, then 2 or 3 by the parity of a counter     *)
(* that state 1 increments, and back to 0.  The counter wraps at Modulus.  *)
(***************************************************************************)
EXTENDS Integers

CONSTANT Modulus

VARIABLES state, counter

Init == state = 0 /\ counter = 0

Enter == state = 0 /\ state' = 1 /\ UNCHANGED counter

Count ==
    /\ state = 1
    /\ counter' = (counter + 1) % Modulus
    /\ state' = IF counter' % 2 = 0 THEN 2 ELSE 3

Return == state \in {2, 3} /\ state' = 0 /\ UNCHANGED counter

Next == Enter \/ Count \/ Return

Spec == Init /\ [][Next]_<<state, counter>>
=============================================================================
