------------------------------ MODULE OneSlot ------------------------------
(***************************************************************************)
(* What lab 16 promises: two parties take turns on one slot while it is    *)
(* open.  Closing it lets each party act at most once more, out of turn.   *)
(***************************************************************************)
EXTENDS Integers

CONSTANTS Maker, Taker

Parties == {Maker, Taker}

VARIABLES
    turn,   \* whose turn it is
    made,   \* how much the maker has made
    open,   \* no one has closed the slot
    late    \* once closed: the parties that may still act

Init ==
    /\ turn = Maker
    /\ made = 0
    /\ open = TRUE
    /\ late = Parties

(* The maker makes and hands over, the taker takes and hands back.         *)
Act(p) ==
    /\ made' = IF p = Maker THEN made + 1 ELSE made
    /\ turn' = IF p = Maker THEN Taker ELSE Maker

InTurn(p) == open /\ turn = p /\ Act(p) /\ UNCHANGED <<open, late>>

OutOfTurn(p) ==
    /\ ~open
    /\ p \in late
    /\ late' = late \ {p}
    /\ Act(p)
    /\ UNCHANGED open

Close ==
    /\ open
    /\ open' = FALSE
    /\ late' \in SUBSET Parties
    /\ UNCHANGED <<turn, made>>

Next == Close \/ \E p \in Parties : InTurn(p) \/ OutOfTurn(p)

Spec == Init /\ [][Next]_<<turn, made, open, late>>
=============================================================================
