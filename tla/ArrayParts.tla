----------------------------- MODULE ArrayParts -----------------------------
(***************************************************************************)
(* Lab 09 (assignment 1): main fills an array, gives each of ThreadCount   *)
(* threads a part of it to double, and prints it when it has joined them.  *)
(***************************************************************************)
EXTENDS Integers

CONSTANTS ArrayLength, ThreadCount

(* The two macros of the lab.                                              *)
ASSUME PartsAssumption ==
    /\ {ArrayLength, ThreadCount} \subseteq Nat \ {0}
    /\ ArrayLength % ThreadCount = 0

Parts == 0 .. ThreadCount - 1
Cells == 0 .. ArrayLength - 1

VARIABLES
    array,
    index,          \* per thread, its loop variable, -1 before it runs
    loaded,         \* per thread, the cell's value once it is loaded, else -1
    made, gathered  \* how many threads main has created and joined

partVars == <<array, index, loaded, made, gathered>>

PartInit ==
    /\ array = [i \in Cells |-> i]
    /\ index = [p \in Parts |-> -1]
    /\ loaded = [p \in Parts |-> -1]
    /\ made = 0 /\ gathered = 0

chunk_size == ArrayLength \div ThreadCount
Start(p) == p * chunk_size
End(p) == Start(p) + chunk_size

CreatePart ==
    /\ made < ThreadCount
    /\ made' = made + 1
    /\ index' = [index EXCEPT ![made] = Start(made)]
    /\ UNCHANGED <<array, loaded, gathered>>

Doubling(p) == index[p] \in Start(p) .. End(p) - 1

(* array[i] *= 2 in double_array                                           *)
LoadCell(p) ==
    /\ Doubling(p) /\ loaded[p] = -1
    /\ loaded' = [loaded EXCEPT ![p] = array[index[p]]]
    /\ UNCHANGED <<array, index, made, gathered>>

StoreCell(p) ==
    /\ loaded[p] # -1
    /\ array' = [array EXCEPT ![index[p]] = 2 * loaded[p]]
    /\ index' = [index EXCEPT ![p] = @ + 1]
    /\ loaded' = [loaded EXCEPT ![p] = -1]
    /\ UNCHANGED <<made, gathered>>

double_array(p) == LoadCell(p) \/ StoreCell(p)

JoinPart ==
    /\ made = ThreadCount /\ gathered < ThreadCount
    /\ index[gathered] = End(gathered)
    /\ gathered' = gathered + 1
    /\ UNCHANGED <<array, index, loaded, made>>

PartMain == CreatePart \/ JoinPart

PartNext == PartMain \/ \E p \in Parts : double_array(p)

(* main has printed the array, every element doubled.                      *)
PartsEnded == gathered = ThreadCount
AllDoubled == \A i \in Cells : array[i] = 2 * i
=============================================================================
