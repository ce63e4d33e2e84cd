--------------------------- MODULE OrangeProblem ---------------------------
(***************************************************************************)
(* Lab 12: threads share an array, of which each repeatedly allocates the  *)
(* next chunk and then updates the chunk's cells.  The array has exactly a *)
(* chunk for every round of every thread (1000 = 4 * 10 * 25 bytes), so    *)
(* sizes are counted in chunks and a chunk is updated as one cell is: load,*)
(* add one, store.  With use_mutex ("sync") the allocation, not the update,*)
(* is done under the mutex; the default is without it.                     *)
(***************************************************************************)
EXTENDS Mutex, Iterations

CONSTANTS Threads, Rounds

Chunks == Cardinality(Threads) * Rounds     \* the size of the array

ASSUME OrangeAssumption ==
    /\ IsFiniteSet(Threads)
    /\ Rounds \in Nat \ {0}
    /\ Nobody \notin Threads

VARIABLES
    allocated,  \* chunks given out, as the static variable says
    array,      \* the value of each chunk's cell
    pc,         \* what each thread does next
    chunk,      \* per thread: the chunk buff_alloc gave it (NULL if none)
    loaded,     \* per thread: allocated, or its cell, as it last loaded it
    grown,      \* per thread: how often it has increased allocated
    aborted,    \* some thread found NULL and called exit(EXIT_FAILURE)
    printed,    \* main joined every thread and printed the array
    use_mutex   \* the argument of the lab, fixed at the start

vars ==
    <<owner, allocated, array, pc, chunk, loaded, grown, aborted, printed, use_mutex>>

NULL == -1
Cells == 0 .. Chunks - 1

Entry == IF use_mutex THEN "lock" ELSE "check"

Init ==
    /\ use_mutex \in BOOLEAN
    /\ MutexInit
    /\ allocated = 0
    /\ array = [c \in Cells |-> 0]
    /\ pc = [t \in Threads |-> Entry]
    /\ chunk = [t \in Threads |-> NULL]
    /\ loaded = [t \in Threads |-> 0]
    /\ grown = [t \in Threads |-> 0]
    /\ aborted = FALSE
    /\ printed = FALSE

(* t goes from one point of its loop to another while the process lives.   *)
Goto(t, from, to) ==
    /\ ~aborted
    /\ pc[t] = from
    /\ pc' = [pc EXCEPT ![t] = to]
    /\ UNCHANGED use_mutex

-----------------------------------------------------------------------------
(* buff_alloc and the mutex around it                                      *)

Acquire(t) ==
    /\ Goto(t, "lock", "check")
    /\ Lock(t)
    /\ UNCHANGED <<allocated, array, chunk, loaded, grown, aborted, printed>>

(* Both tests of line 139 ask, in chunks, whether the array is full.       *)
Check(t) ==
    /\ Goto(t, "check", IF allocated >= Chunks THEN "unlock" ELSE "take")
    /\ chunk' = [chunk EXCEPT ![t] = NULL]
    /\ UNCHANGED <<owner, allocated, array, loaded, grown, aborted, printed>>

TakeOneBased(t) ==          \* mutant: counts the chunks from one
    /\ Goto(t, "take", "grow")
    /\ chunk' = [chunk EXCEPT ![t] = allocated + 1]
    /\ UNCHANGED <<owner, allocated, array, loaded, grown, aborted, printed>>

(* The address of the chunk is taken with a load of its own.               *)
Take(t) ==
    /\ Goto(t, "take", "grow")
    /\ chunk' = [chunk EXCEPT ![t] = allocated]
    /\ UNCHANGED <<owner, allocated, array, loaded, grown, aborted, printed>>

(* allocated += alloc_size loads after the printf, and then stores.        *)
LoadAllocated(t) ==
    /\ Goto(t, "grow", "store")
    /\ loaded' = [loaded EXCEPT ![t] = allocated]
    /\ UNCHANGED <<owner, allocated, array, chunk, grown, aborted, printed>>

GrowByTwo(t) ==             \* mutant: allocates more than it hands out
    /\ Goto(t, "store", "unlock")
    /\ allocated' = loaded[t] + 2
    /\ grown' = [grown EXCEPT ![t] = @ + 1]
    /\ UNCHANGED <<owner, array, chunk, loaded, aborted, printed>>

GrowForgotten(t) ==         \* mutant: hands out without recording it
    /\ Goto(t, "store", "unlock")
    /\ grown' = [grown EXCEPT ![t] = @ + 1]
    /\ UNCHANGED <<owner, allocated, array, chunk, loaded, aborted, printed>>

StoreAllocated(t) ==
    /\ Goto(t, "store", "unlock")
    /\ allocated' = loaded[t] + 1
    /\ grown' = [grown EXCEPT ![t] = @ + 1]
    /\ UNCHANGED <<owner, array, chunk, loaded, aborted, printed>>

(* Unlocks if it locked, then tests the allocation: NULL ends the process. *)
Release(t) ==
    /\ Goto(t, "unlock", "load")
    /\ IF use_mutex THEN Unlock(t) ELSE UNCHANGED owner
    /\ aborted' = (chunk[t] = NULL)
    /\ UNCHANGED <<allocated, array, chunk, loaded, grown, printed>>

-----------------------------------------------------------------------------
(* The update of the chunk, without the mutex in either mode               *)

LoadCell(t) ==
    /\ Goto(t, "load", "update")
    /\ loaded' = [loaded EXCEPT ![t] = array[chunk[t]]]
    /\ UNCHANGED <<owner, allocated, array, chunk, grown, aborted, printed>>

StoreCell(t) ==
    /\ Goto(t, "update", IF grown[t] < Rounds THEN Entry ELSE "exit")
    /\ array' = [array EXCEPT ![chunk[t]] = loaded[t] + 1]
    /\ UNCHANGED <<owner, allocated, chunk, loaded, grown, aborted, printed>>

Thread(t) ==
    \/ Acquire(t) \/ Check(t) \/ Take(t) \/ LoadAllocated(t)
    \/ StoreAllocated(t) \/ Release(t) \/ LoadCell(t) \/ StoreCell(t)

(* main: four joins, then the array is printed and the mutex destroyed.    *)
JoinAndPrint ==
    /\ ~aborted /\ ~printed
    /\ \A t \in Threads : pc[t] = "exit"
    /\ printed' = TRUE
    /\ UNCHANGED <<owner, allocated, array, pc, chunk, loaded, grown, aborted,
                   use_mutex>>

Next == JoinAndPrint \/ \E t \in Threads : Thread(t)

Spec == Init /\ [][Next]_vars

-----------------------------------------------------------------------------
(* Properties                                                              *)

Pcs == {"lock", "check", "take", "grow", "store", "unlock", "load", "update",
        "exit"}

(* Every variable has its type: in particular buff_alloc's pointer is NULL *)
(* or points into the array.                                               *)
TypeOK ==
    /\ owner \in Threads \cup {Nobody}
    /\ allocated \in 0 .. Chunks
    /\ array \in [Cells -> Nat]
    /\ pc \in [Threads -> Pcs]
    /\ chunk \in [Threads -> Cells \cup {NULL}]
    /\ loaded \in [Threads -> Nat]
    /\ grown \in [Threads -> 0 .. Rounds]
    /\ aborted \in BOOLEAN
    /\ printed \in BOOLEAN
    /\ use_mutex \in BOOLEAN

GrowthsDone == IterationsDone(Threads, Rounds, grown)

(* The line 139 tests are enough even without the mutex: a thread that     *)
(* tests, is overtaken by others and only then takes an address, never     *)
(* gets one beyond the array, because allocated never exceeds the number   *)
(* of its increases, and a thread inside buff_alloc still has its own to   *)
(* make.                                                                   *)
TakesInside ==
    /\ allocated <= Cardinality(GrowthsDone)
    /\ \A t \in Threads : pc[t] = "take" => allocated < Chunks

(* No thread ever fails to get its chunk, with or without the mutex.       *)
NeverAborts == ~aborted

(* Under "sync" every chunk is updated exactly once.                       *)
EachChunkOnce == use_mutex /\ printed => \A c \in Cells : array[c] = 1

(* The header of the lab (lines 7-9): the threads update all of the array, *)
(* with a mutex to prevent data corruption.  Without an argument the lab   *)
(* runs without the mutex.                                                 *)
WholeArrayUpdated == printed => \A c \in Cells : array[c] = 1
=============================================================================
