--------------------------- MODULE SharedCounter ---------------------------
(***************************************************************************)
(* Labs 10 (mutex) and 14 (atomic): main creates NumThreads threads, each  *)
(* adds one to a shared counter Updates times, main joins them in order    *)
(* and prints the counter.  mode is the argument of the lab: "mutex" is    *)
(* lab 10 "sync", "atomic" is lab 14 "atomic", and "none" is both "no_sync"*)
(* and "no_atomic", where the load and the store of the counter are two    *)
(* steps with a printf between them.                                       *)
(***************************************************************************)
EXTENDS Mutex, Iterations

CONSTANTS NumThreads, Updates

Workers == 1 .. NumThreads

ASSUME CounterAssumption ==
    /\ NumThreads \in Nat \ {0}
    /\ Updates \in Nat \ {0}
    /\ Nobody \notin Workers

VARIABLES
    counter,    \* lab 10's counter, lab 14's at_value or value
    at,         \* what each thread does next
    stored,     \* per thread: updates stored so far (the loop variable i)
    local,      \* per thread: the value it loaded (local, old_value)
    created,    \* threads main has created
    joined,     \* threads main has joined
    final,      \* what main printed at the end, -1 before it does
    mode        \* which lab with which argument, fixed at the start

counterVars == <<owner, counter, at, stored, local, created, joined, final, mode>>

NotPrinted == -1

Modes == {"mutex", "atomic", "none"}

(* Where an iteration begins, and where a thread goes after n updates.     *)
LoopStart == CASE mode = "mutex"  -> "lock"
           [] mode = "atomic" -> "add"
           [] OTHER           -> "read"

After(n) == IF n < Updates THEN LoopStart ELSE "exit"

CounterInit ==
    /\ mode \in Modes
    /\ MutexInit
    /\ counter = 0
    /\ at = [t \in Workers |-> "new"]
    /\ stored = [t \in Workers |-> 0]
    /\ local = [t \in Workers |-> 0]
    /\ created = 0
    /\ joined = 0
    /\ final = NotPrinted

-----------------------------------------------------------------------------
(* Mutants: plausible bugs, each of which takes the place of a definition  *)

AcquireUnchecked(t) ==      \* goes on without having the mutex
    /\ at[t] = "lock"
    /\ owner' = t
    /\ at' = [at EXCEPT ![t] = "read"]
    /\ UNCHANGED <<counter, stored, local, created, joined, final, mode>>

StoreAdding(t) ==           \* adds what was loaded instead of storing
    /\ at[t] = "write"
    /\ counter' = counter + local[t] + 1
    /\ stored' = [stored EXCEPT ![t] = @ + 1]
    /\ at' = [at EXCEPT ![t] = IF mode = "mutex" THEN "unlock"
                               ELSE After(stored[t] + 1)]
    /\ UNCHANGED <<owner, local, created, joined, final, mode>>

FetchAddTorn(t) ==          \* an atomic add that may miss another one
    /\ at[t] = "add"
    /\ counter' \in {counter, counter + 1}
    /\ stored' = [stored EXCEPT ![t] = @ + 1]
    /\ at' = [at EXCEPT ![t] = After(stored[t] + 1)]
    /\ UNCHANGED <<owner, local, created, joined, final, mode>>

JoinUnwaited ==             \* does not wait for the thread to end
    /\ created = NumThreads
    /\ joined < NumThreads
    /\ joined' = joined + 1
    /\ UNCHANGED <<owner, counter, at, stored, local, created, final, mode>>

-----------------------------------------------------------------------------
(* thread_work                                                             *)

LockCounter(t) ==
    /\ at[t] = "lock"
    /\ Lock(t)
    /\ at' = [at EXCEPT ![t] = "read"]
    /\ UNCHANGED <<counter, stored, local, created, joined, final, mode>>

Load(t) ==
    /\ at[t] = "read"
    /\ local' = [local EXCEPT ![t] = counter]
    /\ at' = [at EXCEPT ![t] = "write"]
    /\ UNCHANGED <<owner, counter, stored, created, joined, final, mode>>

Store(t) ==
    /\ at[t] = "write"
    /\ counter' = local[t] + 1
    /\ stored' = [stored EXCEPT ![t] = @ + 1]
    /\ at' = [at EXCEPT ![t] = IF mode = "mutex" THEN "unlock"
                               ELSE After(stored[t] + 1)]
    /\ UNCHANGED <<owner, local, created, joined, final, mode>>

UnlockCounter(t) ==
    /\ at[t] = "unlock"
    /\ Unlock(t)
    /\ at' = [at EXCEPT ![t] = After(stored[t])]
    /\ UNCHANGED <<counter, stored, local, created, joined, final, mode>>

FetchAdd(t) ==
    /\ at[t] = "add"
    /\ counter' = counter + 1
    /\ stored' = [stored EXCEPT ![t] = @ + 1]
    /\ at' = [at EXCEPT ![t] = After(stored[t] + 1)]
    /\ UNCHANGED <<owner, local, created, joined, final, mode>>

thread_work(t) == LockCounter(t) \/ Load(t) \/ Store(t) \/ UnlockCounter(t) \/ FetchAdd(t)

-----------------------------------------------------------------------------
(* main: create every thread, join them one after the other, print         *)

Create ==
    /\ created < NumThreads
    /\ created' = created + 1
    /\ at' = [at EXCEPT ![created + 1] = After(0)]
    /\ UNCHANGED <<owner, counter, stored, local, joined, final, mode>>

Join ==
    /\ created = NumThreads
    /\ joined < NumThreads
    /\ at[joined + 1] = "exit"
    /\ joined' = joined + 1
    /\ UNCHANGED <<owner, counter, at, stored, local, created, final, mode>>

Report ==
    /\ joined = NumThreads
    /\ final = NotPrinted
    /\ final' = counter
    /\ UNCHANGED <<owner, counter, at, stored, local, created, joined, mode>>

Main == Create \/ Join \/ Report

CounterNext == Main \/ \E t \in Workers : thread_work(t)

CounterSpec == CounterInit /\ [][CounterNext]_counterVars

-----------------------------------------------------------------------------
(* Properties                                                              *)

Places == {"new", "lock", "read", "write", "unlock", "add", "exit"}

(* Every variable has its type.                                            *)
CounterTypeOK ==
    /\ owner \in Workers \cup {Nobody}
    /\ counter \in Nat
    /\ at \in [Workers -> Places]
    /\ stored \in [Workers -> 0 .. Updates]
    /\ local \in [Workers -> Nat]
    /\ created \in 0 .. NumThreads
    /\ joined \in 0 .. NumThreads
    /\ final \in Nat \cup {NotPrinted}
    /\ mode \in Modes

(* The updates stored so far, each named by its thread and its iteration.  *)
DoneUpdates == IterationsDone(Workers, Updates, stored)

(* The claim of both labs (lab 14 prints an error otherwise): with the     *)
(* mutex or the atomic add, the counter main prints counts every iteration *)
(* of every thread.                                                        *)
FinalExact ==
    mode # "none" /\ final # NotPrinted => final = NumThreads * Updates

(* With the mutex no other thread stores between a load and its store, so  *)
(* at every moment the counter counts the updates stored.                  *)
NoLostUpdate ==
    mode # "none" => counter = Cardinality(DoneUpdates)

(* Without them updates are lost but never invented: the counter is at     *)
(* most the number of updates stored, and what main prints is at least 2   *)
(* (a thread's last store is based on a load that follows an earlier store *)
(* of its own, or it has only one update to make).                         *)
LossIsBounded ==
    /\ counter <= Cardinality(DoneUpdates)
    /\ final # NotPrinted => final >= IF Updates = 1 THEN 1 ELSE 2

(* main's pthread_mutex_destroy, which exits with an error when the mutex  *)
(* is held, runs with the mutex free and no thread left to use it.         *)
QuietAtReport ==
    final # NotPrinted => /\ owner = Nobody
                          /\ \A t \in Workers : at[t] = "exit"
=============================================================================
