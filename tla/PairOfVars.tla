----------------------------- MODULE PairOfVars -----------------------------
(***************************************************************************)
(* Lab 11 (assignment 2): threads add one to var1 and var2, as + 2 and - 1,*)
(* until main sets done; a thread that finds them different takes var1     *)
(* back to var2.  use_mutex is the argument, "sync" or "no_sync".  The     *)
(* variables are volatile: every access is a load or a store of its own.   *)
(***************************************************************************)
EXTENDS Mutex, Integers, Sequences

CONSTANTS
    NumThreads,     \* NUMBER_OF_THREADS
    Modulus         \* where an unsigned wraps

PairThreads == 1 .. NumThreads

ASSUME PairAssumption ==
    /\ NumThreads \in Nat \ {0} /\ Modulus \in Nat \ {0}
    /\ Nobody \notin PairThreads

VARIABLES
    use_mutex,
    var,            \* var1, var2 and var3
    done,
    at,             \* each thread's place in thread_work, "new" before
    step,           \* per thread, the update it makes
    reg,            \* per thread, the value it has loaded
    started, joined \* how many threads main has created and joined

control == <<done, started, joined, use_mutex>>
pairVars == <<var, at, step, reg, control>>

(* var3++ in do_work, then both variables in turn: which one, and by how   *)
(* much it changes.                                                        *)
Updates == << <<3, 1>>, <<1, 2>>, <<1, -1>>, <<2, 2>>, <<2, -1>> >>

PairInit ==
    /\ MutexInit
    /\ use_mutex \in BOOLEAN
    /\ var = [v \in 1 .. 3 |-> 0]
    /\ done = FALSE
    /\ at = [t \in PairThreads |-> "new"]
    /\ step = [t \in PairThreads |-> 1]
    /\ reg = [t \in PairThreads |-> 0]
    /\ started = 0 /\ joined = 0

Goto(t, from, to) ==
    /\ at[t] = from
    /\ at' = [at EXCEPT ![t] = to]

LoadVar(t, v) == reg' = [reg EXCEPT ![t] = var[v]]

-----------------------------------------------------------------------------
(* thread_work                                                             *)

TestDone(t) ==
    /\ Goto(t, "test", IF done THEN "ended" ELSE IF use_mutex THEN "lock" ELSE "compare")
    /\ UNCHANGED <<owner, var, step, reg, control>>

AcquireUnchecked(t) ==      \* mutant: goes on without having the mutex
    /\ Goto(t, "lock", "compare")
    /\ owner' = t
    /\ UNCHANGED <<var, step, reg, control>>

Acquire(t) ==
    /\ Goto(t, "lock", "compare")
    /\ Lock(t)
    /\ UNCHANGED <<var, step, reg, control>>

(* var1 is loaded, and then compared with var2.                            *)
Compare(t) ==
    /\ \/ Goto(t, "compare", "against") /\ LoadVar(t, 1)
       \/ Goto(t, "against", IF reg[t] # var[2] THEN "reload" ELSE "load") /\ UNCHANGED reg
    /\ UNCHANGED <<owner, var, step, control>>

(* var1 = var2                                                             *)
Repair(t) ==
    /\ \/ Goto(t, "reload", "repair") /\ LoadVar(t, 2) /\ UNCHANGED var
       \/ Goto(t, "repair", "load") /\ var' = [var EXCEPT ![1] = reg[t]] /\ UNCHANGED reg
    /\ UNCHANGED <<owner, step, control>>

Load(t) ==
    /\ Goto(t, "load", "store")
    /\ LoadVar(t, Updates[step[t]][1])
    /\ UNCHANGED <<owner, var, step, control>>

Store(t) ==
    LET v == Updates[step[t]][1]
        last == step[t] = Len(Updates)
    IN  /\ Goto(t, "store", IF ~last THEN "load" ELSE IF use_mutex THEN "unlock" ELSE "test")
        /\ var' = [var EXCEPT ![v] = (reg[t] + Updates[step[t]][2]) % Modulus]
        /\ step' = [step EXCEPT ![t] = IF last THEN 1 ELSE @ + 1]
        /\ UNCHANGED <<owner, reg, control>>

Release(t) ==
    /\ Goto(t, "unlock", "test")
    /\ Unlock(t)
    /\ UNCHANGED <<var, step, reg, control>>

Work(t) ==
    \/ TestDone(t) \/ Acquire(t) \/ Compare(t) \/ Repair(t)
    \/ Load(t) \/ Store(t) \/ Release(t)

-----------------------------------------------------------------------------
(* main                                                                    *)

Create ==
    /\ started < NumThreads
    /\ started' = started + 1
    /\ at' = [at EXCEPT ![started + 1] = "test"]
    /\ UNCHANGED <<owner, var, step, reg, done, joined, use_mutex>>

(* After fifteen seconds.                                                  *)
StopThreads ==
    /\ started = NumThreads /\ ~done
    /\ done' = TRUE
    /\ UNCHANGED <<owner, var, at, step, reg, started, joined, use_mutex>>

Join ==
    /\ done /\ joined < NumThreads
    /\ at[joined + 1] = "ended"
    /\ joined' = joined + 1
    /\ UNCHANGED <<owner, var, at, step, reg, done, started, use_mutex>>

PairMain == Create \/ StopThreads \/ Join

PairNext == PairMain \/ \E t \in PairThreads : Work(t)

(* The mutex is destroyed and the variables are printed.                   *)
PairEnded == joined = NumThreads

(* With the mutex the variables never differ but within a thread's turn:   *)
(* whenever nobody holds it, var1 and var2 are the number of do_work's     *)
(* calls, no repair is ever needed, and the values main prints are equal.  *)
PairAgrees ==
    use_mutex =>
        /\ owner = Nobody => var[1] = var[3] /\ var[2] = var[3]
        /\ \A t \in PairThreads : at[t] \notin {"reload", "repair"}
=============================================================================
