------------------------------ MODULE Condvar ------------------------------
(***************************************************************************)
(* A pthread mutex and one condition variable used with it (libc,          *)
(* external).  pthread_cond_wait frees the mutex and joins the waiters in  *)
(* one atomic step; a thread taken off the waiters, by a signal or         *)
(* spuriously, must own the mutex again before its call returns.           *)
(***************************************************************************)
EXTENDS Mutex

VARIABLE waiting    \* the threads blocked in pthread_cond_wait

CondInit == MutexInit /\ waiting = {}

Wait(t) ==
    /\ Unlock(t)
    /\ waiting' = waiting \cup {t}

(* The second half of pthread_cond_wait: a woken thread takes the mutex.   *)
Relock(t) ==
    /\ t \notin waiting
    /\ Lock(t)
    /\ UNCHANGED waiting

(* pthread_cond_signal wakes one waiter, and is lost when there is none.   *)
Signal ==
    \/ waiting = {} /\ UNCHANGED waiting
    \/ \E t \in waiting : waiting' = waiting \ {t}

Broadcast == waiting' = {}

(* POSIX lets pthread_cond_wait return without a signal.                   *)
SpuriousWakeup(t) ==
    /\ t \in waiting
    /\ waiting' = waiting \ {t}
    /\ UNCHANGED owner
=============================================================================
