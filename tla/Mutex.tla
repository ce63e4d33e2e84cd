------------------------------- MODULE Mutex -------------------------------
(***************************************************************************)
(* The pthread mutex the labs use (libc, external): a non-recursive lock   *)
(* with an owner.  A lock call blocks while the mutex is owned; an unlock  *)
(* by the owner frees it.                                                  *)
(***************************************************************************)
CONSTANT Nobody     \* the owner of a free mutex; no thread has this name

VARIABLE owner      \* the thread that holds the mutex, or Nobody

MutexInit == owner = Nobody

Lock(t) ==
    /\ owner = Nobody
    /\ owner' = t

Unlock(t) ==
    /\ owner = t
    /\ owner' = Nobody
=============================================================================
