----------------------------- MODULE Iterations -----------------------------
(***************************************************************************)
(* Bookkeeping for threads that each run a loop of K iterations: an        *)
(* iteration is a pair of a thread and a number, and n[t] is how many      *)
(* thread t has completed.                                                 *)
(***************************************************************************)
EXTENDS Integers, FiniteSets

IterationsDone(T, K, n) == {u \in T \X (1 .. K) : u[2] <= n[u[1]]}

(* m is n after thread t has completed one more iteration, of its K.       *)
Advances(T, K, t, n, m) ==
    /\ n[t] \in 0 .. K - 1
    /\ m[t] = n[t] + 1
    /\ \A s \in T \ {t} : m[s] = n[s]
=============================================================================
