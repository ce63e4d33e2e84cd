---------------------------- MODULE StateMachine ----------------------------
(***************************************************************************)
(* Lab 17: a thread for each of the four states of a machine.  Each thread *)
(* waits for its state under one mutex and condition variable, does the    *)
(* state's work, which chooses the next state, unlocks, and wakes all the  *)
(* others.  The inner waits do not test running, which main clears without *)
(* the mutex and without waking anyone.                                    *)
(***************************************************************************)
EXTENDS Condvar, Integers, FiniteSets

CONSTANT Modulus    \* where counter wraps: even, as 2^32 is

States == 0 .. 3    \* also the threads: state_zero to state_three

ASSUME StateAssumption ==
    /\ Nobody \notin States
    /\ Modulus \in Nat \ {0}
    /\ Modulus % 2 = 0

VARIABLES
    state,      \* the state of the machine
    counter,    \* how often state one was reached, modulo Modulus
    running,
    pc,
    joined      \* main has joined the four threads

vars == <<owner, waiting, state, counter, running, pc, joined>>

Init ==
    /\ CondInit
    /\ state = 0
    /\ counter = 0
    /\ running = TRUE
    /\ pc = [k \in States |-> "head"]
    /\ joined = FALSE

Goto(k, from, to) ==
    /\ pc[k] = from
    /\ pc' = [pc EXCEPT ![k] = to]

-----------------------------------------------------------------------------
(* The threads                                                             *)

Loop(k) ==
    /\ Goto(k, "head", IF running THEN "lock" ELSE "exit")
    /\ UNCHANGED <<owner, waiting, state, counter, running, joined>>

Acquire(k) ==
    /\ Goto(k, "lock", "test")
    /\ Lock(k)
    /\ UNCHANGED <<waiting, state, counter, running, joined>>

Sleep(k) ==
    /\ state # k
    /\ Goto(k, "test", "wait")
    /\ Wait(k)
    /\ UNCHANGED <<state, counter, running, joined>>

Wake(k) ==
    /\ Goto(k, "wait", "test")
    /\ Relock(k)
    /\ UNCHANGED <<state, counter, running, joined>>

(* The spurious return of the wait, which the while loop is there for.     *)
Spurious(k) ==
    /\ SpuriousWakeup(k)
    /\ UNCHANGED <<state, counter, running, pc, joined>>

(* State one: ++counter, then the next state by its parity.                *)
Count ==
    /\ counter' = (counter + 1) % Modulus
    /\ state' = IF counter' % 2 = 0 THEN 2 ELSE 3

WorkUntested(k) ==  \* mutant: does its work whatever the state is
    /\ Goto(k, "test", "broadcast")
    /\ CASE k = 1 -> Count
         [] OTHER -> state' = (IF k = 0 THEN 1 ELSE 0) /\ UNCHANGED counter
    /\ Unlock(k)
    /\ UNCHANGED <<waiting, running, joined>>

(* The work of a state and the unlock after it.                            *)
Work(k) ==
    /\ state = k
    /\ Goto(k, "test", "broadcast")
    /\ CASE k = 1 -> Count
         [] OTHER -> state' = (IF k = 0 THEN 1 ELSE 0) /\ UNCHANGED counter
    /\ Unlock(k)
    /\ UNCHANGED <<waiting, running, joined>>

NotifyOne(k) ==     \* mutant: a signal where the code has a broadcast
    /\ Goto(k, "broadcast", "head")
    /\ Signal
    /\ UNCHANGED <<owner, state, counter, running, joined>>

Notify(k) ==
    /\ Goto(k, "broadcast", "head")
    /\ Broadcast
    /\ UNCHANGED <<owner, state, counter, running, joined>>

Thread(k) ==
    Loop(k) \/ Acquire(k) \/ Sleep(k) \/ Wake(k) \/ Work(k) \/ Notify(k)

-----------------------------------------------------------------------------
(* main                                                                    *)

Stop ==
    /\ running
    /\ running' = FALSE
    /\ UNCHANGED <<owner, waiting, state, counter, pc, joined>>

(* The four joins, after which the mutex and the condition are destroyed.  *)
Join ==
    /\ ~running /\ ~joined
    /\ \A k \in States : pc[k] = "exit"
    /\ joined' = TRUE
    /\ UNCHANGED <<owner, waiting, state, counter, running, pc>>

Next == Stop \/ Join \/ \E k \in States : Thread(k) \/ Spurious(k)

(* The threads keep running, and a thread that asks for the mutex gets it  *)
(* (QNX queues threads of one priority in order).  Nothing is assumed of   *)
(* when main stops the lab, nor of spurious wakeups.                       *)
Fairness ==
    \A k \in States :
        /\ WF_vars(Thread(k))
        /\ SF_vars(Acquire(k))
        /\ SF_vars(Wake(k))

Spec == Init /\ [][Next]_vars /\ Fairness

-----------------------------------------------------------------------------
(* Properties                                                              *)

(* Every variable has its type.                                            *)
TypeOK ==
    /\ owner \in States \cup {Nobody}
    /\ waiting \in SUBSET States
    /\ state \in States
    /\ counter \in 0 .. Modulus - 1
    /\ running \in BOOLEAN
    /\ pc \in [States -> {"head", "lock", "test", "wait", "broadcast", "exit"}]
    /\ joined \in BOOLEAN

(* State two is reached with an even counter and state three with an odd   *)
(* one, as the two threads print, also when the counter is read later.     *)
ParityAgrees ==
    /\ state = 2 => counter % 2 = 0
    /\ state = 3 => counter % 2 = 1

(* A thread asleep in its own state is about to be woken: by the thread    *)
(* that chose this state and has not yet broadcast.                        *)
NoLostWakeup ==
    \A k \in waiting : state = k => \E j \in States : pc[j] = "broadcast"

(* The machine stands still only when the thread of its state has ended,   *)
(* which takes a shutdown.                                                 *)
StandsOnlyWithoutItsThread ==
    (\A k \in States : k \in waiting \/ pc[k] = "exit")
      => ~running /\ pc[state] = "exit"

(* Until main stops it the machine keeps reaching both two and three.      *)
KeepsGoing ==
    (<>~running) \/ ([]<>(state = 2) /\ []<>(state = 3))

Machine == INSTANCE StateCycle

(* The four threads together step as the machine does.                     *)
StepsAsMachine == Machine!Spec
=============================================================================
