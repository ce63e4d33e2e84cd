--------------------------- MODULE ProduceConsume ---------------------------
(***************************************************************************)
(* Lab 16: a producer and a consumer alternate by one condition variable,  *)
(* until main clears running.  Both run the same loop: test running, lock, *)
(* wait while it is not their turn and running, do the work, unlock,       *)
(* signal, delay.  main clears running without the mutex and signals       *)
(* nobody.                                                                 *)
(***************************************************************************)
EXTENDS Condvar, Integers, FiniteSets

CONSTANT MaxProduct     \* bounds how much is made before main's sleep ends

Producer == "producer"
Consumer == "consumer"
Threads == {Producer, Consumer}
Other(t) == IF t = Producer THEN Consumer ELSE Producer

ASSUME ProduceAssumption == Nobody \notin Threads /\ MaxProduct \in Nat

VARIABLES
    state,      \* whose turn it is: TO_PRODUCE is Producer, TO_CONSUME Consumer
    product,    \* items produced
    consumed,   \* items consumed (history: how often the consumer printed)
    running,
    pc,
    joined      \* main has joined both threads

vars == <<owner, waiting, state, product, consumed, running, pc, joined>>

Init ==
    /\ CondInit
    /\ state = Producer
    /\ product = 0
    /\ consumed = 0
    /\ running = TRUE
    /\ pc = [t \in Threads |-> "head"]
    /\ joined = FALSE

Goto(t, from, to) ==
    /\ pc[t] = from
    /\ pc' = [pc EXCEPT ![t] = to]

-----------------------------------------------------------------------------
(* producer and consumer                                                   *)

LoopForever(t) ==           \* mutant: never tests running again
    /\ t = Consumer \/ product < MaxProduct \/ ~running
    /\ Goto(t, "head", "lock")
    /\ UNCHANGED <<owner, waiting, state, product, consumed, running, joined>>

(* while (running).  An iteration takes at least the delay of 100 ms, so   *)
(* few of them fit into main's sleep: MaxProduct stands for that limit.    *)
Loop(t) ==
    /\ t = Consumer \/ product < MaxProduct \/ ~running
    /\ Goto(t, "head", IF running THEN "lock" ELSE "exit")
    /\ UNCHANGED <<owner, waiting, state, product, consumed, running, joined>>

Acquire(t) ==
    /\ Goto(t, "lock", "test")
    /\ Lock(t)
    /\ UNCHANGED <<waiting, state, product, consumed, running, joined>>

MustWait(t) == state # t /\ running

(* running may change between its test and the start of the wait.          *)
Test(t) ==
    /\ MustWait(t)
    /\ Goto(t, "test", "sleep")
    /\ UNCHANGED <<owner, waiting, state, product, consumed, running, joined>>

Sleep(t) ==
    /\ Goto(t, "sleep", "wait")
    /\ Wait(t)
    /\ UNCHANGED <<state, product, consumed, running, joined>>

(* The work after the wait, and the unlock that ends it.                   *)
DoWork(t) ==
    /\ state' = Other(t)
    /\ product' = IF t = Producer THEN product + 1 ELSE product
    /\ consumed' = IF t = Consumer THEN consumed + 1 ELSE consumed
    /\ owner' = Nobody
    /\ UNCHANGED <<waiting, running, joined>>

WakeToWork(t) ==            \* mutant: an if where the code has a while
    /\ Goto(t, "wait", "signal")
    /\ t \notin waiting /\ owner = Nobody
    /\ DoWork(t)

Wake(t) ==
    /\ Goto(t, "wait", "test")
    /\ Relock(t)
    /\ UNCHANGED <<state, product, consumed, running, joined>>

(* The spurious return of the wait, which the while loop is there for.     *)
Spurious(t) ==
    /\ SpuriousWakeup(t)
    /\ UNCHANGED <<state, product, consumed, running, pc, joined>>

Work(t) ==
    /\ ~MustWait(t)
    /\ Goto(t, "test", "signal")
    /\ DoWork(t)

NotifyForgotten(t) ==       \* mutant: no signal
    /\ Goto(t, "signal", "head")
    /\ UNCHANGED <<owner, waiting, state, product, consumed, running, joined>>

(* The signal is sent after the unlock.                                    *)
Notify(t) ==
    /\ Goto(t, "signal", "head")
    /\ Signal
    /\ UNCHANGED <<owner, state, product, consumed, running, joined>>

Thread(t) ==
    \/ Loop(t) \/ Acquire(t) \/ Test(t) \/ Sleep(t) \/ Wake(t)
    \/ Work(t) \/ Notify(t)

-----------------------------------------------------------------------------
(* main                                                                    *)

Stop ==
    /\ running
    /\ running' = FALSE
    /\ UNCHANGED <<owner, waiting, state, product, consumed, pc, joined>>

Join ==
    /\ ~running /\ ~joined
    /\ \A t \in Threads : pc[t] = "exit"
    /\ joined' = TRUE
    /\ UNCHANGED <<owner, waiting, state, product, consumed, running, pc>>

Next == Stop \/ Join \/ \E t \in Threads : Thread(t) \/ Spurious(t)

(* The threads keep running, and a thread that asks for the mutex gets it  *)
(* (QNX queues threads of one priority in order).  Nothing is assumed of   *)
(* when main stops the lab, nor of spurious wakeups.                       *)
Fairness ==
    \A t \in Threads :
        /\ WF_vars(Thread(t))
        /\ SF_vars(Acquire(t))
        /\ SF_vars(Wake(t))

Spec == Init /\ [][Next]_vars /\ Fairness

-----------------------------------------------------------------------------
(* Properties                                                              *)

(* Every variable has its type.                                            *)
TypeOK ==
    /\ owner \in Threads \cup {Nobody}
    /\ waiting \in SUBSET Threads
    /\ state \in Threads
    /\ product \in Nat
    /\ consumed \in Nat
    /\ running \in BOOLEAN
    /\ pc \in [Threads -> {"head", "lock", "test", "sleep", "wait", "signal",
                           "exit"}]
    /\ joined \in BOOLEAN

(* While the lab runs, every product is consumed once before the next one  *)
(* is made: the counts agree but for the product that waits.               *)
EachConsumedOnce ==
    running => product = consumed + (IF state = Consumer THEN 1 ELSE 0)

(* Clearing running lets each thread out of its wait at most once more, so *)
(* at worst two products lie unconsumed or one is printed a second time.   *)
DriftBounded ==
    /\ product <= consumed + 2
    /\ consumed <= product + 1

(* No wakeup is lost between the test and the wait, nor between the unlock *)
(* and the signal that follows it: a thread asleep in its own turn is      *)
(* about to be signalled.                                                  *)
NoLostWakeup ==
    \A t \in waiting : state = t => pc[Other(t)] = "signal"

(* The lab sleeps for ever only after the shutdown, and only because the   *)
(* other thread has already left without a signal.                         *)
SleepsOnlyAtShutdown ==
    (\A t \in Threads : t \in waiting \/ pc[t] = "exit")
      => ~running /\ \E t \in Threads : pc[t] = "exit"

(* A product is consumed, unless main stops the lab.                       *)
ProductConsumed == product > consumed ~> (product = consumed \/ ~running)

-----------------------------------------------------------------------------
Inside == {"lock", "test", "sleep", "wait"}     \* before the work of a turn

(* The parties of the slot are the threads; once running is cleared those  *)
(* that are inside an iteration may still act.                             *)
Slot == INSTANCE OneSlot WITH
            Maker <- Producer,
            Taker <- Consumer,
            turn <- state,
            made <- product,
            open <- running,
            late <- IF running THEN Threads
                    ELSE {t \in Threads : pc[t] \in Inside}

(* The two loops take turns as OneSlot says.                               *)
TakesTurns == Slot!Spec
=============================================================================
