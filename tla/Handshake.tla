------------------------------ MODULE Handshake ------------------------------
(***************************************************************************)
(* Lab 13: a worker waits on a condition variable until main has set ready *)
(* under the mutex and signalled; main joins it.                           *)
(***************************************************************************)
EXTENDS Condvar

VARIABLES
    ready,
    workerAt, mainAt    \* the two threads' places

handVars == <<ready, workerAt, mainAt>>

HandInit ==
    /\ CondInit
    /\ ready = FALSE
    /\ workerAt = "new" /\ mainAt = "create"

MainGoto(from, to) == mainAt = from /\ mainAt' = to
WorkerGoto(from, to) == workerAt = from /\ workerAt' = to

CreateWorker ==
    /\ MainGoto("create", "lock")
    /\ workerAt' = "lock"
    /\ UNCHANGED <<owner, waiting, ready>>

(* After two seconds.                                                      *)
MainLock ==
    /\ MainGoto("lock", "set")
    /\ Lock("main")
    /\ UNCHANGED <<waiting, ready, workerAt>>

SetReady ==
    /\ MainGoto("set", "signal")
    /\ ready' = TRUE
    /\ UNCHANGED <<owner, waiting, workerAt>>

MainSignal ==
    /\ MainGoto("signal", "unlock")
    /\ Signal
    /\ UNCHANGED <<owner, ready, workerAt>>

MainUnlock ==
    /\ MainGoto("unlock", "join")
    /\ Unlock("main")
    /\ UNCHANGED <<waiting, ready, workerAt>>

JoinWorker ==
    /\ MainGoto("join", "ended")
    /\ workerAt = "ended"
    /\ UNCHANGED <<owner, waiting, ready, workerAt>>

HandMain == CreateWorker \/ MainLock \/ SetReady \/ MainSignal \/ MainUnlock \/ JoinWorker

WorkerLock ==
    /\ WorkerGoto("lock", "test")
    /\ Lock("worker")
    /\ UNCHANGED <<waiting, ready, mainAt>>

WorkerTestOnce ==       \* mutant: waits without looking at ready
    /\ WorkerGoto("test", "wait")
    /\ Wait("worker")
    /\ UNCHANGED <<ready, mainAt>>

(* while (ready == 0) pthread_cond_wait                                    *)
WorkerTest ==
    /\ IF ready
       THEN WorkerGoto("test", "unlock") /\ UNCHANGED <<owner, waiting>>
       ELSE WorkerGoto("test", "wait") /\ Wait("worker")
    /\ UNCHANGED <<ready, mainAt>>

WorkerWake ==
    /\ WorkerGoto("wait", "test")
    /\ Relock("worker")
    /\ UNCHANGED <<ready, mainAt>>

WorkerUnlock ==
    /\ WorkerGoto("unlock", "ended")
    /\ Unlock("worker")
    /\ UNCHANGED <<waiting, ready, mainAt>>

Worker == WorkerLock \/ WorkerTest \/ WorkerWake \/ WorkerUnlock

WorkerSpurious ==
    /\ SpuriousWakeup("worker")
    /\ UNCHANGED handVars

HandNext == HandMain \/ Worker \/ WorkerSpurious

HandEnded == mainAt = "ended"
=============================================================================
