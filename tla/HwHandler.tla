----------------------------- MODULE HwHandler -----------------------------
(***************************************************************************)
(* Lab 15: a data provider appends items to a queue in batches, and a      *)
(* hardware handler takes them off and writes them, until main clears      *)
(* running.  The provider signals after it unlocks, and once more, without *)
(* the mutex, when it leaves; main itself signals nobody.  A write that    *)
(* fails makes the handler exit the whole process, and a malloc that fails *)
(* crashes it.  An item is the number of its addition.                     *)
(***************************************************************************)
EXTENDS Condvar, Integers, Sequences

CONSTANTS
    MaxBatch,   \* most items of a batch (rand() % 10)
    MaxItems    \* bounds the items added before main's sleep(10) ends

Hw == "hardware_handler"
Dp == "data_provider"
Threads == {Hw, Dp}

ASSUME HwAssumption ==
    /\ Nobody \notin Threads
    /\ MaxBatch \in Nat \ {0}
    /\ MaxItems \in Nat

VARIABLES
    queue,      \* the linked list
    nItems,     \* q_n_items
    ready,      \* data_ready
    running,
    pc,
    todo,       \* items the provider has left to add in this batch
    hand,       \* the item the handler has taken and not yet written
    added,      \* items added to the queue (history)
    written,    \* the items written to the hardware, in order (history)
    joined,     \* main has joined both threads
    process     \* "up", or ended by the handler: "exited", "crashed"

shared == <<owner, waiting, queue, nItems, ready>>
vars == <<shared, running, pc, todo, hand, added, written, joined, process>>

Init ==
    /\ CondInit
    /\ queue = <<>> /\ nItems = 0
    /\ ready = FALSE
    /\ running = TRUE
    /\ pc = [t \in Threads |-> "head"]
    /\ todo = 0
    /\ hand = <<>>
    /\ added = 0
    /\ written = <<>>
    /\ joined = FALSE
    /\ process = "up"

Goto(t, from, to) ==
    /\ pc[t] = from
    /\ pc' = [pc EXCEPT ![t] = to]

-----------------------------------------------------------------------------
(* hardware_handler                                                        *)

HwLoop ==
    /\ Goto(Hw, "head", IF running THEN "lock" ELSE "exit")
    /\ UNCHANGED <<shared, running, todo, hand, added, written, joined>>

HwAcquire ==
    /\ Goto(Hw, "lock", "test")
    /\ Lock(Hw)
    /\ UNCHANGED <<waiting, queue, nItems, ready,
                   running, todo, hand, added, written, joined>>

HwTestRunning ==    \* mutant: waits without looking at data_ready
    /\ Goto(Hw, "test", IF running THEN "sleep" ELSE "get")
    /\ UNCHANGED <<shared, running, todo, hand, added, written, joined>>

(* The test reads running, which others change without the mutex, some     *)
(* time before the wait starts.                                            *)
HwTest ==
    /\ Goto(Hw, "test", IF ~ready /\ running THEN "sleep" ELSE "get")
    /\ UNCHANGED <<shared, running, todo, hand, added, written, joined>>

HwSleep ==
    /\ Goto(Hw, "sleep", "wait")
    /\ Wait(Hw)
    /\ UNCHANGED <<queue, nItems, ready,
                   running, todo, hand, added, written, joined>>

(* The handler holds the mutex again: after the wait it tests again, after *)
(* a write it gets the next item.                                          *)
HwWake ==
    /\ \/ Goto(Hw, "wait", "test")
       \/ Goto(Hw, "relock", "get")
    /\ Relock(Hw)
    /\ UNCHANGED <<queue, nItems, ready,
                   running, todo, hand, added, written, joined>>

HwSpurious ==
    /\ SpuriousWakeup(Hw)
    /\ UNCHANGED <<queue, nItems, ready,
                   running, pc, todo, hand, added, written, joined>>

(* get_data_and_remove_from_queue found an item, and malloc the room for   *)
(* its copy; it is written unlocked.                                       *)
HwTake ==
    /\ queue # <<>>
    /\ Goto(Hw, "get", "write")
    /\ hand' = <<Head(queue)>>
    /\ queue' = Tail(queue)
    /\ nItems' = nItems - 1
    /\ Unlock(Hw)
    /\ UNCHANGED <<waiting, ready, running, todo, added, written, joined>>

HwWrite ==
    /\ Goto(Hw, "write", "relock")
    /\ written' = written \o hand
    /\ hand' = <<>>
    /\ UNCHANGED <<shared, running, todo, added, joined>>

(* malloc returns NULL, which nobody looks at, and the copy goes there:    *)
(* the process dies with the mutex locked and the queue as it was.         *)
HwTakeFails ==
    /\ queue # <<>> /\ pc[Hw] = "get"
    /\ process' = "crashed"
    /\ UNCHANGED <<shared, running, pc, todo, hand, added, written, joined>>

(* write() fails: exit(EXIT_FAILURE), with the item in hand unwritten.     *)
HwWriteFails ==
    /\ pc[Hw] = "write"
    /\ process' = "exited"
    /\ UNCHANGED <<shared, running, pc, todo, hand, added, written, joined>>

(* The queue is empty: data_ready goes back under the same lock.           *)
HwDrained ==
    /\ queue = <<>>
    /\ Goto(Hw, "get", "head")
    /\ ready' = FALSE
    /\ Unlock(Hw)
    /\ UNCHANGED <<waiting, queue, nItems,
                   running, todo, hand, added, written, joined>>

HwThread ==
    \/ HwLoop \/ HwAcquire \/ HwTest \/ HwSleep \/ HwWake
    \/ HwTake \/ HwWrite \/ HwDrained

-----------------------------------------------------------------------------
(* data_provider                                                           *)

DpLoopForever ==    \* mutant: does not test running
    /\ \E n \in 0 .. MaxBatch :
          /\ added + n <= MaxItems
          /\ Goto(Dp, "head", IF n > 0 THEN "lock" ELSE "head")
          /\ todo' = n
    /\ UNCHANGED <<shared, running, hand, added, written, joined>>

(* while (running): chooses the size of a batch, or leaves.  The sleep at  *)
(* the end of an iteration limits the items added while main sleeps.       *)
DpLoop ==
    /\ \/ running /\ \E n \in 0 .. MaxBatch :
             /\ added + n <= MaxItems
             /\ Goto(Dp, "head", IF n > 0 THEN "lock" ELSE "head")
             /\ todo' = n
       \/ ~running /\ Goto(Dp, "head", "leave") /\ UNCHANGED todo
    /\ UNCHANGED <<shared, running, hand, added, written, joined>>

DpAcquire ==
    /\ Goto(Dp, "lock", "add")
    /\ Lock(Dp)
    /\ UNCHANGED <<waiting, queue, nItems, ready,
                   running, todo, hand, added, written, joined>>

DpAddFirst ==       \* mutant: a new item becomes the head of the list
    /\ Goto(Dp, "add", "signal")
    /\ queue' = <<added + 1>> \o queue
    /\ nItems' = nItems + 1
    /\ added' = added + 1
    /\ ready' = TRUE
    /\ Unlock(Dp)
    /\ UNCHANGED <<waiting, running, todo, hand, written, joined>>

(* add_element_to_queue appends, or drops the item when malloc fails;      *)
(* data_ready is set in either case.                                       *)
DpAdd ==
    /\ Goto(Dp, "add", "signal")
    /\ \/ /\ queue' = Append(queue, added + 1)
          /\ nItems' = nItems + 1
          /\ added' = added + 1
       \/ UNCHANGED <<queue, nItems, added>>
    /\ ready' = TRUE
    /\ Unlock(Dp)
    /\ UNCHANGED <<waiting, running, todo, hand, written, joined>>

DpNoSignal ==       \* mutant: adds an item without a signal
    /\ Goto(Dp, "signal", IF todo > 1 THEN "lock" ELSE "head")
    /\ todo' = todo - 1
    /\ UNCHANGED <<shared, running, hand, added, written, joined>>

DpSignal ==
    /\ Goto(Dp, "signal", IF todo > 1 THEN "lock" ELSE "head")
    /\ Signal
    /\ todo' = todo - 1
    /\ UNCHANGED <<owner, queue, nItems, ready,
                   running, hand, added, written, joined>>

(* The last signal, after the loop.                                        *)
DpLeave ==
    /\ Goto(Dp, "leave", "exit")
    /\ Signal
    /\ UNCHANGED <<owner, queue, nItems, ready,
                   running, todo, hand, added, written, joined>>

DpThread == DpLoop \/ DpAcquire \/ DpAdd \/ DpSignal \/ DpLeave

-----------------------------------------------------------------------------
(* main                                                                    *)

Stop ==
    /\ running
    /\ running' = FALSE
    /\ UNCHANGED <<shared, pc, todo, hand, added, written, joined>>

Join ==
    /\ ~running /\ ~joined
    /\ \A t \in Threads : pc[t] = "exit"
    /\ joined' = TRUE
    /\ UNCHANGED <<shared, running, pc, todo, hand, added, written>>

(* Nothing runs in a process that has ended.                               *)
Up(A) == process = "up" /\ A /\ UNCHANGED process

Fails == process = "up" /\ (HwTakeFails \/ HwWriteFails)

Next ==
    \/ Up(HwThread) \/ Up(HwSpurious) \/ Up(DpThread) \/ Up(Stop) \/ Up(Join)
    \/ Fails

(* The threads keep running and get the mutex they ask for; main joins.    *)
(* Nothing is assumed of when main stops the lab, nor of spurious wakeups, *)
(* and no call has to fail.                                                *)
Fairness ==
    /\ WF_vars(Up(HwThread)) /\ SF_vars(Up(HwAcquire)) /\ SF_vars(Up(HwWake))
    /\ WF_vars(Up(DpThread)) /\ SF_vars(Up(DpAcquire))
    /\ WF_vars(Up(Join))

Spec == Init /\ [][Next]_vars /\ Fairness

-----------------------------------------------------------------------------
(* Properties                                                              *)

Items(n) == [i \in 1 .. n |-> i]

(* Every variable has its type.                                            *)
TypeOK ==
    /\ owner \in Threads \cup {Nobody}
    /\ waiting \in SUBSET {Hw}
    /\ {queue, hand, written} \subseteq Seq(Nat)
    /\ {nItems, todo, added} \subseteq Nat
    /\ {ready, running, joined} \subseteq BOOLEAN
    /\ process \in {"up", "exited", "crashed"}
    /\ pc \in [Threads -> {"head", "lock", "test", "sleep", "wait", "get", "write",
                           "relock", "add", "signal", "leave", "exit"}]

(* Every item added is written once and in the order of addition: what was *)
(* written, then the item in the handler's hand, then the queue.           *)
WrittenInOrder == written \o hand \o queue = Items(added)

(* q_n_items counts the queue, and data_ready is set while it has items.   *)
QueueAgrees ==
    /\ nItems = Len(queue)
    /\ queue # <<>> => ready

(* No wakeup is lost while the lab runs: a handler asleep beside ready     *)
(* data is about to be signalled.                                          *)
NoSleepOnData == Hw \in waiting /\ ready => pc[Dp] = "signal"

(* The handler is left asleep for ever only by a shutdown, and never with  *)
(* an item in the queue.                                                   *)
LeftAsleepIdle ==
    Hw \in waiting /\ pc[Dp] = "exit" => ~running /\ queue = <<>>

(* The process has ended with an item in hand or in the queue, which is    *)
(* then never written: over a failed write or a failed malloc, not idle.   *)
Failed ==
    \/ process = "exited" /\ hand # <<>>
    \/ process = "crashed" /\ queue # <<>> /\ owner = Hw

(* The process does not fail in any other way.                             *)
FailsOverItem == process # "up" => Failed

(* Every item is written, unless main stops the lab, or the process ends   *)
(* over an item it failed to write or to take.                             *)
EveryItemWritten ==
    \A i \in 1 .. MaxItems : added >= i ~> (Len(written) >= i \/ ~running \/ Failed)

(* After a shutdown main's joins return, or the handler has missed the     *)
(* last signal and sleeps on an empty queue, or the process has ended over *)
(* an item it failed to write or to take: the handler still empties the    *)
(* queue after the stop.                                                   *)
ShutdownEnds ==
    (<>~running) =>
      <>[](\/ joined
           \/ Hw \in waiting /\ pc[Dp] = "exit" /\ queue = <<>>
           \/ Failed)
=============================================================================
