--------------------------- MODULE HwHandlerProofs ---------------------------
(***************************************************************************)
(* Proofs about lab 15, for any size of batches and any number of items.   *)
(***************************************************************************)
EXTENDS HwHandler, SequenceTheorems, TLAPS

(* Who holds the mutex, who sleeps, who has left; the handler has an item  *)
(* in hand just while it writes, and decides to sleep only with no data.   *)
PcInv ==
    /\ owner = Hw <=> pc[Hw] \in {"test", "sleep", "get"}
    /\ owner = Dp <=> pc[Dp] = "add"
    /\ Hw \in waiting => pc[Hw] = "wait"
    /\ pc[Dp] \in {"leave", "exit"} => ~running
    /\ pc[Hw] = "write" <=> hand # <<>>
    /\ pc[Hw] = "sleep" => ~ready
    /\ pc[Dp] \in {"lock", "add", "signal"} => todo > 0

IInv ==
    TypeOK /\ PcInv /\ WrittenInOrder /\ QueueAgrees /\ NoSleepOnData /\ FailsOverItem

-----------------------------------------------------------------------------
(* Lemmas about sequences                                                  *)

(* A list is its head and its tail.                                        *)
LEMMA HeadAndTail ==
    ASSUME NEW q \in Seq(Nat), q # <<>>
    PROVE  /\ <<Head(q)>> \in Seq(Nat) /\ Tail(q) \in Seq(Nat)
           /\ <<Head(q)>> \o Tail(q) = q
           /\ Len(Tail(q)) = Len(q) - 1
           /\ Len(q) \in Nat \ {0}
  <1>1. /\ Head(q) \in Nat /\ Tail(q) \in Seq(Nat)
        /\ Len(Tail(q)) = Len(q) - 1 /\ Len(q) \in Nat \ {0}
    BY HeadTailProperties, EmptySeq
  <1>2. SubSeq(q, 1, Len(q)) = <<q[1]>> \o SubSeq(q, 1 + 1, Len(q))
    <2>1. 1 \in 1 .. Len(q) /\ Len(q) \in 1 .. Len(q)
      BY <1>1
    <2> QED BY <2>1, SubSeqRecursiveFirst
  <1>3. SubSeq(q, 1, Len(q)) = q /\ SubSeq(q, 1 + 1, Len(q)) = Tail(q)
    BY SubSeqFull, TailIsSubSeq
  <1>4. Head(q) = q[1]
    OBVIOUS
  <1> QED BY <1>1, <1>2, <1>3, <1>4

(* Taking the head of the queue in hand moves no item past another.        *)
LEMMA HeadInHand ==
    ASSUME NEW w \in Seq(Nat), NEW q \in Seq(Nat), q # <<>>
    PROVE  (w \o <<Head(q)>>) \o Tail(q) = (w \o <<>>) \o q
  <1>1. <<Head(q)>> \in Seq(Nat) /\ Tail(q) \in Seq(Nat)
        /\ <<Head(q)>> \o Tail(q) = q
    BY HeadAndTail
  <1>2. (w \o <<Head(q)>>) \o Tail(q) = w \o (<<Head(q)>> \o Tail(q))
    BY <1>1
  <1> QED BY <1>1, <1>2, ConcatEmptySeq

(* Appending to the last of three lists appends to their concatenation.    *)
AppendsTo(w, h, q, x) ==
    /\ Append(q, x) \in Seq(Nat)
    /\ Len(Append(q, x)) = Len(q) + 1
    /\ (w \o h) \o Append(q, x) = Append((w \o h) \o q, x)

LEMMA AppendToConcat ==
    ASSUME NEW w \in Seq(Nat), NEW h \in Seq(Nat), NEW q \in Seq(Nat),
           NEW x \in Nat
    PROVE  AppendsTo(w, h, q, x)
  <1>1. ASSUME NEW r \in Seq(Nat) PROVE r \o Append(q, x) = Append(r \o q, x)
    <2>1. <<x>> \in Seq(Nat)
      OBVIOUS
    <2>2. (r \o q) \o <<x>> = r \o (q \o <<x>>)
      BY <2>1
    <2>3. r \o q \in Seq(Nat)
      BY ConcatProperties
    <2>4. Append(q, x) = q \o <<x>> /\ Append(r \o q, x) = (r \o q) \o <<x>>
      BY <2>3, AppendIsConcat
    <2> QED BY <2>2, <2>4
  <1>2. w \o h \in Seq(Nat)
    BY ConcatProperties
  <1>3. Append(q, x) \in Seq(Nat) /\ Len(Append(q, x)) = Len(q) + 1
    BY AppendProperties
  <1> QED BY <1>1, <1>2, <1>3 DEF AppendsTo

(* The items added so far, and one more.                                   *)
LEMMA OneMoreItem ==
    ASSUME NEW n \in Nat
    PROVE  Append(Items(n), n + 1) = Items(n + 1)
  BY DEF Items

-----------------------------------------------------------------------------
LEMMA InitIInv == Init => IInv
  <1> SUFFICES ASSUME Init PROVE IInv
    OBVIOUS
  <1> USE HwAssumption DEF Init, CondInit, MutexInit
  <1>1. TypeOK
    <2>1. <<>> \in Seq(Nat)
      OBVIOUS
    <2>2. {queue, hand, written} \subseteq Seq(Nat)
      BY <2>1
    <2>3. {nItems, todo, added} \subseteq Nat
      OBVIOUS
    <2>4. {ready, running, joined} \subseteq BOOLEAN
      OBVIOUS
    <2> QED BY <2>2, <2>3, <2>4 DEF TypeOK
  <1>2. PcInv
    BY DEF PcInv, Threads, Hw, Dp
  <1>3. WrittenInOrder
    BY DEF WrittenInOrder, Items
  <1>4. QueueAgrees /\ NoSleepOnData /\ FailsOverItem
    BY DEF QueueAgrees, NoSleepOnData, FailsOverItem
  <1> QED BY <1>1, <1>2, <1>3, <1>4 DEF IInv

(* Steps that leave the queue, the hand and the items written alone.       *)
LEMMA QuietSteps ==
    ASSUME IInv, process' = "up",
           HwLoop \/ HwAcquire \/ HwTest \/ HwSleep \/ HwWake
             \/ HwSpurious \/ HwDrained \/ DpLoop \/ DpAcquire \/ DpSignal
             \/ DpLeave \/ Stop \/ Join
    PROVE  IInv'
  <1> USE HwAssumption DEF IInv, Threads, Hw, Dp
  <1>1. UNCHANGED <<queue, nItems, hand, added, written>> /\ (ready' => ready)
    BY DEF shared, HwLoop, HwAcquire, HwTest, HwSleep, HwWake, HwSpurious,
           HwDrained, DpLoop, DpAcquire, DpSignal, DpLeave, Stop, Join
  <1>2. WrittenInOrder'
    BY <1>1 DEF WrittenInOrder
  <1>3. FailsOverItem'
    BY DEF FailsOverItem
  <1> USE <1>3 DEF TypeOK, PcInv, QueueAgrees, NoSleepOnData
  <1>4. CASE HwLoop
    <2>1. pc' = [pc EXCEPT ![Hw] = "lock"] \/ pc' = [pc EXCEPT ![Hw] = "exit"]
      BY <1>4 DEF HwLoop, Goto
    <2> QED BY <1>2, <1>4, <2>1 DEF HwLoop, Goto, shared
  <1>5. CASE HwAcquire
    BY <1>2, <1>5 DEF HwAcquire, Goto, Lock
  <1>6. CASE HwTest
    <2>1. CASE ~ready /\ running
      BY <1>2, <1>6, <2>1 DEF HwTest, Goto, shared
    <2>2. CASE ~(~ready /\ running)
      BY <1>2, <1>6, <2>2 DEF HwTest, Goto, shared
    <2> QED BY <2>1, <2>2
  <1>7. CASE HwSleep
    BY <1>2, <1>7 DEF HwSleep, Goto, Wait, Unlock
  <1>8. CASE HwWake
    BY <1>2, <1>8 DEF HwWake, Goto, Relock, Lock
  <1>9. CASE HwSpurious
    BY <1>2, <1>9 DEF HwSpurious, SpuriousWakeup
  <1>10. CASE HwDrained
    BY <1>2, <1>10 DEF HwDrained, Goto, Unlock
  <1>11. CASE DpLoop
    <2>1. CASE running
      <3>1. PICK n \in 0 .. MaxBatch :
              /\ Goto(Dp, "head", IF n > 0 THEN "lock" ELSE "head")
              /\ todo' = n
        BY <1>11, <2>1 DEF DpLoop
      <3>2. \/ pc' = [pc EXCEPT ![Dp] = "lock"] /\ n > 0
            \/ pc' = [pc EXCEPT ![Dp] = "head"]
        BY <3>1 DEF Goto
      <3> QED BY <1>2, <1>11, <3>1, <3>2 DEF DpLoop, Goto, shared
    <2>2. CASE ~running
      BY <1>2, <1>11, <2>2 DEF DpLoop, Goto, shared
    <2> QED BY <2>1, <2>2
  <1>12. CASE DpAcquire
    BY <1>2, <1>12 DEF DpAcquire, Goto, Lock
  <1>13. CASE DpSignal
    <2>1. waiting' = {}
      BY <1>13 DEF DpSignal, Signal
    <2>2. todo' \in Nat /\ (todo > 1 => todo' > 0)
      BY <1>13 DEF DpSignal, Goto
    <2>3. CASE todo > 1
      BY <1>2, <1>13, <2>1, <2>2, <2>3 DEF DpSignal, Goto
    <2>4. CASE ~(todo > 1)
      BY <1>2, <1>13, <2>1, <2>2, <2>4 DEF DpSignal, Goto
    <2> QED BY <2>3, <2>4
  <1>14. CASE DpLeave
    BY <1>2, <1>14 DEF DpLeave, Goto, Signal
  <1>15. CASE Stop
    BY <1>2, <1>15 DEF Stop, shared
  <1>16. CASE Join
    BY <1>2, <1>16 DEF Join, shared
  <1> QED BY <1>4, <1>5, <1>6, <1>7, <1>8, <1>9, <1>10, <1>11, <1>12,
             <1>13, <1>14, <1>15, <1>16
(* The handler takes the head of the queue into its hand.                  *)
LEMMA TakeStep == ASSUME IInv, HwTake, process' = "up" PROVE IInv'
  <1> USE HwAssumption DEF IInv, TypeOK, PcInv, HwTake, Goto, Unlock, Threads, Hw, Dp
  <1>1. /\ hand = <<>> /\ hand' = <<Head(queue)>> /\ written' = written
        /\ queue' = Tail(queue) /\ added' = added
        /\ queue \in Seq(Nat) /\ queue # <<>> /\ written \in Seq(Nat)
    OBVIOUS
  <1>2. /\ hand' \in Seq(Nat) /\ queue' \in Seq(Nat)
        /\ Len(queue') = Len(queue) - 1
        /\ Len(queue) \in Nat \ {0}
    BY <1>1, HeadAndTail
  <1>3. TypeOK'
    BY <1>1, <1>2 DEF QueueAgrees
  <1>4. WrittenInOrder'
    <2>1. (written \o <<Head(queue)>>) \o Tail(queue) = (written \o <<>>) \o queue
      BY <1>1, HeadInHand
    <2> QED BY <1>1, <2>1 DEF WrittenInOrder, Items
  <1>5. PcInv' /\ NoSleepOnData' /\ FailsOverItem'
    BY <1>1 DEF NoSleepOnData, FailsOverItem
  <1>6. QueueAgrees'
    BY <1>1, <1>2 DEF QueueAgrees
  <1> QED BY <1>3, <1>4, <1>5, <1>6

(* The item in hand is written.                                            *)
LEMMA WriteStep == ASSUME IInv, HwWrite, process' = "up" PROVE IInv'
  <1> USE HwAssumption DEF IInv, TypeOK, PcInv, HwWrite, Goto, shared, Threads, Hw, Dp
  <1>1. /\ written' = written \o hand /\ hand' = <<>>
        /\ queue' = queue /\ added' = added
        /\ written \in Seq(Nat) /\ hand \in Seq(Nat)
    OBVIOUS
  <1>2. written' \in Seq(Nat) /\ written' \o hand' = written \o hand
    BY <1>1, ConcatProperties, ConcatEmptySeq
  <1>3. TypeOK'
    BY <1>1, <1>2
  <1>4. WrittenInOrder'
    BY <1>1, <1>2 DEF WrittenInOrder, Items
  <1>5. PcInv' /\ NoSleepOnData' /\ QueueAgrees' /\ FailsOverItem'
    BY DEF NoSleepOnData, QueueAgrees, FailsOverItem
  <1> QED BY <1>3, <1>4, <1>5

(* The provider appends an item, or fails to.                              *)
LEMMA AddStep == ASSUME IInv, DpAdd, process' = "up" PROVE IInv'
  <1> USE HwAssumption DEF IInv, TypeOK, PcInv, DpAdd, Goto, Unlock, Threads, Hw, Dp
  <1>1. PcInv' /\ NoSleepOnData' /\ FailsOverItem'
    BY DEF NoSleepOnData, FailsOverItem
  <1>2. CASE UNCHANGED <<queue, nItems, added>>
    BY <1>1, <1>2 DEF WrittenInOrder, Items, QueueAgrees
  <1>3. CASE /\ queue' = Append(queue, added + 1)
             /\ nItems' = nItems + 1
             /\ added' = added + 1
    <2>1. /\ written \in Seq(Nat) /\ hand \in Seq(Nat) /\ queue \in Seq(Nat)
          /\ added + 1 \in Nat
      OBVIOUS
    <2>2. /\ queue' \in Seq(Nat) /\ Len(queue') = Len(queue) + 1
          /\ (written \o hand) \o queue'
               = Append((written \o hand) \o queue, added + 1)
      <3>1. AppendsTo(written, hand, queue, added + 1)
        BY <2>1, AppendToConcat
      <3> QED BY <1>3, <3>1 DEF AppendsTo
    <2>3. WrittenInOrder'
      <3>1. Append(Items(added), added + 1) = Items(added + 1)
        BY OneMoreItem
      <3> QED BY <1>3, <2>2, <3>1 DEF WrittenInOrder
    <2>4. TypeOK' /\ QueueAgrees'
      BY <1>3, <2>1, <2>2 DEF QueueAgrees
    <2> QED BY <1>1, <2>3, <2>4
  <1> QED BY <1>2, <1>3

(* The process ends, over the item in hand or at the head of the queue.    *)
LEMMA FailStep == ASSUME IInv, Fails PROVE IInv'
  <1>1. UNCHANGED <<shared, running, pc, todo, hand, added, written, joined>>
    BY DEF Fails, HwTakeFails, HwWriteFails
  <1>2. TypeOK'
    BY <1>1 DEF IInv, TypeOK, shared, Fails, HwTakeFails, HwWriteFails
  <1>3. FailsOverItem'
    BY <1>1 DEF IInv, PcInv, FailsOverItem, Failed, shared, Fails, HwTakeFails, HwWriteFails
  <1>4. (PcInv /\ WrittenInOrder /\ QueueAgrees /\ NoSleepOnData)'
    BY <1>1 DEF IInv, PcInv, WrittenInOrder, QueueAgrees, NoSleepOnData, shared
  <1> QED BY <1>2, <1>3, <1>4 DEF IInv

LEMMA Invariance == Spec => []IInv
  <1>1. IInv /\ UNCHANGED vars => IInv'
    BY DEF IInv, TypeOK, PcInv, WrittenInOrder, QueueAgrees, NoSleepOnData, FailsOverItem,
           Failed, vars, shared
  <1>2. IInv /\ [Next]_vars => IInv'
    BY <1>1, QuietSteps, TakeStep, WriteStep, AddStep, FailStep
       DEF Next, Up, HwThread, DpThread
  <1> QED BY <1>2, InitIInv, PTL DEF Spec

-----------------------------------------------------------------------------
(* Every variable keeps its type.                                          *)
THEOREM TypeCorrect == Spec => []TypeOK
  <1>1. IInv => TypeOK
    BY DEF IInv
  <1> QED BY <1>1, Invariance, PTL

(* Every item is written once and in order, with no bound on their number. *)
THEOREM ItemsInOrder == Spec => []WrittenInOrder
  <1>1. IInv => WrittenInOrder
    BY DEF IInv
  <1> QED BY <1>1, Invariance, PTL

(* The counter and data_ready agree with the queue.                        *)
THEOREM QueueConsistent == Spec => []QueueAgrees
  <1>1. IInv => QueueAgrees
    BY DEF IInv
  <1> QED BY <1>1, Invariance, PTL

(* No wakeup is lost.                                                      *)
THEOREM WakeupsKept == Spec => []NoSleepOnData
  <1>1. IInv => NoSleepOnData
    BY DEF IInv
  <1> QED BY <1>1, Invariance, PTL

(* The process ends early only over an item that is then never written.    *)
THEOREM EndsOverItem == Spec => []FailsOverItem
  <1>1. IInv => FailsOverItem
    BY DEF IInv
  <1> QED BY <1>1, Invariance, PTL

(* Whoever is left asleep at the shutdown leaves no item behind.           *)
THEOREM IdleWhenLeft == Spec => []LeftAsleepIdle
  <1>1. IInv => LeftAsleepIdle
    BY DEF IInv, PcInv, QueueAgrees, NoSleepOnData, LeftAsleepIdle
  <1> QED BY <1>1, Invariance, PTL
==============================================================================
