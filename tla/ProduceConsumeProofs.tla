------------------------ MODULE ProduceConsumeProofs ------------------------
(***************************************************************************)
(* Proofs about lab 16, for any number of products.                        *)
(***************************************************************************)
EXTENDS ProduceConsume, TLAPS

(* Who sleeps, who is between the lock and the unlock, who has left.       *)
PcInv ==
    \A t \in Threads :
        /\ t \in waiting => pc[t] = "wait"
        /\ pc[t] \in {"test", "sleep"} <=> owner = t
        /\ pc[t] = "sleep" => state # t
        /\ pc[t] = "exit" => ~running

(* A thread inside an iteration will work once more.                       *)
Pending(t) == IF pc[t] \in Inside THEN 1 ELSE 0

(* After the shutdown the counts are apart by what was in the slot and by  *)
(* the iterations that were under way.                                     *)
DriftInv ==
    ~running => /\ product + Pending(Producer) <= consumed + 2
                /\ consumed + Pending(Consumer) <= product + 1

IInv == TypeOK /\ PcInv /\ EachConsumedOnce /\ DriftInv /\ NoLostWakeup

LEMMA InitIInv == Init => IInv
  <1> SUFFICES ASSUME Init PROVE IInv
    OBVIOUS
  <1> USE ProduceAssumption
      DEF Init, CondInit, MutexInit, Threads, Producer, Consumer
  <1>1. TypeOK
    BY DEF TypeOK
  <1>2. PcInv
    BY DEF PcInv
  <1>3. EachConsumedOnce /\ DriftInv /\ NoLostWakeup
    BY DEF EachConsumedOnce, DriftInv, NoLostWakeup
  <1> QED BY <1>1, <1>2, <1>3 DEF IInv

(* The program counters and the lock.                                      *)
LEMMA NextPc ==
    ASSUME TypeOK, PcInv, [Next]_vars
    PROVE  TypeOK' /\ PcInv'
  <1> USE ProduceAssumption DEF TypeOK, PcInv
  <1>1. CASE UNCHANGED vars
    BY <1>1 DEF vars
  <1>2. CASE Stop
    BY <1>2 DEF Stop
  <1>3. CASE Join
    BY <1>3 DEF Join
  <1>4. ASSUME NEW t \in Threads, Loop(t)
        PROVE  TypeOK' /\ PcInv'
    <2>1. CASE running
      BY <1>4, <2>1 DEF Loop, Goto
    <2>2. CASE ~running
      BY <1>4, <2>2 DEF Loop, Goto
    <2> QED BY <2>1, <2>2
  <1>5. ASSUME NEW t \in Threads, Acquire(t)
        PROVE  TypeOK' /\ PcInv'
    BY <1>5 DEF Acquire, Goto, Lock
  <1>11. ASSUME NEW t \in Threads, Test(t)
         PROVE  TypeOK' /\ PcInv'
    BY <1>11 DEF Test, MustWait, Goto
  <1>6. ASSUME NEW t \in Threads, Sleep(t)
        PROVE  TypeOK' /\ PcInv'
    BY <1>6 DEF Sleep, Goto, Wait, Unlock
  <1>7. ASSUME NEW t \in Threads, Wake(t)
        PROVE  TypeOK' /\ PcInv'
    BY <1>7 DEF Wake, Goto, Relock, Lock
  <1>8. ASSUME NEW t \in Threads, Work(t)
        PROVE  TypeOK' /\ PcInv'
    BY <1>8 DEF Work, DoWork, Goto, Other, Threads, Producer, Consumer
  <1>9. ASSUME NEW t \in Threads, Notify(t)
        PROVE  TypeOK' /\ PcInv'
    BY <1>9 DEF Notify, Goto, Signal
  <1>10. ASSUME NEW t \in Threads, Spurious(t)
         PROVE  TypeOK' /\ PcInv'
    BY <1>10 DEF Spurious, SpuriousWakeup
  <1> QED BY <1>1, <1>2, <1>3, <1>4, <1>5, <1>6, <1>7, <1>8, <1>9, <1>10, <1>11
          DEF Next, Thread

(* The counts, the drift and the wakeups.                                  *)
LEMMA NextCounts ==
    ASSUME IInv, [Next]_vars
    PROVE  EachConsumedOnce' /\ DriftInv' /\ NoLostWakeup'
  <1> USE ProduceAssumption
      DEF IInv, TypeOK, PcInv, EachConsumedOnce, DriftInv, NoLostWakeup,
          Pending, Inside, Other, Threads, Producer, Consumer
  <1>1. CASE UNCHANGED vars
    BY <1>1 DEF vars
  <1>2. CASE Stop
    BY <1>2 DEF Stop
  <1>3. CASE Join
    BY <1>3 DEF Join
  <1>4. ASSUME NEW t \in Threads, Loop(t)
        PROVE  EachConsumedOnce' /\ DriftInv' /\ NoLostWakeup'
    BY <1>4 DEF Loop, Goto
  <1>5. ASSUME NEW t \in Threads, Acquire(t)
        PROVE  EachConsumedOnce' /\ DriftInv' /\ NoLostWakeup'
    BY <1>5 DEF Acquire, Goto, Lock
  <1>11. ASSUME NEW t \in Threads, Test(t)
         PROVE  EachConsumedOnce' /\ DriftInv' /\ NoLostWakeup'
    BY <1>11 DEF Test, Goto
  <1>6. ASSUME NEW t \in Threads, Sleep(t)
        PROVE  EachConsumedOnce' /\ DriftInv' /\ NoLostWakeup'
    BY <1>6 DEF Sleep, Goto, Wait, Unlock
  <1>7. ASSUME NEW t \in Threads, Wake(t)
        PROVE  EachConsumedOnce' /\ DriftInv' /\ NoLostWakeup'
    BY <1>7 DEF Wake, Goto, Relock, Lock
  <1>8. ASSUME NEW t \in Threads, Work(t)
        PROVE  EachConsumedOnce' /\ DriftInv' /\ NoLostWakeup'
    <2>1. CASE t = Producer
      BY <1>8, <2>1 DEF Work, DoWork, MustWait, Goto
    <2>2. CASE t = Consumer
      BY <1>8, <2>2 DEF Work, DoWork, MustWait, Goto
    <2> QED BY <2>1, <2>2
  <1>9. ASSUME NEW t \in Threads, Notify(t)
        PROVE  EachConsumedOnce' /\ DriftInv' /\ NoLostWakeup'
    <2>1. waiting' = {}
      BY <1>9 DEF Notify, Goto, Signal
    <2> QED BY <1>9, <2>1 DEF Notify, Goto
  <1>10. ASSUME NEW t \in Threads, Spurious(t)
         PROVE  EachConsumedOnce' /\ DriftInv' /\ NoLostWakeup'
    BY <1>10 DEF Spurious, SpuriousWakeup
  <1> QED BY <1>1, <1>2, <1>3, <1>4, <1>5, <1>6, <1>7, <1>8, <1>9, <1>10, <1>11
          DEF Next, Thread

LEMMA Invariance == Spec => []IInv
  <1>1. IInv /\ [Next]_vars => IInv'
    BY NextPc, NextCounts DEF IInv
  <1> QED BY <1>1, InitIInv, PTL DEF Spec

-----------------------------------------------------------------------------
(* Every variable keeps its type.                                          *)
THEOREM TypeCorrect == Spec => []TypeOK
  <1>1. IInv => TypeOK
    BY DEF IInv
  <1> QED BY <1>1, Invariance, PTL

(* While the lab runs each product is consumed once.                       *)
THEOREM ConsumedExactly == Spec => []EachConsumedOnce
  <1>1. IInv => EachConsumedOnce
    BY DEF IInv
  <1> QED BY <1>1, Invariance, PTL

(* After it stops the counts drift apart by a bounded amount.              *)
THEOREM DriftStaysBounded == Spec => []DriftBounded
  <1>1. IInv => DriftBounded
    BY DEF IInv, TypeOK, EachConsumedOnce, DriftInv, DriftBounded, Pending
  <1> QED BY <1>1, Invariance, PTL

(* No wakeup is lost.                                                      *)
THEOREM WakeupsKept == Spec => []NoLostWakeup
  <1>1. IInv => NoLostWakeup
    BY DEF IInv
  <1> QED BY <1>1, Invariance, PTL

(* The two threads never both sleep, nor does one sleep beside one that    *)
(* has left while the lab runs.                                            *)
THEOREM NoDeadlockWhileRunning == Spec => []SleepsOnlyAtShutdown
  <1>1. IInv => SleepsOnlyAtShutdown
    BY DEF IInv, TypeOK, PcInv, NoLostWakeup, SleepsOnlyAtShutdown,
           Threads, Producer, Consumer, Other
  <1> QED BY <1>1, Invariance, PTL

(* The lab implements the abstract slot: turns while it is open, at most   *)
(* one more act of each party once it is closed.                           *)
THEOREM ImplementsSlot == Spec => TakesTurns
  <1> DEFINE Late == IF running THEN Threads
                     ELSE {t \in Threads : pc[t] \in Inside}
  <1> USE DEF Threads, Producer, Consumer, Slot!Parties
  <1>1. Init => Slot!Init
    BY DEF Init, Slot!Init
  <1>2. TypeOK /\ [Next]_vars
          => [Slot!Next]_<<state, product, running, Late>>
    <2> SUFFICES ASSUME TypeOK, [Next]_vars
                 PROVE  Slot!Next \/ UNCHANGED <<state, product, running, Late>>
      OBVIOUS
    <2> USE DEF TypeOK
    <2>1. CASE UNCHANGED vars
      BY <2>1 DEF vars
    <2>2. CASE Stop
      BY <2>2 DEF Stop, Slot!Next, Slot!Close
    <2>3. CASE Join
      BY <2>3 DEF Join
    <2>4. ASSUME NEW t \in Threads, Loop(t) \/ Acquire(t) \/ Test(t) \/ Sleep(t) \/ Wake(t)
          PROVE  UNCHANGED <<state, product, running, Late>>
      BY <2>4 DEF Loop, Acquire, Test, Sleep, Wake, Goto, Inside
    <2>5. ASSUME NEW t \in Threads, Notify(t) \/ Spurious(t)
          PROVE  UNCHANGED <<state, product, running, Late>>
      BY <2>5 DEF Notify, Spurious, Goto, Inside
    <2>6. ASSUME NEW t \in Threads, Work(t), running
          PROVE  Slot!InTurn(t)
      BY <2>6 DEF Work, DoWork, MustWait, Other, Slot!InTurn, Slot!Act
    <2>7. ASSUME NEW t \in Threads, Work(t), ~running
          PROVE  Slot!OutOfTurn(t)
      <3>1. t \in Late /\ Late' = Late \ {t}
        BY <2>7 DEF Work, DoWork, Goto, Inside
      <3> QED BY <2>7, <3>1 DEF Work, DoWork, Other, Slot!OutOfTurn, Slot!Act
    <2> QED BY <2>1, <2>2, <2>3, <2>4, <2>5, <2>6, <2>7
            DEF Next, Thread, Slot!Next
  <1> QED BY <1>1, <1>2, TypeCorrect, PTL DEF Spec, TakesTurns, Slot!Spec
=============================================================================
