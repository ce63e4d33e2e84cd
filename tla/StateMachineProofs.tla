------------------------- MODULE StateMachineProofs -------------------------
(***************************************************************************)
(* Proofs about lab 17, for any modulus of the counter.                    *)
(***************************************************************************)
EXTENDS StateMachine, TLAPS

(* Who sleeps, who is between the lock and the unlock, who has left.       *)
PcInv ==
    \A k \in States :
        /\ k \in waiting => pc[k] = "wait"
        /\ pc[k] = "test" <=> owner = k
        /\ pc[k] = "exit" => ~running

IInv == TypeOK /\ PcInv /\ ParityAgrees /\ NoLostWakeup

(* The step of state one stays in range and chooses by parity.             *)
LEMMA CountStep ==
    ASSUME TypeOK, Count
    PROVE  /\ counter' \in 0 .. Modulus - 1
           /\ state' \in {2, 3}
           /\ state' = 2 => counter' % 2 = 0
           /\ state' = 3 => counter' % 2 = 1
  <1>1. /\ counter + 1 \in Int
        /\ Modulus \in Nat \ {0}
    BY StateAssumption DEF TypeOK
  <1>2. (counter + 1) % Modulus \in 0 .. Modulus - 1
    BY <1>1
  <1> DEFINE c == (counter + 1) % Modulus
  <1>3. c \in Nat
    BY <1>1, <1>2
  <1> HIDE DEF c
  <1>4. c % 2 = 0 \/ c % 2 = 1
    BY <1>3
  <1>5. counter' = c /\ state' = IF c % 2 = 0 THEN 2 ELSE 3
    BY DEF Count, c
  <1> QED BY <1>2, <1>4, <1>5 DEF c

LEMMA InitIInv == Init => IInv
  <1> SUFFICES ASSUME Init PROVE IInv
    OBVIOUS
  <1> USE StateAssumption DEF Init, CondInit, MutexInit, States
  <1>1. TypeOK
    <2>1. state \in States /\ 0 \in 0 .. Modulus - 1
      OBVIOUS
    <2>2. pc \in [States -> {"head", "lock", "test", "wait", "broadcast", "exit"}]
      OBVIOUS
    <2> QED BY <2>1, <2>2 DEF TypeOK
  <1>2. PcInv
    BY DEF PcInv
  <1>3. ParityAgrees /\ NoLostWakeup
    BY DEF ParityAgrees, NoLostWakeup
  <1> QED BY <1>1, <1>2, <1>3 DEF IInv

LEMMA NextIInv == IInv /\ [Next]_vars => IInv'
  <1> SUFFICES ASSUME IInv, [Next]_vars PROVE IInv'
    OBVIOUS
  <1> USE StateAssumption DEF IInv, TypeOK, PcInv, ParityAgrees, NoLostWakeup
  <1>1. CASE UNCHANGED vars
    BY <1>1 DEF vars
  <1>2. CASE Stop
    BY <1>2 DEF Stop
  <1>3. CASE Join
    BY <1>3 DEF Join
  <1>4. ASSUME NEW k \in States, Loop(k)
        PROVE  IInv'
    <2>1. CASE running
      BY <1>4, <2>1 DEF Loop, Goto
    <2>2. CASE ~running
      BY <1>4, <2>2 DEF Loop, Goto
    <2> QED BY <2>1, <2>2
  <1>5. ASSUME NEW k \in States, Acquire(k)
        PROVE  IInv'
    BY <1>5 DEF Acquire, Goto, Lock
  <1>6. ASSUME NEW k \in States, Sleep(k)
        PROVE  IInv'
    BY <1>6 DEF Sleep, Goto, Wait, Unlock
  <1>7. ASSUME NEW k \in States, Wake(k)
        PROVE  IInv'
    BY <1>7 DEF Wake, Goto, Relock, Lock
  <1>8. ASSUME NEW k \in States, Work(k)
        PROVE  IInv'
    <2> USE <1>8 DEF Work, Goto, Unlock
    <2>1. CASE k = 1
      <3>1. Count
        BY <2>1
      <3>2. /\ counter' \in 0 .. Modulus - 1
            /\ state' \in {2, 3}
            /\ state' = 2 => counter' % 2 = 0
            /\ state' = 3 => counter' % 2 = 1
        BY <3>1, CountStep
      <3>3. TypeOK' /\ PcInv' /\ NoLostWakeup'
        BY <3>2 DEF States
      <3> QED BY <3>2, <3>3
    <2>2. CASE k # 1
      <3>1. state' \in {0, 1} /\ counter' = counter
        BY <2>2
      <3> QED BY <3>1 DEF States
    <2> QED BY <2>1, <2>2
  <1>9. ASSUME NEW k \in States, Notify(k)
        PROVE  IInv'
    BY <1>9 DEF Notify, Goto, Broadcast
  <1>10. ASSUME NEW k \in States, Spurious(k)
         PROVE  IInv'
    BY <1>10 DEF Spurious, SpuriousWakeup
  <1> QED BY <1>1, <1>2, <1>3, <1>4, <1>5, <1>6, <1>7, <1>8, <1>9, <1>10
          DEF Next, Thread

LEMMA Invariance == Spec => []IInv
  BY InitIInv, NextIInv, PTL DEF Spec

-----------------------------------------------------------------------------
(* Every variable keeps its type.                                          *)
THEOREM TypeCorrect == Spec => []TypeOK
  <1>1. IInv => TypeOK
    BY DEF IInv
  <1> QED BY <1>1, Invariance, PTL

(* The state and the parity of the counter always agree.                   *)
THEOREM ParityCorrect == Spec => []ParityAgrees
  <1>1. IInv => ParityAgrees
    BY DEF IInv
  <1> QED BY <1>1, Invariance, PTL

(* No wakeup is lost.                                                      *)
THEOREM WakeupsKept == Spec => []NoLostWakeup
  <1>1. IInv => NoLostWakeup
    BY DEF IInv
  <1> QED BY <1>1, Invariance, PTL

(* The machine stands still only after a shutdown, at a state whose thread *)
(* has ended.                                                              *)
THEOREM StandsOnlyAtShutdown == Spec => []StandsOnlyWithoutItsThread
  <1>1. IInv => StandsOnlyWithoutItsThread
    <2> SUFFICES ASSUME IInv, \A k \in States : k \in waiting \/ pc[k] = "exit"
                 PROVE  ~running /\ pc[state] = "exit"
      BY DEF StandsOnlyWithoutItsThread
    <2>1. \A j \in States : pc[j] # "broadcast"
      BY DEF IInv, PcInv
    <2>2. state \in States /\ state \notin waiting
      BY <2>1 DEF IInv, TypeOK, NoLostWakeup
    <2> QED BY <2>2 DEF IInv, PcInv
  <1> QED BY <1>1, Invariance, PTL

(* The four threads implement the machine.                                 *)
THEOREM ImplementsMachine == Spec => StepsAsMachine
  <1>1. Init => Machine!Init
    BY DEF Init, Machine!Init
  <1>2. [Next]_vars => [Machine!Next]_<<state, counter>>
    <2> SUFFICES ASSUME [Next]_vars
                 PROVE  Machine!Next \/ UNCHANGED <<state, counter>>
      OBVIOUS
    <2>1. CASE UNCHANGED vars
      BY <2>1 DEF vars
    <2>2. CASE Stop \/ Join
      BY <2>2 DEF Stop, Join
    <2>3. ASSUME NEW k \in States, Loop(k) \/ Acquire(k) \/ Sleep(k) \/ Wake(k)
                                   \/ Notify(k) \/ Spurious(k)
          PROVE  UNCHANGED <<state, counter>>
      BY <2>3 DEF Loop, Acquire, Sleep, Wake, Notify, Spurious
    <2>4. ASSUME NEW k \in States, Work(k)
          PROVE  Machine!Next
      BY <2>4 DEF Work, Count, States, Machine!Next, Machine!Enter,
                  Machine!Count, Machine!Return
    <2> QED BY <2>1, <2>2, <2>3, <2>4 DEF Next, Thread
  <1> QED BY <1>1, <1>2, PTL DEF Spec, StepsAsMachine, Machine!Spec
=============================================================================
