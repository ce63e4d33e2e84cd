----------------------------- MODULE LabsProofs -----------------------------
(***************************************************************************)
(* Proofs about main and the labs it calls in this process: the pair of    *)
(* lab 11 for any number of threads and any width of an unsigned, the      *)
(* children of labs 02 to 05 and 28 for a process table of any size, and   *)
(* the replies of lab 30 for any clients and any requests.                 *)
(***************************************************************************)
EXTENDS Labs, TLAPS

(* A step changes what belongs to one lab only.                            *)
LEMMA Frames ==
    ASSUME [Next]_vars
    PROVE  \/ Dispatch
           \/ Assignment2(PairNext)
           \/ CondvarLab(HandNext)
           \/ ProcessStep(ProcNext)
           \/ ResourceLab(ManagerNext)
           \/ UNCHANGED <<lab, owner, pairVars, procVars, rmVars>>
  <1> USE DEF parts
  <1>1. CASE NoLab \/ LabEnds \/ CallFails
    BY <1>1 DEF NoLab, LabEnds, CallFails, Ends
  <1>2. CASE \/ Assignment1(PartNext) \/ ThreadLabs(EndsNext) \/ TimerLab(TimerNext)
             \/ InterruptHandler(IntNext)
    BY <1>2 DEF Assignment1, ThreadLabs, TimerLab, InterruptHandler, In
  <1>3. CASE UNCHANGED vars
    BY <1>3 DEF vars
  <1> QED BY <1>1, <1>2, <1>3 DEF Next

LEMMA OtherFrames ==
    /\ Dispatch => UNCHANGED <<owner, pairVars, procVars, rmVars>> /\ lab = "none"
                   /\ lab' \in EndingNames \cup ServingNames
    /\ Assignment2(PairNext) => UNCHANGED <<lab, procVars, rmVars>> /\ lab = "assignment_2"
    /\ CondvarLab(HandNext) => UNCHANGED <<lab, pairVars, procVars, rmVars>> /\ lab = "condvar"
    /\ ProcessStep(ProcNext) => UNCHANGED <<lab, owner, pairVars, rmVars>>
                                /\ lab \in ProcessNames \cup {"pulse"}
    /\ ResourceLab(ManagerNext) => UNCHANGED <<lab, owner, pairVars, procVars>>
                                   /\ lab = "resource_manager"
  BY DEF Dispatch, Assignment2, CondvarLab, ProcessStep, ResourceLab, In, parts

-----------------------------------------------------------------------------
(***************************************************************************)
(* Lab 30: whatever path a message takes                                   *)
(***************************************************************************)

(* The reply has been sent when and only when the place says so, and there *)
(* is a buffer between malloc and free only.                               *)
ReplyInv ==
    /\ rmAt \in {"block", "handler", "read", "write", "get", "put", "returned"}
    /\ allocated \in BOOLEAN
    /\ allocated <=> rmAt \in {"get", "put"}
    /\ replies = IF rmAt = "block" \/ (rmAt = "returned" /\ returned = "_RESMGR_NOREPLY")
                 THEN 1 ELSE 0

LEMMA ManagerSteps == ASSUME ReplyInv, ManagerNext PROVE ReplyInv'
  <1> USE DEF ReplyInv, Handling, ReturnError, ReplyAndReturn, RmGoto
  <1>1. CASE \E u \in Users : Ask(u)
    BY <1>1 DEF Ask
  <1>2. CASE dispatch_block \/ LibraryReply
    BY <1>2 DEF dispatch_block, LibraryReply
  <1>3. CASE OpenOrClose
    BY <1>3 DEF OpenOrClose
  <1>4. CASE Verify
    BY <1>4 DEF Verify
  <1>5. CASE io_read \/ WriteNothing
    BY <1>5 DEF io_read, WriteNothing
  <1>6. CASE Allocate
    <2>1. \/ rmAt' = "returned" /\ returned' = "error" /\ replies' = 0 /\ allocated' = FALSE
          \/ rmAt' = "get" /\ replies' = 0 /\ allocated' = TRUE
      <3>1. allocated = FALSE /\ replies = 0
        BY <1>6 DEF Allocate
      <3> QED BY <1>6, <3>1 DEF Allocate
    <2> QED BY <2>1
  <1>7. CASE MsgGet
    <2>1. \/ rmAt' = "returned" /\ returned' = "error" /\ replies' = 0 /\ allocated' = FALSE
          \/ rmAt' = "put" /\ replies' = 0 /\ allocated' = TRUE
      <3>1. allocated = TRUE /\ replies = 0
        BY <1>7 DEF MsgGet
      <3> QED BY <1>7, <3>1 DEF MsgGet
    <2> QED BY <2>1
  <1>8. CASE Put
    <2>1. /\ rmAt' = "returned" /\ allocated' = FALSE
          /\ \/ returned' = "error" /\ replies' = 0
             \/ returned' = "_RESMGR_NOREPLY" /\ replies' = 1
      <3>1. replies = 0
        BY <1>8 DEF Put
      <3> QED BY <1>8, <3>1 DEF Put
    <2> QED BY <2>1
  <1> QED BY <1>1, <1>2, <1>3, <1>4, <1>5, <1>6, <1>7, <1>8 DEF ManagerNext, Manager

LEMMA ReplyInvariance == Spec => []ReplyInv
  <1>1. Init => ReplyInv
    BY DEF Init, ManagerInit, ReplyInv
  <1>2. ReplyInv /\ [Next]_vars => ReplyInv'
    <2> SUFFICES ASSUME ReplyInv, [Next]_vars PROVE ReplyInv'
      OBVIOUS
    <2>1. CASE ResourceLab(ManagerNext)
      BY <2>1, ManagerSteps DEF ResourceLab
    <2>2. CASE UNCHANGED rmVars
      BY <2>2 DEF rmVars, ReplyInv
    <2> QED BY <2>1, <2>2, Frames, OtherFrames
  <1> QED BY <1>1, <1>2, PTL DEF Spec

(* A message to the resource manager gets one reply on every path, and no  *)
(* path keeps its buffer.                                                  *)
THEOREM RepliedOnce == Spec => []AnsweredOnce
  <1>1. ReplyInv => AnsweredOnce
    BY DEF ReplyInv, AnsweredOnce
  <1> QED BY <1>1, ReplyInvariance, PTL

-----------------------------------------------------------------------------
(***************************************************************************)
(* Labs 02 to 05 and 28: the children                                      *)
(***************************************************************************)

TableInv ==
    /\ forked \in 0 .. ChildLimit
    /\ child \in [Children -> {"none", "alive", "zombie", "reaped"}]
    /\ \A c \in Children : child[c] = "none" <=> c > forked
    /\ signalled \in SUBSET (1 .. forked)
    /\ process_pid \in -1 .. forked

(* Nothing is done by the labs that start no process.                      *)
NoProcess == forked = 0 /\ parentAt = "fork"

(* Labs 02 to 05 start one child, and wait for it before they succeed,     *)
(* unless it is lab 04.                                                    *)
OneChild ==
    /\ signalled = {} /\ forked \in {0, 1}
    /\ parentAt \in {"fork", "wait", "success", "failure"}
    /\ parentAt \in {"fork", "failure"} => forked = 0
    /\ forked = 1 => process_pid = 1
    /\ parentAt = "wait" => forked = 1
    /\ parentAt = "success" /\ forked = 1 /\ lab # "spawn" => child[1] = "reaped"

(* Every child of lab 28 but the last has been killed, and the last one    *)
(* lives until it is; when the next is forked, it has been.                *)
OneAfterTheOther ==
    /\ parentAt \in {"fork", "setup", "receive", "kill", "failure"}
    /\ \A c \in 1 .. forked : c \in signalled \/ (c = process_pid /\ child[c] = "alive")
    /\ parentAt = "fork" => 1 .. forked \subseteq signalled
    /\ parentAt \in {"setup", "receive", "kill"} =>
         process_pid = forked /\ forked > 0 /\ forked \notin signalled

ChildInv ==
    /\ TableInv
    /\ lab \notin ProcessNames => NoProcess
    /\ lab \in ProcessNames \ {"process_timer"} => OneChild
    /\ lab = "process_timer" => OneAfterTheOther

LEMMA AfterForkIs ==
    /\ lab = "spawn" => AfterFork = "success"
    /\ lab \in {"fork", "exec", "zombie"} => AfterFork = "wait"
    /\ lab = "process_timer" => AfterFork = IF forked = 0 THEN "setup" ELSE "receive"
  <1>1. ASSUME lab = "spawn" PROVE AfterFork = "success"
    BY <1>1, Zenon DEF AfterFork
  <1>2. ASSUME lab \in {"fork", "exec", "zombie"} PROVE AfterFork = "wait"
    <2>1. lab # "spawn"
      BY <1>2
    <2> QED BY <1>2, <2>1, Zenon DEF AfterFork
  <1>3. ASSUME lab = "process_timer"
        PROVE  AfterFork = IF forked = 0 THEN "setup" ELSE "receive"
    <2>1. lab # "spawn" /\ lab \notin {"fork", "exec", "zombie"}
      BY <1>3
    <2> QED BY <2>1, Zenon DEF AfterFork
  <1> QED BY <1>1, <1>2, <1>3

LEMMA ForkStep == ASSUME ChildInv, lab \in ProcessNames, Fork, lab' = lab PROVE ChildInv'
  <1> USE ChildAssumption DEF Children
  <1>1. /\ forked < ChildLimit /\ forked' = forked + 1 /\ process_pid' = forked + 1
        /\ child' = [child EXCEPT ![forked + 1] = "alive"]
        /\ signalled' = signalled /\ parentAt = "fork" /\ parentAt' = AfterFork
    BY DEF Fork, ParentGoto, StartChild
  <1>2. TableInv'
    <2>1. forked + 1 \in 1 .. ChildLimit
      BY <1>1 DEF ChildInv, TableInv
    <2> QED BY <1>1, <2>1 DEF ChildInv, TableInv
  <1>3. CASE lab # "process_timer"
    <2>1. OneChild /\ forked = 0
      BY <1>1, <1>3 DEF ChildInv, OneChild
    <2>2. parentAt' \in {"wait", "success"} /\ (parentAt' = "success" => lab = "spawn")
      BY <1>1, <1>3, AfterForkIs DEF ProcessNames
    <2>3. OneChild'
      BY <1>1, <2>1, <2>2 DEF OneChild
    <2> QED BY <1>2, <1>3, <2>3 DEF ChildInv
  <1>4. CASE lab = "process_timer"
    <2>1. OneAfterTheOther /\ 1 .. forked \subseteq signalled /\ signalled \subseteq 1 .. forked
          /\ forked \in Nat /\ child \in [Children -> {"none", "alive", "zombie", "reaped"}]
      BY <1>1, <1>4 DEF ChildInv, OneAfterTheOther, TableInv
    <2>2. parentAt' \in {"setup", "receive"}
      BY <1>1, <1>4, AfterForkIs
    <2>3. forked + 1 \notin signalled /\ \A c \in 1 .. forked + 1 : c \in signalled \/ c = forked + 1
      BY <2>1
    <2>4. child'[forked + 1] = "alive"
      BY <1>1, <2>1
    <2>5. OneAfterTheOther'
      BY <1>1, <2>1, <2>2, <2>3, <2>4 DEF OneAfterTheOther
    <2> QED BY <1>2, <1>4, <2>5 DEF ChildInv, ProcessNames
  <1> QED BY <1>3, <1>4

LEMMA ParentSteps ==
    ASSUME ChildInv, lab \in ProcessNames, lab' = lab,
           ForkFails \/ WaitForChild \/ CreateTimer \/ ReceivePeriod \/ Kill
    PROVE  ChildInv'
  <1> USE ChildAssumption DEF Children, ParentGoto, table
  <1>1. CASE ForkFails
    <2>1. TableInv'
      BY <1>1 DEF ForkFails, ChildInv, TableInv
    <2>2. lab # "process_timer" => OneChild'
      BY <1>1 DEF ForkFails, ChildInv, OneChild, ProcessNames
    <2>3. lab = "process_timer" => OneAfterTheOther'
      BY <1>1 DEF ForkFails, ChildInv, OneAfterTheOther
    <2> QED BY <2>1, <2>2, <2>3 DEF ChildInv
  <1>2. CASE WaitForChild
    <2>1. /\ parentAt = "wait" /\ parentAt' = "success"
          /\ child' = [child EXCEPT ![process_pid] = "reaped"]
          /\ UNCHANGED <<signalled, forked, process_pid>>
      BY <1>2 DEF WaitForChild
    <2>2. lab # "process_timer" /\ OneChild /\ forked = 1 /\ process_pid = 1
      BY <2>1 DEF ChildInv, OneChild, OneAfterTheOther
    <2>3. TableInv'
      BY <2>1, <2>2 DEF ChildInv, TableInv
    <2>4. child'[1] = "reaped"
      BY <2>1, <2>2 DEF ChildInv, TableInv
    <2>5. OneChild'
      BY <2>1, <2>2, <2>4 DEF OneChild
    <2> QED BY <2>2, <2>3, <2>5 DEF ChildInv
  <1>3. CASE CreateTimer \/ ReceivePeriod
    <2>1. /\ UNCHANGED <<child, signalled, forked, process_pid>>
          /\ parentAt \in {"setup", "receive"}
          /\ parentAt' \in {"receive", "failure", "kill"}
      BY <1>3 DEF CreateTimer, ReceivePeriod
    <2>2. lab = "process_timer" /\ OneAfterTheOther
      BY <2>1 DEF ChildInv, OneChild
    <2>3. TableInv' /\ OneAfterTheOther'
      BY <2>1, <2>2 DEF ChildInv, TableInv, OneAfterTheOther
    <2> QED BY <2>2, <2>3 DEF ChildInv
  <1>4. CASE Kill
    <2>1. /\ parentAt = "kill" /\ parentAt' = "fork"
          /\ signalled' = signalled \cup {process_pid}
          /\ UNCHANGED <<child, forked, process_pid>>
      BY <1>4 DEF Kill
    <2>2. lab = "process_timer" /\ OneAfterTheOther
      BY <2>1 DEF ChildInv, OneChild
    <2>3. process_pid = forked /\ forked > 0 /\ forked \in Nat
      BY <2>1, <2>2 DEF ChildInv, TableInv, OneAfterTheOther
    <2>4. TableInv' /\ OneAfterTheOther'
      BY <2>1, <2>2, <2>3 DEF ChildInv, TableInv, OneAfterTheOther
    <2> QED BY <2>2, <2>4 DEF ChildInv
  <1> QED BY <1>1, <1>2, <1>3, <1>4

(* A child that dies was killed, in lab 28.                                *)
LEMMA DeathStep ==
    ASSUME ChildInv, lab' = lab, NEW c \in Children, ChildDies(c)
    PROVE  ChildInv'
  <1> USE ChildAssumption DEF Children
  <1>1. /\ child[c] = "alive" /\ child' = [child EXCEPT ![c] = "zombie"]
        /\ lab = "process_timer" => c \in signalled
        /\ UNCHANGED <<signalled, forked, process_pid, parentAt>>
    BY DEF ChildDies
  <1>2. /\ child' \in [Children -> {"none", "alive", "zombie", "reaped"}]
        /\ \A d \in Children : child'[d] = IF d = c THEN "zombie" ELSE child[d]
    BY <1>1 DEF ChildInv, TableInv
  <1>3. TableInv'
    BY <1>1, <1>2 DEF ChildInv, TableInv
  <1>4. OneChild => OneChild'
    BY <1>1, <1>2 DEF OneChild
  <1>5. OneAfterTheOther /\ lab = "process_timer" => OneAfterTheOther'
    <2>1. 1 .. forked \subseteq Children
      BY DEF ChildInv, TableInv
    <2> QED BY <1>1, <1>2, <2>1 DEF OneAfterTheOther
  <1> QED BY <1>1, <1>3, <1>4, <1>5 DEF ChildInv, NoProcess

LEMMA ChildInvariance == Spec => []ChildInv
  <1>1. Init => ChildInv
    BY ChildAssumption
       DEF Init, ProcInit, ChildInv, TableInv, NoProcess, ProcessNames, Children
  <1>2. ChildInv /\ [Next]_vars => ChildInv'
    <2> SUFFICES ASSUME ChildInv, [Next]_vars PROVE ChildInv'
      OBVIOUS
    <2>1. CASE ProcessStep(ProcNext)
      <3>1. ProcNext /\ lab' = lab /\ lab \in ProcessNames \cup {"pulse"}
        BY <2>1 DEF ProcessStep
      <3>2. CASE Parent
        BY <3>1, <3>2, ForkStep, ParentSteps DEF Parent
      <3>3. CASE ReportDeath \/ PeriodPasses \/ SystemDeath
        BY <3>1, <3>3 DEF ReportDeath, PeriodPasses, SystemDeath, procVars, table, ChildInv,
                          TableInv, NoProcess, OneChild, OneAfterTheOther
      <3> QED BY <3>1, <3>2, <3>3, DeathStep DEF ProcNext
    <2>2. CASE UNCHANGED <<lab, procVars>>
      BY <2>2 DEF procVars, table, ChildInv, TableInv, NoProcess, OneChild, OneAfterTheOther
    <2>3. CASE Dispatch
      <3>1. UNCHANGED <<child, signalled, forked, process_pid, parentAt>> /\ lab = "none"
        BY <2>3, OtherFrames DEF procVars, table
      <3>2. NoProcess /\ TableInv
        BY <3>1 DEF ChildInv, ProcessNames
      <3>3. signalled = {}
        BY <3>2 DEF NoProcess, TableInv
      <3> QED BY <3>1, <3>2, <3>3
              DEF ChildInv, TableInv, NoProcess, OneChild, OneAfterTheOther
    <2> QED BY <2>1, <2>2, <2>3, Frames, OtherFrames
  <1> QED BY <1>1, <1>2, PTL DEF Spec

(* Every child is accounted for: a kill is sent to one live child that     *)
(* nobody has killed, every other child is dead or about to die, and a lab *)
(* that waits leaves nothing behind.                                       *)
THEOREM EveryChildAccounted == Spec => []ChildrenAccounted
  <1>1. ASSUME ChildInv PROVE ChildrenAccounted
    <2>1. forked \in 0 .. ChildLimit /\ \A c \in Children : child[c] = "none" <=> c > forked
      BY <1>1 DEF ChildInv, TableInv
    <2>2. CASE lab \notin ProcessNames
      BY <1>1, <2>1, <2>2 DEF ChildInv, NoProcess, ChildrenAccounted, Children, ProcessNames
    <2>3. CASE lab \in ProcessNames \ {"process_timer"}
      <3>1. OneChild
        BY <1>1, <2>3 DEF ChildInv
      <3>2. \A c \in Children : c # 1 => child[c] = "none"
        BY <2>1, <3>1 DEF OneChild, Children
      <3>3. forked = 0 => \A c \in Children : child[c] = "none"
        BY <2>1 DEF Children
      <3> QED BY <2>1, <3>1, <3>2, <3>3 DEF OneChild, ChildrenAccounted
    <2>4. CASE lab = "process_timer"
      <3>1. OneAfterTheOther
        BY <1>1, <2>4 DEF ChildInv
      <3>2. ASSUME NEW c \in Children \ (signalled \cup {process_pid})
            PROVE  child[c] # "alive"
        BY <2>1, <3>1 DEF OneAfterTheOther, Children
      <3>3. parentAt = "kill" => /\ process_pid \in Children \ signalled
                                 /\ child[process_pid] = "alive"
        BY <2>1, <3>1 DEF OneAfterTheOther, Children
      <3> QED BY <2>4, <3>2, <3>3 DEF ChildrenAccounted
    <2> QED BY <2>2, <2>3, <2>4
  <1> QED BY <1>1, ChildInvariance, PTL

-----------------------------------------------------------------------------
(***************************************************************************)
(* Lab 11 with the mutex: the pair                                         *)
(***************************************************************************)

Words == 0 .. Modulus - 1
Turn == {"compare", "against", "load", "store", "unlock"}
PairPlaces == Turn \cup {"new", "test", "lock", "reload", "repair", "ended"}

PairTypeOK ==
    /\ use_mutex \in BOOLEAN
    /\ var \in [1 .. 3 -> Words]
    /\ at \in [PairThreads -> PairPlaces]
    /\ step \in [PairThreads -> 1 .. 5]
    /\ reg \in [PairThreads -> Words]
    /\ started \in 0 .. NumThreads

(* The three variables before each of the five updates of a turn that      *)
(* began when all of them were b.                                          *)
Course(b) ==
    LET c == (b + 1) % Modulus
        d == (b + 2) % Modulus
    IN  << <<b, b, b>>, <<b, b, c>>, <<d, b, c>>, <<c, b, c>>, <<c, d, c>> >>

(* A thread is in its turn when and only when it holds the mutex; the      *)
(* variables are then where it has brought them, and equal in between.     *)
TurnInv ==
    /\ \A t \in PairThreads : owner = t <=> at[t] \in Turn
    /\ \A t \in PairThreads : at[t] \notin {"reload", "repair"}
    /\ \A t \in PairThreads :
         /\ at[t] \notin {"load", "store"} => step[t] = 1
         /\ at[t] \in Turn => \E b \in Words : \A v \in 1 .. 3 : var[v] = Course(b)[step[t]][v]
         /\ at[t] = "against" => reg[t] = var[1]
         /\ at[t] = "store" => reg[t] = var[Updates[step[t]][1]]
    /\ owner = Nobody => var[1] = var[2] /\ var[2] = var[3]

(* Other labs start no thread and leave the variables alone; lab 13 uses   *)
(* the mutex for itself.                                                   *)
PairInv ==
    /\ PairTypeOK
    /\ \A t \in PairThreads : t > started => at[t] = "new"
    /\ use_mutex /\ lab = "assignment_2" => TurnInv
    /\ lab # "assignment_2" =>
         /\ started = 0
         /\ \A t \in PairThreads : step[t] = 1
         /\ var[1] = var[2] /\ var[2] = var[3]
    /\ lab \notin {"assignment_2", "condvar"} => owner = Nobody

(* What the updates are, and that they take the variables along a course   *)
(* to its end, where all are one more.                                     *)
LEMMA UpdatesAre ==
    /\ Len(Updates) = 5 /\ DOMAIN Updates = 1 .. 5
    /\ Updates[1][1] = 3 /\ Updates[1][2] = 1
    /\ Updates[2][1] = 1 /\ Updates[2][2] = 2
    /\ Updates[3][1] = 1 /\ Updates[3][2] = -1
    /\ Updates[4][1] = 2 /\ Updates[4][2] = 2
    /\ Updates[5][1] = 2 /\ Updates[5][2] = -1
    /\ \A k \in 1 .. 5 : Updates[k][1] \in 1 .. 3 /\ Updates[k][2] \in -1 .. 2
  BY DEF Updates

LEMMA Wraps ==
    ASSUME NEW b \in Words
    PROVE  /\ (((b + 2) % Modulus) - 1) % Modulus = (b + 1) % Modulus
           /\ (b + 1) % Modulus \in Words
           /\ (b + 2) % Modulus \in Words
  BY PairAssumption, SMTT(60) DEF Words

LEMMA CourseStep ==
    ASSUME NEW b \in Words, NEW k \in 1 .. 5,
           NEW old \in [1 .. 3 -> Words], \A v \in 1 .. 3 : old[v] = Course(b)[k][v],
           NEW new \in [1 .. 3 -> Words],
           \A v \in 1 .. 3 : new[v] = IF v = Updates[k][1]
                                      THEN (old[v] + Updates[k][2]) % Modulus ELSE old[v]
    PROVE  \E a \in Words : \A v \in 1 .. 3 : new[v] = Course(a)[IF k = 5 THEN 1 ELSE k + 1][v]
  <1> DEFINE c == (b + 1) % Modulus
             d == (b + 2) % Modulus
  <1>1. (d - 1) % Modulus = c /\ c \in Words /\ d \in Words
    BY Wraps
  <1>2. Course(b) = << <<b, b, b>>, <<b, b, c>>, <<d, b, c>>, <<c, b, c>>, <<c, d, c>> >>
    BY DEF Course
  <1>3. Course(c)[1][1] = c /\ Course(c)[1][2] = c /\ Course(c)[1][3] = c
    BY DEF Course
  <1> USE UpdatesAre
  <1>4. CASE k = 1
    <2>1. old[1] = b /\ old[2] = b /\ old[3] = b
      BY <1>2, <1>4
    <2>2. new[1] = b /\ new[2] = b /\ new[3] = c
      BY <1>4, <2>1
    <2>3. \A v \in 1 .. 3 : new[v] = Course(b)[2][v]
      BY <1>2, <2>2
    <2> QED BY <1>4, <2>3
  <1>5. CASE k = 2
    <2>1. old[1] = b /\ old[2] = b /\ old[3] = c
      BY <1>2, <1>5
    <2>2. new[1] = d /\ new[2] = b /\ new[3] = c
      BY <1>5, <2>1
    <2>3. \A v \in 1 .. 3 : new[v] = Course(b)[3][v]
      BY <1>2, <2>2
    <2> QED BY <1>5, <2>3
  <1>6. CASE k = 3
    <2>1. old[1] = d /\ old[2] = b /\ old[3] = c
      BY <1>2, <1>6
    <2>2. d + (-1) = d - 1
      BY <1>1, PairAssumption DEF Words
    <2>3. new[1] = c /\ new[2] = b /\ new[3] = c
      BY <1>1, <1>6, <2>1, <2>2
    <2>4. \A v \in 1 .. 3 : new[v] = Course(b)[4][v]
      BY <1>2, <2>3
    <2> QED BY <1>6, <2>4
  <1>7. CASE k = 4
    <2>1. old[1] = c /\ old[2] = b /\ old[3] = c
      BY <1>2, <1>7
    <2>2. new[1] = c /\ new[2] = d /\ new[3] = c
      BY <1>7, <2>1
    <2>3. \A v \in 1 .. 3 : new[v] = Course(b)[5][v]
      BY <1>2, <2>2
    <2> QED BY <1>7, <2>3
  <1>8. CASE k = 5
    <2>1. old[1] = c /\ old[2] = d /\ old[3] = c
      BY <1>2, <1>8
    <2>2. d + (-1) = d - 1
      BY <1>1, PairAssumption DEF Words
    <2>3. new[1] = c /\ new[2] = c /\ new[3] = c
      BY <1>1, <1>8, <2>1, <2>2
    <2>4. \A v \in 1 .. 3 : new[v] = Course(c)[1][v]
      BY <1>3, <2>3
    <2> QED BY <1>1, <1>8, <2>4
  <1> QED BY <1>4, <1>5, <1>6, <1>7, <1>8

LEMMA PairTypes ==
    ASSUME PairTypeOK, PairNext
    PROVE  PairTypeOK'
  <1> USE PairAssumption DEF PairTypeOK
  <1>0. 0 \in Words /\ \A n \in Int : n % Modulus \in Words
    BY DEF Words
  <1>1. CASE Create
    <2>1. at' = [at EXCEPT ![started + 1] = "test"] /\ "test" \in PairPlaces
          /\ started' = started + 1 /\ started < NumThreads
          /\ UNCHANGED <<var, step, reg, use_mutex>>
      BY <1>1 DEF Create, PairPlaces
    <2>2. at' \in [PairThreads -> PairPlaces]
      BY <2>1
    <2>3. started' \in 0 .. NumThreads
      BY <2>1
    <2> QED BY <2>1, <2>2, <2>3
  <1>2. CASE StopThreads \/ Join
    BY <1>2 DEF StopThreads, Join
  <1>3. ASSUME NEW t \in PairThreads, Work(t) PROVE PairTypeOK'
    <2>1. at' \in [PairThreads -> PairPlaces] /\ UNCHANGED <<started, use_mutex>>
      <3>1. \E from \in PairPlaces, to \in PairPlaces : Goto(t, from, to)
        <4>1. CASE TestDone(t)
          <5>1. \E to \in {"ended", "lock", "compare"} : Goto(t, "test", to)
            BY <4>1 DEF TestDone
          <5> QED BY <5>1 DEF PairPlaces, Turn
        <4>2. CASE Acquire(t) \/ Load(t) \/ Release(t)
          BY <4>2 DEF Acquire, Load, Release, PairPlaces, Turn
        <4>3. CASE Compare(t) \/ Repair(t)
          BY <4>3 DEF Compare, Repair, PairPlaces, Turn
        <4>4. CASE Store(t)
          <5>1. \E to \in {"load", "unlock", "test"} : Goto(t, "store", to)
            BY <4>4 DEF Store
          <5> QED BY <5>1 DEF PairPlaces, Turn
        <4> QED BY <1>3, <4>1, <4>2, <4>3, <4>4 DEF Work
      <3>2. PICK to \in PairPlaces : at' = [at EXCEPT ![t] = to]
        BY <3>1 DEF Goto
      <3>3. UNCHANGED control
        <4>1. CASE TestDone(t) \/ Acquire(t) \/ Compare(t) \/ Repair(t)
          BY <4>1 DEF TestDone, Acquire, Compare, Repair
        <4>2. CASE Load(t) \/ Store(t) \/ Release(t)
          BY <4>2 DEF Load, Store, Release
        <4> QED BY <1>3, <4>1, <4>2 DEF Work
      <3>4. at' \in [PairThreads -> PairPlaces]
        BY <3>2
      <3> QED BY <3>3, <3>4 DEF control
    <2>2. reg[t] \in Words /\ step[t] \in 1 .. 5 /\ Updates[step[t]][1] \in 1 .. 3
          /\ Updates[step[t]][2] \in -1 .. 2
      BY <1>3, UpdatesAre
    <2>3. reg' \in [PairThreads -> Words]
      <3>1. UNCHANGED reg \/ \E v \in 1 .. 3 : reg' = [reg EXCEPT ![t] = var[v]]
        BY <1>3, <2>2
           DEF Work, TestDone, Acquire, Compare, Repair, Load, Store, Release, LoadVar
      <3> QED BY <3>1
    <2>4. var' \in [1 .. 3 -> Words] /\ step' \in [PairThreads -> 1 .. 5]
      <3>1. CASE Store(t)
        <4>1. (reg[t] + Updates[step[t]][2]) % Modulus \in Words
          <5>1. reg[t] + Updates[step[t]][2] \in Int
            BY <2>2 DEF Words
          <5> QED BY <1>0, <5>1
        <4>2. var' \in [1 .. 3 -> Words]
          BY <2>2, <3>1, <4>1 DEF Store
        <4>3. (IF step[t] = 5 THEN 1 ELSE step[t] + 1) \in 1 .. 5
          BY <2>2
        <4>4. step' = [step EXCEPT ![t] = IF step[t] = 5 THEN 1 ELSE step[t] + 1]
          BY <2>2, <3>1, UpdatesAre DEF Store
        <4> QED BY <4>2, <4>3, <4>4
      <3>2. CASE Repair(t)
        BY <2>2, <3>2 DEF Repair
      <3>3. CASE ~Store(t) /\ ~Repair(t)
        <4>1. UNCHANGED <<var, step>>
          BY <1>3, <3>3 DEF Work, TestDone, Acquire, Compare, Load, Release
        <4> QED BY <4>1
      <3> QED BY <3>1, <3>2, <3>3
    <2> QED BY <2>1, <2>3, <2>4
  <1> QED BY <1>1, <1>2, <1>3 DEF PairNext, PairMain

(* With the mutex a thread's step keeps to the turns.                      *)
LEMMA TurnSteps ==
    ASSUME PairInv, use_mutex, TurnInv, NEW t \in PairThreads, Work(t)
    PROVE  TurnInv'
  <1> USE PairAssumption
  <1>0. PairTypeOK /\ PairTypeOK' /\ t # Nobody
    BY PairTypes DEF PairInv, PairNext
  <1>1. CASE TestDone(t)
    <2>1. /\ \E to \in {"ended", "lock"} : at' = [at EXCEPT ![t] = to]
          /\ at[t] = "test" /\ UNCHANGED <<owner, var, step, reg>>
      BY <1>1 DEF TestDone, Goto
    <2> QED BY <1>0, <2>1 DEF PairTypeOK, TurnInv, Turn
  <1>2. CASE Acquire(t)
    <2>1. /\ at' = [at EXCEPT ![t] = "compare"] /\ at[t] = "lock"
          /\ owner = Nobody /\ owner' = t /\ UNCHANGED <<var, step, reg>>
      BY <1>2 DEF Acquire, Goto, Lock
    <2>2. step[t] = 1 /\ var[1] \in Words /\ var[2] = var[1] /\ var[3] = var[1]
      BY <1>0, <2>1 DEF PairTypeOK, TurnInv
    <2>3. \E b \in Words : \A v \in 1 .. 3 : var[v] = Course(b)[step[t]][v]
      <3>1. \A v \in 1 .. 3 : var[v] = Course(var[1])[1][v]
        BY <2>2 DEF Course
      <3> QED BY <2>2, <3>1
    <2>4. \A u \in PairThreads : at'[u] = IF u = t THEN "compare" ELSE at[u]
      BY <1>0, <2>1 DEF PairTypeOK
    <2> QED BY <1>0, <2>1, <2>2, <2>3, <2>4 DEF TurnInv, Turn
  <1>3. CASE Compare(t)
    <2>1. /\ UNCHANGED <<owner, var, step>>
          /\ \/ at[t] = "compare" /\ at' = [at EXCEPT ![t] = "against"]
                /\ reg' = [reg EXCEPT ![t] = var[1]]
             \/ at[t] = "against" /\ reg' = reg
                /\ at' = [at EXCEPT ![t] = IF reg[t] # var[2] THEN "reload" ELSE "load"]
      BY <1>3 DEF Compare, Goto, LoadVar
    <2>2. CASE at[t] = "compare"
      <3>1. /\ \A u \in PairThreads : at'[u] = IF u = t THEN "against" ELSE at[u]
            /\ \A u \in PairThreads : reg'[u] = IF u = t THEN var[1] ELSE reg[u]
        BY <1>0, <2>1, <2>2 DEF PairTypeOK
      <3> QED BY <2>1, <2>2, <3>1 DEF TurnInv, Turn
    <2>3. CASE at[t] = "against"
      <3>1. reg[t] = var[1] /\ step[t] = 1
        BY <2>3 DEF TurnInv
      <3>2. PICK b \in Words : \A v \in 1 .. 3 : var[v] = Course(b)[1][v]
        BY <2>3, <3>1 DEF TurnInv, Turn
      <3>3. var[1] = var[2]
        BY <3>2 DEF Course
      <3>4. \A u \in PairThreads : at'[u] = IF u = t THEN "load" ELSE at[u]
        BY <1>0, <2>1, <2>3, <3>1, <3>3 DEF PairTypeOK
      <3> QED BY <2>1, <2>3, <3>4 DEF TurnInv, Turn
    <2> QED BY <2>1, <2>2, <2>3
  <1>4. CASE Repair(t)
    BY <1>4 DEF Repair, Goto, TurnInv
  <1>5. CASE Load(t)
    <2>1. /\ at[t] = "load" /\ at' = [at EXCEPT ![t] = "store"]
          /\ reg' = [reg EXCEPT ![t] = var[Updates[step[t]][1]]]
          /\ UNCHANGED <<owner, var, step>>
      BY <1>5 DEF Load, Goto, LoadVar
    <2>2. /\ \A u \in PairThreads : at'[u] = IF u = t THEN "store" ELSE at[u]
          /\ \A u \in PairThreads : reg'[u] = IF u = t THEN var[Updates[step[t]][1]] ELSE reg[u]
      BY <1>0, <2>1 DEF PairTypeOK
    <2> QED BY <2>1, <2>2 DEF TurnInv, Turn
  <1>6. CASE Store(t)
    <2>1. step[t] \in 1 .. 5 /\ at[t] = "store" /\ owner = t
      BY <1>0, <1>6 DEF PairTypeOK, Store, Goto, TurnInv, Turn
    <2>2. /\ at' = [at EXCEPT ![t] = IF step[t] # 5 THEN "load" ELSE "unlock"]
          /\ var' = [var EXCEPT ![Updates[step[t]][1]] = (reg[t] + Updates[step[t]][2]) % Modulus]
          /\ step' = [step EXCEPT ![t] = IF step[t] = 5 THEN 1 ELSE step[t] + 1]
          /\ UNCHANGED <<owner, reg>>
      BY <1>6, <2>1, UpdatesAre DEF Store, Goto
    <2>3. /\ \A u \in PairThreads : at'[u] = IF u = t THEN (IF step[t] # 5 THEN "load" ELSE "unlock")
                                             ELSE at[u]
          /\ \A u \in PairThreads : step'[u] = IF u = t THEN (IF step[t] = 5 THEN 1 ELSE step[t] + 1)
                                               ELSE step[u]
      BY <1>0, <2>2 DEF PairTypeOK
    <2>4. PICK b \in Words : \A v \in 1 .. 3 : var[v] = Course(b)[step[t]][v]
      BY <2>1 DEF TurnInv, Turn
    <2>5. reg[t] = var[Updates[step[t]][1]]
      BY <2>1 DEF TurnInv
    <2>6. \A v \in 1 .. 3 : var'[v] = IF v = Updates[step[t]][1]
                                      THEN (var[v] + Updates[step[t]][2]) % Modulus ELSE var[v]
      BY <1>0, <2>2, <2>5 DEF PairTypeOK
    <2>7. \E a \in Words : \A v \in 1 .. 3 : var'[v] = Course(a)[step'[t]][v]
      <3> DEFINE k == step[t]
      <3>1. \E a \in Words : \A v \in 1 .. 3 : var'[v] = Course(a)[IF k = 5 THEN 1 ELSE k + 1][v]
        <4>1. k \in 1 .. 5 /\ \A v \in 1 .. 3 : var[v] = Course(b)[k][v]
          BY <2>1, <2>4
        <4>2. \A v \in 1 .. 3 : var'[v] = IF v = Updates[k][1]
                                         THEN (var[v] + Updates[k][2]) % Modulus ELSE var[v]
          BY <2>6
        <4>3. var \in [1 .. 3 -> Words] /\ var' \in [1 .. 3 -> Words]
          BY <1>0 DEF PairTypeOK
        <4> HIDE DEF k
        <4> QED BY <4>1, <4>2, <4>3, CourseStep, SMTT(30)
      <3>2. step'[t] = IF k = 5 THEN 1 ELSE k + 1
        BY <2>3
      <3> QED BY <3>1, <3>2
    <2>8. \A u \in PairThreads \ {t} : at[u] \notin Turn
      BY <2>1 DEF TurnInv
    <2>9. /\ at'[t] \in {"load", "unlock"}
          /\ at'[t] = "unlock" => step'[t] = 1
          /\ owner' = owner
          /\ \A u \in PairThreads \ {t} : at'[u] = at[u] /\ step'[u] = step[u] /\ reg'[u] = reg[u]
      BY <1>0, <2>1, <2>2, <2>3
    <2> QED BY <1>0, <2>1, <2>7, <2>8, <2>9 DEF TurnInv, Turn
  <1>7. CASE Release(t)
    <2>1. /\ at[t] = "unlock" /\ at' = [at EXCEPT ![t] = "test"]
          /\ owner = t /\ owner' = Nobody /\ UNCHANGED <<var, step, reg>>
      BY <1>7 DEF Release, Goto, Unlock
    <2>2. step[t] = 1
      BY <2>1 DEF TurnInv
    <2>3. PICK b \in Words : \A v \in 1 .. 3 : var[v] = Course(b)[1][v]
      BY <2>1, <2>2 DEF TurnInv, Turn
    <2>4. var[1] = var[2] /\ var[2] = var[3]
      BY <2>3 DEF Course
    <2>5. \A u \in PairThreads : at'[u] = IF u = t THEN "test" ELSE at[u]
      BY <1>0, <2>1 DEF PairTypeOK
    <2> QED BY <1>0, <2>1, <2>2, <2>4, <2>5 DEF TurnInv, Turn
  <1> QED BY <1>1, <1>2, <1>3, <1>4, <1>5, <1>6, <1>7 DEF Work

LEMMA ThreadSteps ==
    ASSUME PairInv, lab = "assignment_2", lab' = lab, NEW t \in PairThreads, Work(t)
    PROVE  PairInv'
  <1>1. PairTypeOK /\ PairTypeOK'
    BY PairTypes DEF PairInv, PairNext
  <1>2. UNCHANGED <<use_mutex, started>>
    <2>1. CASE TestDone(t) \/ Acquire(t) \/ Compare(t) \/ Repair(t)
      BY <2>1 DEF TestDone, Acquire, Compare, Repair, control
    <2>2. CASE Load(t) \/ Store(t) \/ Release(t)
      BY <2>2 DEF Load, Store, Release, control
    <2> QED BY <2>1, <2>2 DEF Work
  <1>3. PICK from \in PairPlaces \ {"new"} : \E to : Goto(t, from, to)
    <2>1. CASE TestDone(t) \/ Acquire(t) \/ Compare(t) \/ Repair(t)
      BY <2>1 DEF TestDone, Acquire, Compare, Repair, PairPlaces, Turn
    <2>2. CASE Load(t) \/ Store(t) \/ Release(t)
      BY <2>2 DEF Load, Store, Release, PairPlaces, Turn
    <2> QED BY <2>1, <2>2 DEF Work
  <1>4. \A u \in PairThreads : u > started => u # t /\ at'[u] = "new"
    BY <1>1, <1>3 DEF Goto, PairInv, PairTypeOK
  <1>5. use_mutex => TurnInv'
    BY TurnSteps DEF PairInv
  <1> QED BY <1>1, <1>2, <1>4, <1>5 DEF PairInv

(* main creates a thread, stops the threads or joins one.                  *)
LEMMA MainSteps ==
    ASSUME PairInv, lab = "assignment_2", lab' = lab, PairMain
    PROVE  PairInv'
  <1>1. PairTypeOK /\ PairTypeOK'
    BY PairTypes DEF PairInv, PairNext
  <1>2. CASE Create
    <2>1. /\ at' = [at EXCEPT ![started + 1] = "test"]
          /\ started' = started + 1 /\ started < NumThreads
          /\ UNCHANGED <<owner, var, step, reg, use_mutex>>
      BY <1>2 DEF Create
    <2>2. PICK t \in PairThreads : t = started + 1
      BY <1>1, <2>1, PairAssumption DEF PairTypeOK, PairThreads
    <2>3. at[t] = "new"
      BY <1>1, <2>2 DEF PairInv, PairTypeOK
    <2>4. \A u \in PairThreads : at'[u] = IF u = t THEN "test" ELSE at[u]
      BY <1>1, <2>1, <2>2 DEF PairTypeOK
    <2>5. \A u \in PairThreads : u > started' => at'[u] = "new"
      BY <1>1, <2>1, <2>2, <2>4 DEF PairInv, PairTypeOK, PairThreads
    <2>6. TurnInv => TurnInv'
      BY <2>1, <2>3, <2>4 DEF TurnInv, Turn
    <2> QED BY <1>1, <2>1, <2>5, <2>6 DEF PairInv
  <1>3. CASE StopThreads \/ Join
    <2>1. UNCHANGED <<owner, var, at, step, reg, started, use_mutex>>
      BY <1>3 DEF StopThreads, Join
    <2> QED BY <1>1, <2>1 DEF PairInv, TurnInv
  <1> QED BY <1>2, <1>3 DEF PairMain

LEMMA PairInvariance == Spec => []PairInv
  <1>1. Init => PairInv
    <2>1. SUFFICES ASSUME Init PROVE PairInv
      OBVIOUS
    <2>2. /\ lab = "none" /\ owner = Nobody /\ use_mutex \in BOOLEAN /\ started = 0
          /\ var = [v \in 1 .. 3 |-> 0] /\ at = [t \in PairThreads |-> "new"]
          /\ step = [t \in PairThreads |-> 1] /\ reg = [t \in PairThreads |-> 0]
      BY <2>1 DEF Init, PairInit, MutexInit
    <2>3. PairTypeOK
      BY <2>2, PairAssumption DEF PairTypeOK, PairPlaces, Words
    <2> QED BY <2>2, <2>3 DEF PairInv
  <1>2. PairInv /\ [Next]_vars => PairInv'
    <2>1. SUFFICES ASSUME PairInv, [Next]_vars PROVE PairInv'
      OBVIOUS
    <2>2. CASE Dispatch
      <3>1. /\ lab = "none" /\ UNCHANGED <<owner, use_mutex, var, at, step, reg, started>>
        BY <2>2, OtherFrames DEF pairVars, control
      <3>2. PairTypeOK /\ PairTypeOK'
        BY <2>1, <3>1 DEF PairInv, PairTypeOK
      <3>3. /\ owner = Nobody /\ started = 0 /\ var[1] = var[2] /\ var[2] = var[3]
            /\ \A t \in PairThreads : step[t] = 1 /\ at[t] = "new"
        BY <2>1, <3>1, <3>2 DEF PairInv, PairThreads
      <3>4. TurnInv'
        BY <3>1, <3>3, PairAssumption DEF TurnInv, Turn
      <3> QED BY <3>1, <3>2, <3>3, <3>4 DEF PairInv
    <2>3. CASE Assignment2(PairNext)
      <3>1. lab = "assignment_2" /\ lab' = lab /\ PairNext
        BY <2>3, OtherFrames DEF Assignment2
      <3> QED BY <2>1, <3>1, ThreadSteps, MainSteps DEF PairNext
    <2>4. CASE CondvarLab(HandNext)
      <3>1. /\ lab = "condvar" /\ lab' = lab
            /\ UNCHANGED <<use_mutex, var, at, step, reg, started>>
        BY <2>4, OtherFrames DEF pairVars, control
      <3> QED BY <2>1, <3>1 DEF PairInv, PairTypeOK
    <2>5. CASE UNCHANGED <<lab, owner, pairVars>>
      <3>1. UNCHANGED <<lab, owner, use_mutex, var, at, step, reg, started>>
        BY <2>5 DEF pairVars, control
      <3> QED BY <2>1, <3>1 DEF PairInv, PairTypeOK, TurnInv
    <2> QED BY <2>1, <2>2, <2>3, <2>4, <2>5, Frames, OtherFrames
  <1> QED BY <1>1, <1>2, PTL DEF Spec

(* With the mutex the three variables are equal whenever nobody holds it,  *)
(* and no thread ever finds var1 and var2 different, for any number of     *)
(* threads and wherever an unsigned wraps.                                 *)
THEOREM PairAgreement == Spec => []PairAgrees
  <1>1. ASSUME PairInv PROVE PairAgrees
    <2>1. CASE lab = "assignment_2"
      BY <1>1, <2>1 DEF PairInv, TurnInv, PairAgrees
    <2>2. CASE lab # "assignment_2"
      <3>1. \A t \in PairThreads : at[t] = "new"
        BY <1>1, <2>2, PairAssumption DEF PairInv, PairThreads
      <3> QED BY <1>1, <2>2, <3>1 DEF PairInv, PairAgrees
    <2> QED BY <2>1, <2>2
  <1> QED BY <1>1, PairInvariance, PTL
=============================================================================
