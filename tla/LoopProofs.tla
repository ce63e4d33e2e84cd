------------------------------ MODULE LoopProofs ------------------------------
(***************************************************************************)
(* Proofs about the labs whose threads each run a loop of so many rounds:  *)
(* labs 10 and 14, where they count, and lab 12, where they share an array *)
(* out.  They hold for any number of threads and rounds.                   *)
(***************************************************************************)
EXTENDS SharedCounter, OrangeProblem, FiniteSetTheorems, TLAPS

-----------------------------------------------------------------------------
(***************************************************************************)
(* How many iterations a finite set of looping threads has completed.      *)
(***************************************************************************)

(* There are finitely many iterations: one per thread and number.          *)
LEMMA AllIterations ==
    ASSUME NEW T, IsFiniteSet(T), NEW K \in Nat
    PROVE  /\ IsFiniteSet(T \X (1 .. K))
           /\ Cardinality(T \X (1 .. K)) = Cardinality(T) * K
           /\ Cardinality(T) * K \in Nat
  <1>1. /\ IsFiniteSet(1 .. K) /\ Cardinality(1 .. K) = K
    <2>1. K \in Int /\ (1 > K => K = 0) /\ K - 1 + 1 = K
      OBVIOUS
    <2> QED BY <2>1, FS_Interval
  <1>2. /\ IsFiniteSet(T \X (1 .. K))
        /\ Cardinality(T \X (1 .. K)) = Cardinality(T) * K
    BY <1>1, FS_Product
  <1> QED BY <1>2, FS_CardinalityType

(* Those done are finitely many, and all of them once every loop ended.    *)
LEMMA DoneIterations ==
    ASSUME NEW T, IsFiniteSet(T), NEW K \in Nat, NEW n
    PROVE  /\ IsFiniteSet(IterationsDone(T, K, n))
           /\ Cardinality(IterationsDone(T, K, n)) \in Nat
           /\ Cardinality(IterationsDone(T, K, n)) <= Cardinality(T) * K
           /\ (\A t \in T : n[t] = K)
                => Cardinality(IterationsDone(T, K, n)) = Cardinality(T) * K
  <1> DEFINE D == IterationsDone(T, K, n)
             A == T \X (1 .. K)
  <1>1. D \in SUBSET A
    BY DEF IterationsDone
  <1>2. IsFiniteSet(D) /\ Cardinality(D) <= Cardinality(A)
    BY <1>1, AllIterations, FS_Subset
  <1>3. ASSUME \A t \in T : n[t] = K
        PROVE  D = A
    BY <1>3 DEF IterationsDone
  <1> QED BY <1>2, <1>3, AllIterations, FS_CardinalityType

(* A thread that ends an iteration adds exactly one.                       *)
LEMMA OneMoreIteration ==
    ASSUME NEW T, IsFiniteSet(T), NEW K \in Nat, NEW t \in T, NEW n, NEW m,
           Advances(T, K, t, n, m)
    PROVE  Cardinality(IterationsDone(T, K, m))
             = Cardinality(IterationsDone(T, K, n)) + 1
  <1> DEFINE u == <<t, n[t] + 1>>
             D == IterationsDone(T, K, n)
             E == IterationsDone(T, K, m)
  <1>1. n[t] \in Nat /\ n[t] + 1 \in 1 .. K /\ m[t] = n[t] + 1
    BY DEF Advances
  <1>2. u \notin D
    BY <1>1 DEF IterationsDone
  <1>3. E = D \cup {u}
    <2>1. ASSUME NEW s \in T, NEW k \in 1 .. K
          PROVE  <<s, k>> \in E <=> <<s, k>> \in D \cup {u}
      <3>1. CASE s = t
        <4>1. k <= n[t] + 1 <=> k <= n[t] \/ k = n[t] + 1
          BY <1>1
        <4> QED BY <1>1, <3>1, <4>1 DEF IterationsDone
      <3>2. CASE s # t
        <4>1. m[s] = n[s]
          BY <3>2 DEF Advances
        <4> QED BY <3>2, <4>1 DEF IterationsDone
      <3> QED BY <3>1, <3>2
    <2>2. E \subseteq T \X (1 .. K) /\ D \cup {u} \subseteq T \X (1 .. K)
      BY <1>1 DEF IterationsDone
    <2> HIDE DEF D, E, u
    <2> QED BY <2>1, <2>2
  <1>4. IsFiniteSet(D)
    BY DoneIterations
  <1>5. Cardinality(D \cup {u}) = Cardinality(D) + 1
    <2> HIDE DEF D, u
    <2> QED BY <1>2, <1>4, FS_AddElement
  <1> QED BY <1>3, <1>5

(* While one thread is not finished, not all iterations are done.          *)
LEMMA SomeIterationLeft ==
    ASSUME NEW T, IsFiniteSet(T), NEW K \in Nat, NEW t \in T, NEW n,
           n[t] \in 0 .. K - 1
    PROVE  Cardinality(IterationsDone(T, K, n)) < Cardinality(T) * K
  <1> DEFINE D == IterationsDone(T, K, n)
             A == T \X (1 .. K)
  <1>1. <<t, n[t] + 1>> \in A /\ <<t, n[t] + 1>> \notin D
    BY DEF IterationsDone
  <1>2. D \in SUBSET A
    BY DEF IterationsDone
  <1>3. Cardinality(D) <= Cardinality(A) /\ Cardinality(D) # Cardinality(A)
    <2> HIDE DEF A, D
    <2> QED BY <1>1, <1>2, AllIterations, FS_Subset DEF A
  <1>4. Cardinality(D) \in Nat /\ Cardinality(A) \in Nat
    BY AllIterations, DoneIterations
  <1>5. Cardinality(D) < Cardinality(A)
    <2> HIDE DEF A, D
    <2> QED BY <1>3, <1>4
  <1>6. Cardinality(A) = Cardinality(T) * K
    BY AllIterations
  <1> HIDE DEF A
  <1> QED BY <1>5, <1>6

-----------------------------------------------------------------------------
(***************************************************************************)
(* Labs 10 and 14: the shared counter                                      *)
(***************************************************************************)
(* The inductive invariant                                                 *)

(* A thread stands where its mode allows, and how far its loop is agrees   *)
(* with what it does next.                                                 *)
CounterLoop ==
    \A t \in Workers :
        /\ at[t] \in {"lock", "unlock"} => mode = "mutex"
        /\ at[t] \in {"read", "write"} => mode # "atomic"
        /\ at[t] = "add" => mode = "atomic"
        /\ at[t] = "new" => stored[t] = 0
        /\ at[t] \in {"lock", "read", "write", "add"} => stored[t] < Updates
        /\ at[t] = "exit" => stored[t] = Updates

(* The threads inside the critical section own the mutex.                  *)
HolderInv ==
    \A t \in Workers :
        (owner = t) <=> (mode = "mutex" /\ at[t] \in {"read", "write", "unlock"})

(* A thread about to store has loaded the counter's present value.         *)
FreshInv ==
    \A t \in Workers : mode # "none" /\ at[t] = "write" => local[t] = counter

(* What main has created, joined and printed.                              *)
MainInv ==
    /\ \A t \in Workers : t > created => at[t] = "new"
    /\ joined > 0 => created = NumThreads
    /\ \A t \in 1 .. joined : at[t] = "exit"
    /\ final # NotPrinted => joined = NumThreads /\ final = counter

CounterInv == CounterTypeOK /\ CounterLoop /\ HolderInv /\ FreshInv /\ MainInv /\ NoLostUpdate

-----------------------------------------------------------------------------
(* Lemmas about the updates done                                           *)

LEMMA ThreadsFinite == IsFiniteSet(Workers) /\ Cardinality(Workers) = NumThreads
  <1>1. 1 \in Int /\ NumThreads \in Int /\ ~(1 > NumThreads)
    BY CounterAssumption
  <1>2. NumThreads - 1 + 1 = NumThreads
    BY CounterAssumption
  <1> QED BY <1>1, <1>2, FS_Interval DEF Workers

(* A store of thread t adds exactly one update.                            *)
LEMMA OneMoreUpdate ==
    ASSUME CounterTypeOK, NEW t \in Workers, stored[t] < Updates,
           stored' = [stored EXCEPT ![t] = @ + 1]
    PROVE  Cardinality(DoneUpdates') = Cardinality(DoneUpdates) + 1
  <1>1. Updates \in Nat /\ Advances(Workers, Updates, t, stored, stored')
    BY CounterAssumption DEF CounterTypeOK, Advances
  <1>2. IsFiniteSet(Workers)
    BY ThreadsFinite
  <1> QED BY <1>1, <1>2, OneMoreIteration DEF DoneUpdates

-----------------------------------------------------------------------------
(* CounterInv is inductive                                                       *)

LEMMA CounterInitInv == CounterInit => CounterInv
  <1> SUFFICES ASSUME CounterInit PROVE CounterInv
    OBVIOUS
  <1> USE CounterAssumption DEF CounterInit, Modes
  <1>1. CounterTypeOK
    BY DEF CounterTypeOK, MutexInit, Places, NotPrinted
  <1>2. CounterLoop /\ HolderInv /\ FreshInv /\ MainInv
    BY DEF CounterLoop, HolderInv, FreshInv, MainInv, MutexInit, NotPrinted, Workers
  <1>3. NoLostUpdate
    <2>1. DoneUpdates = {}
      BY DEF DoneUpdates, IterationsDone
    <2> QED BY <2>1, FS_EmptySet DEF NoLostUpdate
  <1> QED BY <1>1, <1>2, <1>3 DEF CounterInv

(* Where a thread goes after n updates, for n in the loop's range.         *)
LEMMA AfterPc ==
    ASSUME NEW n \in 0 .. Updates
    PROVE  /\ n < Updates => After(n) = LoopStart
           /\ n = Updates => After(n) = "exit"
           /\ mode = "mutex" => LoopStart = "lock"
           /\ mode = "atomic" => LoopStart = "add"
           /\ mode = "none" => LoopStart = "read"
  BY CounterAssumption DEF After, LoopStart

LEMMA CounterNextInv == CounterInv /\ [CounterNext]_counterVars => CounterInv'
  <1> SUFFICES ASSUME CounterInv, [CounterNext]_counterVars PROVE CounterInv'
    OBVIOUS
  <1> USE CounterAssumption DEF CounterInv, Modes
  <1>1. CASE UNCHANGED counterVars
    BY <1>1 DEF counterVars, CounterTypeOK, CounterLoop, HolderInv, FreshInv, MainInv,
                NoLostUpdate, DoneUpdates
  <1>2. ASSUME NEW t \in Workers, LockCounter(t)
        PROVE  CounterInv'
    <2> USE <1>2 DEF LockCounter, Lock
    <2>1. CounterTypeOK'
      BY DEF CounterTypeOK, Places
    <2>2. CounterLoop'
      BY DEF CounterTypeOK, CounterLoop
    <2>3. HolderInv'
      BY DEF CounterTypeOK, CounterLoop, HolderInv
    <2>4. FreshInv' /\ MainInv'
      BY DEF CounterTypeOK, FreshInv, MainInv, Workers
    <2>5. NoLostUpdate'
      BY DEF NoLostUpdate, DoneUpdates
    <2> QED BY <2>1, <2>2, <2>3, <2>4, <2>5
  <1>3. ASSUME NEW t \in Workers, Load(t)
        PROVE  CounterInv'
    <2> USE <1>3 DEF Load
    <2>1. CounterTypeOK'
      BY DEF CounterTypeOK, Places
    <2>2. CounterLoop'
      BY DEF CounterTypeOK, CounterLoop
    <2>3. HolderInv'
      BY DEF CounterTypeOK, HolderInv
    <2>4. FreshInv' /\ MainInv'
      BY DEF CounterTypeOK, FreshInv, MainInv, Workers
    <2>5. NoLostUpdate'
      BY DEF NoLostUpdate, DoneUpdates
    <2> QED BY <2>1, <2>2, <2>3, <2>4, <2>5
  <1>4. ASSUME NEW t \in Workers, Store(t)
        PROVE  CounterInv'
    <2> USE <1>4 DEF Store
    <2>0. /\ stored[t] \in 0 .. Updates /\ stored[t] < Updates
          /\ stored[t] + 1 \in 0 .. Updates
          /\ mode # "atomic"
          /\ at'[t] = IF mode = "mutex" THEN "unlock" ELSE After(stored[t] + 1)
          /\ at'[t] \in Places
      BY AfterPc DEF CounterTypeOK, CounterLoop, Places, After, LoopStart
    <2>1. CounterTypeOK'
      BY <2>0 DEF CounterTypeOK
    <2>2. CounterLoop'
      BY <2>0, AfterPc DEF CounterTypeOK, CounterLoop
    <2>3. HolderInv'
      BY <2>0, AfterPc DEF CounterTypeOK, CounterLoop, HolderInv
    <2>4. FreshInv'
      BY <2>0, AfterPc DEF CounterTypeOK, CounterLoop, HolderInv, FreshInv
    <2>5. MainInv'
      BY DEF CounterTypeOK, MainInv, Workers
    <2>6. NoLostUpdate'
      BY <2>0, OneMoreUpdate DEF NoLostUpdate, FreshInv
    <2> QED BY <2>1, <2>2, <2>3, <2>4, <2>5, <2>6
  <1>5. ASSUME NEW t \in Workers, UnlockCounter(t)
        PROVE  CounterInv'
    <2> USE <1>5 DEF UnlockCounter, Unlock
    <2>0. /\ stored[t] \in 0 .. Updates
          /\ mode = "mutex"
          /\ at'[t] = After(stored[t])
          /\ at'[t] \in {"lock", "exit"}
      BY AfterPc DEF CounterTypeOK, CounterLoop, After, LoopStart
    <2>1. CounterTypeOK'
      BY <2>0 DEF CounterTypeOK, Places
    <2>2. CounterLoop'
      BY <2>0, AfterPc DEF CounterTypeOK, CounterLoop
    <2>3. HolderInv'
      BY <2>0 DEF CounterTypeOK, HolderInv
    <2>4. FreshInv' /\ MainInv'
      BY <2>0 DEF CounterTypeOK, FreshInv, MainInv, Workers
    <2>5. NoLostUpdate'
      BY DEF NoLostUpdate, DoneUpdates
    <2> QED BY <2>1, <2>2, <2>3, <2>4, <2>5
  <1>6. ASSUME NEW t \in Workers, FetchAdd(t)
        PROVE  CounterInv'
    <2> USE <1>6 DEF FetchAdd
    <2>0. /\ stored[t] \in 0 .. Updates /\ stored[t] < Updates
          /\ stored[t] + 1 \in 0 .. Updates
          /\ mode = "atomic"
          /\ at'[t] = After(stored[t] + 1)
          /\ at'[t] \in {"add", "exit"}
      BY AfterPc DEF CounterTypeOK, CounterLoop, After, LoopStart
    <2>1. CounterTypeOK'
      BY <2>0 DEF CounterTypeOK, Places
    <2>2. CounterLoop'
      BY <2>0, AfterPc DEF CounterTypeOK, CounterLoop
    <2>3. HolderInv'
      BY <2>0 DEF CounterTypeOK, HolderInv
    <2>4. FreshInv'
      BY <2>0 DEF CounterTypeOK, CounterLoop, FreshInv
    <2>5. MainInv'
      BY DEF CounterTypeOK, MainInv, Workers
    <2>6. NoLostUpdate'
      BY <2>0, OneMoreUpdate DEF NoLostUpdate
    <2> QED BY <2>1, <2>2, <2>3, <2>4, <2>5, <2>6
  <1>7. CASE Create
    <2> USE <1>7 DEF Create
    <2>0. /\ created + 1 \in Workers
          /\ at[created + 1] = "new" /\ stored[created + 1] = 0
          /\ at'[created + 1] = LoopStart
          /\ LoopStart \in {"lock", "add", "read"}
          /\ joined = 0 /\ (LoopStart = "read" => mode = "none")
      BY AfterPc DEF CounterTypeOK, CounterLoop, MainInv, Workers, After, LoopStart
    <2>1. CounterTypeOK'
      BY <2>0 DEF CounterTypeOK, Places
    <2>2. CounterLoop'
      BY <2>0, AfterPc DEF CounterTypeOK, CounterLoop
    <2>3. HolderInv'
      BY <2>0, AfterPc DEF CounterTypeOK, HolderInv
    <2>4. FreshInv' /\ MainInv'
      BY <2>0 DEF CounterTypeOK, FreshInv, MainInv, Workers
    <2>5. NoLostUpdate'
      BY DEF NoLostUpdate, DoneUpdates
    <2> QED BY <2>1, <2>2, <2>3, <2>4, <2>5
  <1>8. CASE Join
    <2> USE <1>8 DEF Join
    <2>1. CounterTypeOK'
      BY DEF CounterTypeOK
    <2>2. CounterLoop' /\ HolderInv' /\ FreshInv' /\ MainInv'
      BY DEF CounterTypeOK, CounterLoop, HolderInv, FreshInv, MainInv, Workers
    <2>3. NoLostUpdate'
      BY DEF NoLostUpdate, DoneUpdates
    <2> QED BY <2>1, <2>2, <2>3
  <1>9. CASE Report
    <2> USE <1>9 DEF Report
    <2>1. CounterTypeOK'
      BY DEF CounterTypeOK
    <2>2. CounterLoop' /\ HolderInv' /\ FreshInv' /\ MainInv'
      BY DEF CounterTypeOK, CounterLoop, HolderInv, FreshInv, MainInv
    <2>3. NoLostUpdate'
      BY DEF NoLostUpdate, DoneUpdates
    <2> QED BY <2>1, <2>2, <2>3
  <1> QED BY <1>1, <1>2, <1>3, <1>4, <1>5, <1>6, <1>7, <1>8, <1>9
          DEF CounterNext, Main, thread_work

-----------------------------------------------------------------------------
(* How much can be lost                                                    *)

(* In any mode: counter, and what a thread is about to add one to, is at   *)
(* most the number of updates stored.  A thread's second update starts     *)
(* from a value of one or more, since its first left the counter there, so *)
(* a counter below 2 was stored by a thread with an update still to make.  *)
LossInv ==
    /\ counter <= Cardinality(DoneUpdates)
    /\ \A t \in Workers :
         /\ at[t] = "write" => local[t] <= Cardinality(DoneUpdates)
         /\ at[t] = "write" /\ stored[t] > 0 => local[t] > 0
         /\ stored[t] > 0 => counter > 0
    /\ counter < 2 /\ Updates > 1 => \E t \in Workers : stored[t] < Updates

LEMMA UpdatesNatural == Cardinality(DoneUpdates) \in Nat
  BY ThreadsFinite, DoneIterations, CounterAssumption DEF DoneUpdates

LEMMA LossInit == CounterInit => LossInv
  <1> SUFFICES ASSUME CounterInit PROVE LossInv
    OBVIOUS
  <1>1. 1 \in Workers
    BY CounterAssumption DEF Workers
  <1> QED BY <1>1, UpdatesNatural, CounterAssumption DEF CounterInit, LossInv

LEMMA LossNext == CounterInv /\ LossInv /\ [CounterNext]_counterVars => LossInv'
  <1> SUFFICES ASSUME CounterInv, LossInv, [CounterNext]_counterVars
               PROVE  LossInv'
    OBVIOUS
  <1> USE CounterAssumption, UpdatesNatural
  <1>0. CounterTypeOK
    BY DEF CounterInv
  <1>1. ASSUME UNCHANGED <<counter, stored>>,
               \A t \in Workers :
                 at'[t] = "write" => at[t] = "write" /\ local'[t] = local[t]
        PROVE  LossInv'
    BY <1>0, <1>1 DEF LossInv, DoneUpdates, CounterTypeOK
  <1>2. ASSUME NEW t \in Workers, Load(t)
        PROVE  LossInv'
    BY <1>0, <1>2 DEF Load, LossInv, DoneUpdates, CounterTypeOK
  <1>3. ASSUME NEW t \in Workers, Store(t) \/ FetchAdd(t)
        PROVE  LossInv'
    <2> DEFINE old == IF at[t] = "write" THEN local[t] ELSE counter
    <2>1. /\ counter' = old + 1 /\ local' = local
          /\ stored' = [stored EXCEPT ![t] = @ + 1]
          /\ \A s \in Workers : s # t /\ at'[s] = "write" => at[s] = "write"
          /\ at'[t] = "write" => FALSE
      <3>1. After(stored[t] + 1) # "write"
        BY DEF After, LoopStart
      <3> QED BY <1>0, <1>3, <3>1 DEF Store, FetchAdd, CounterTypeOK
    <2>2. stored[t] \in Nat /\ stored[t] < Updates
      BY <1>0, <1>3 DEF CounterInv, CounterLoop, CounterTypeOK, Store, FetchAdd
    <2>3. /\ old \in Nat /\ old <= Cardinality(DoneUpdates)
          /\ stored[t] > 0 => old > 0
      BY <1>0 DEF LossInv, CounterTypeOK
    <2>4. Cardinality(DoneUpdates') = Cardinality(DoneUpdates) + 1
      BY <1>0, <2>1, <2>2, OneMoreUpdate
    <2> HIDE DEF old
    <2>5. /\ counter' <= Cardinality(DoneUpdates')
          /\ counter' > 0
          /\ counter' < 2 /\ Updates > 1 => stored'[t] < Updates
      <3>1. counter' < 2 => stored[t] = 0
        BY <2>1, <2>2, <2>3
      <3>2. stored'[t] = stored[t] + 1
        BY <1>0, <2>1 DEF CounterTypeOK
      <3> QED BY <2>1, <2>2, <2>3, <2>4, <3>1, <3>2
    <2>6. ASSUME NEW s \in Workers, at'[s] = "write"
          PROVE  /\ local'[s] <= Cardinality(DoneUpdates')
                 /\ stored'[s] > 0 => local'[s] > 0
      <3>1. s # t /\ at[s] = "write" /\ stored'[s] = stored[s] /\ local'[s] = local[s]
        BY <1>0, <2>1, <2>6 DEF CounterTypeOK
      <3> QED BY <1>0, <2>4, <3>1 DEF LossInv, CounterTypeOK
    <2> QED BY <2>5, <2>6 DEF LossInv
  <1>4. ASSUME NEW t \in Workers, LockCounter(t) \/ UnlockCounter(t)
        PROVE  LossInv'
    <2>1. After(stored[t]) # "write"
      BY DEF After, LoopStart
    <2> QED BY <1>0, <1>1, <1>4, <2>1 DEF LockCounter, UnlockCounter, CounterTypeOK
  <1>5. CASE Main \/ UNCHANGED counterVars
    <2>1. After(0) # "write"
      BY DEF After, LoopStart
    <2> QED BY <1>0, <1>1, <1>5, <2>1
            DEF Main, Create, Join, Report, counterVars, CounterTypeOK
  <1> QED BY <1>2, <1>3, <1>4, <1>5 DEF CounterNext, thread_work

-----------------------------------------------------------------------------
(* The results                                                             *)

LEMMA CounterInvariance == CounterSpec => []CounterInv
  BY CounterInitInv, CounterNextInv, PTL DEF CounterSpec

(* Every variable keeps its type.                                          *)
THEOREM CounterTypeCorrect == CounterSpec => []CounterTypeOK
  <1>1. CounterInv => CounterTypeOK
    BY DEF CounterInv
  <1> QED BY <1>1, CounterInvariance, PTL

(* At every moment a synchronised counter counts the updates stored.       *)
THEOREM UpdatesCounted == CounterSpec => []NoLostUpdate
  <1>1. CounterInv => NoLostUpdate
    BY DEF CounterInv
  <1> QED BY <1>1, CounterInvariance, PTL

(* What main prints is the product of threads and updates, however many of *)
(* both there are: 10 in lab 10, 4000 in lab 14.                           *)
THEOREM PrintedExactly == CounterSpec => []FinalExact
  <1>1. CounterInv => FinalExact
    <2> SUFFICES ASSUME CounterInv, mode # "none", final # NotPrinted
                 PROVE  final = NumThreads * Updates
      BY DEF FinalExact
    <2>1. \A t \in Workers : stored[t] = Updates
      BY DEF CounterInv, MainInv, CounterLoop, Workers
    <2>2. Cardinality(DoneUpdates) = NumThreads * Updates
      BY <2>1, ThreadsFinite, DoneIterations, CounterAssumption DEF DoneUpdates
    <2> QED BY <2>2 DEF CounterInv, NoLostUpdate, MainInv
  <1> QED BY <1>1, CounterInvariance, PTL

(* Without synchronisation updates are lost but never invented, and what   *)
(* main prints is at least 2 (1 if a thread has one update to make),       *)
(* however many threads there are.                                         *)
THEOREM LossBounded == CounterSpec => []LossIsBounded
  <1>1. CounterSpec => []LossInv
    BY LossInit, LossNext, CounterInvariance, PTL DEF CounterSpec
  <1>2. CounterInv /\ LossInv => LossIsBounded
    <2> SUFFICES ASSUME CounterInv, LossInv, final # NotPrinted
                 PROVE  final >= IF Updates = 1 THEN 1 ELSE 2
      BY DEF LossInv, LossIsBounded
    <2>1. /\ \A t \in Workers : stored[t] = Updates
          /\ 1 \in Workers /\ final = counter /\ counter \in Nat
      BY CounterAssumption
         DEF CounterInv, CounterTypeOK, MainInv, CounterLoop, Workers
    <2> QED BY <2>1, CounterAssumption DEF LossInv
  <1> QED BY <1>1, <1>2, CounterInvariance, PTL

(* When main destroys the mutex, nobody holds it or will ask for it.       *)
THEOREM DestroyedQuietly == CounterSpec => []QuietAtReport
  <1>1. CounterInv => QuietAtReport
    BY DEF CounterInv, CounterTypeOK, MainInv, HolderInv, QuietAtReport, Workers
  <1> QED BY <1>1, CounterInvariance, PTL

-----------------------------------------------------------------------------
(***************************************************************************)
(* Lab 12: the orange problem                                              *)
(***************************************************************************)

(* How far a thread's loop is: before its increase of allocated it has one *)
(* left to make, and from Take to the end of its round it has a chunk.     *)
LoopInv ==
    \A t \in Threads :
        /\ pc[t] \in {"lock", "check", "take", "grow", "store"}
             => grown[t] < Rounds
        /\ pc[t] \in {"grow", "store", "unlock", "load", "update"}
             => chunk[t] \in Cells

(* allocated, and any value a thread is about to add to, is at most the    *)
(* number of increases made.                                               *)
GrowthInv ==
    /\ allocated <= Cardinality(GrowthsDone)
    /\ \A t \in Threads :
         pc[t] = "store" => loaded[t] <= Cardinality(GrowthsDone)

IInv == TypeOK /\ LoopInv /\ GrowthInv /\ NeverAborts

-----------------------------------------------------------------------------
(* The number of increases is a natural number, at most one per chunk.     *)
LEMMA GrowthsBounded ==
    /\ Chunks \in Nat
    /\ Cardinality(GrowthsDone) \in Nat
    /\ Cardinality(GrowthsDone) <= Chunks
  BY OrangeAssumption, DoneIterations, AllIterations DEF GrowthsDone, Chunks

(* A thread with an increase left to make leaves room for it.              *)
LEMMA RoomLeft ==
    ASSUME TypeOK, NEW t \in Threads, grown[t] < Rounds
    PROVE  Cardinality(GrowthsDone) < Chunks
  <1>1. Rounds \in Nat /\ grown[t] \in 0 .. Rounds - 1
    BY OrangeAssumption DEF TypeOK
  <1> QED BY <1>1, OrangeAssumption, SomeIterationLeft DEF GrowthsDone, Chunks

(* A store to allocated is one more increase.                              *)
LEMMA OneMoreGrowth ==
    ASSUME TypeOK, NEW t \in Threads, grown[t] < Rounds,
           grown' = [grown EXCEPT ![t] = @ + 1]
    PROVE  Cardinality(GrowthsDone') = Cardinality(GrowthsDone) + 1
  <1>1. Rounds \in Nat /\ Advances(Threads, Rounds, t, grown, grown')
    BY OrangeAssumption DEF TypeOK, Advances
  <1> QED BY <1>1, OrangeAssumption, OneMoreIteration DEF GrowthsDone

-----------------------------------------------------------------------------
LEMMA InitIInv == Init => IInv
  <1> SUFFICES ASSUME Init PROVE IInv
    OBVIOUS
  <1> USE OrangeAssumption DEF Init
  <1>1. TypeOK
    <2>1. pc \in [Threads -> Pcs]
      BY DEF Pcs, Entry
    <2>2. allocated \in 0 .. Chunks
      BY GrowthsBounded
    <2>3. grown \in [Threads -> 0 .. Rounds]
      OBVIOUS
    <2> QED BY <2>1, <2>2, <2>3 DEF TypeOK, MutexInit
  <1>2. LoopInv /\ NeverAborts
    BY DEF LoopInv, NeverAborts, Entry
  <1>3. GrowthInv
    BY GrowthsBounded DEF GrowthInv, Entry
  <1> QED BY <1>1, <1>2, <1>3 DEF IInv

LEMMA NextIInv == IInv /\ [Next]_vars => IInv'
  <1> SUFFICES ASSUME IInv, [Next]_vars PROVE IInv'
    OBVIOUS
  <1> USE OrangeAssumption DEF IInv
  <1>0. /\ Chunks \in Nat
        /\ Cardinality(GrowthsDone) \in Nat
        /\ Cardinality(GrowthsDone) <= Chunks
    BY GrowthsBounded
  <1>1. CASE UNCHANGED vars
    BY <1>1 DEF vars, TypeOK, LoopInv, GrowthInv, NeverAborts, GrowthsDone
  <1>2. ASSUME NEW t \in Threads, Acquire(t)
        PROVE  IInv'
    BY <1>2 DEF Acquire, Goto, Lock, TypeOK, Pcs, LoopInv, GrowthInv,
                NeverAborts, GrowthsDone
  <1>3. ASSUME NEW t \in Threads, Check(t)
        PROVE  IInv'
    <2> USE <1>3 DEF Check, Goto
    <2>1. allocated < Chunks
      <3>1. grown[t] < Rounds /\ allocated <= Cardinality(GrowthsDone)
        BY DEF LoopInv, GrowthInv
      <3>2. allocated \in Nat
        BY <1>0 DEF TypeOK
      <3> QED BY <1>0, <3>1, <3>2, RoomLeft
    <2>2. pc' = [pc EXCEPT ![t] = "take"]
      <3>1. ~(allocated >= Chunks)
        BY <1>0, <2>1 DEF TypeOK
      <3> QED BY <3>1, Zenon
    <2>3. TypeOK'
      BY <2>2 DEF TypeOK, Pcs
    <2>4. LoopInv' /\ GrowthInv' /\ NeverAborts'
      BY <2>2 DEF TypeOK, LoopInv, GrowthInv, NeverAborts, GrowthsDone
    <2> QED BY <2>3, <2>4
  <1>4. ASSUME NEW t \in Threads, Take(t)
        PROVE  IInv'
    <2> USE <1>4 DEF Take, Goto
    <2>1. allocated \in Cells
      <3>1. grown[t] < Rounds /\ allocated <= Cardinality(GrowthsDone)
        BY DEF LoopInv, GrowthInv
      <3>2. allocated \in Nat
        BY <1>0 DEF TypeOK
      <3> QED BY <1>0, <3>1, <3>2, RoomLeft DEF Cells
    <2>2. TypeOK'
      BY <2>1 DEF TypeOK, Pcs
    <2>3. LoopInv' /\ GrowthInv' /\ NeverAborts'
      BY <2>1 DEF TypeOK, LoopInv, GrowthInv, NeverAborts, GrowthsDone
    <2> QED BY <2>2, <2>3
  <1>5. ASSUME NEW t \in Threads, LoadAllocated(t)
        PROVE  IInv'
    <2> USE <1>5 DEF LoadAllocated, Goto
    <2>1. TypeOK'
      BY <1>0 DEF TypeOK, Pcs
    <2>2. LoopInv' /\ GrowthInv' /\ NeverAborts'
      BY DEF TypeOK, LoopInv, GrowthInv, NeverAborts, GrowthsDone
    <2> QED BY <2>1, <2>2
  <1>6. ASSUME NEW t \in Threads, StoreAllocated(t)
        PROVE  IInv'
    <2> USE <1>6 DEF StoreAllocated, Goto
    <2>1. /\ grown[t] < Rounds /\ loaded[t] <= Cardinality(GrowthsDone)
          /\ loaded[t] \in Nat /\ grown[t] \in 0 .. Rounds
      BY DEF TypeOK, LoopInv, GrowthInv
    <2>2. Cardinality(GrowthsDone') = Cardinality(GrowthsDone) + 1
      BY <2>1, OneMoreGrowth
    <2>3. Cardinality(GrowthsDone) < Chunks
      BY <2>1, RoomLeft
    <2>4. TypeOK'
      BY <1>0, <2>1, <2>3 DEF TypeOK, Pcs
    <2>5. LoopInv' /\ NeverAborts'
      BY <2>1 DEF TypeOK, LoopInv, NeverAborts
    <2>6. GrowthInv'
      BY <1>0, <2>1, <2>2 DEF TypeOK, GrowthInv
    <2> QED BY <2>4, <2>5, <2>6
  <1>7. ASSUME NEW t \in Threads, Release(t)
        PROVE  IInv'
    <2> USE <1>7 DEF Release, Goto
    <2>0. chunk[t] # NULL
      BY <1>0 DEF LoopInv, Cells, NULL
    <2>1. aborted' = FALSE
      BY <2>0, Zenon
    <2>2. TypeOK'
      BY <2>1 DEF TypeOK, Pcs, Unlock
    <2>3. LoopInv' /\ GrowthInv' /\ NeverAborts'
      BY <2>1 DEF TypeOK, LoopInv, GrowthInv, NeverAborts, GrowthsDone
    <2> QED BY <2>2, <2>3
  <1>8. ASSUME NEW t \in Threads, LoadCell(t)
        PROVE  IInv'
    <2> USE <1>8 DEF LoadCell, Goto
    <2>1. array[chunk[t]] \in Nat
      BY DEF TypeOK, LoopInv
    <2>2. TypeOK'
      BY <2>1 DEF TypeOK, Pcs
    <2>3. LoopInv' /\ GrowthInv' /\ NeverAborts'
      BY DEF TypeOK, LoopInv, GrowthInv, NeverAborts, GrowthsDone
    <2> QED BY <2>2, <2>3
  <1>9. ASSUME NEW t \in Threads, StoreCell(t)
        PROVE  IInv'
    <2> USE <1>9 DEF StoreCell, Goto
    <2>0. (IF grown[t] < Rounds THEN Entry ELSE "exit") \in Pcs
      BY DEF Entry, Pcs
    <2>1. TypeOK'
      <3>1. loaded[t] + 1 \in Nat
        BY DEF TypeOK
      <3> QED BY <2>0, <3>1 DEF TypeOK
    <2>2. LoopInv' /\ GrowthInv' /\ NeverAborts'
      BY DEF TypeOK, LoopInv, GrowthInv, NeverAborts, GrowthsDone, Entry
    <2> QED BY <2>1, <2>2
  <1>10. CASE JoinAndPrint
    BY <1>10 DEF JoinAndPrint, TypeOK, LoopInv, GrowthInv, NeverAborts,
                 GrowthsDone
  <1> QED BY <1>1, <1>2, <1>3, <1>4, <1>5, <1>6, <1>7, <1>8, <1>9, <1>10
          DEF Next, Thread

-----------------------------------------------------------------------------
(* Under the mutex                                                         *)

Allocating(t) == pc[t] \in {"check", "take", "grow", "store", "unlock"}
Holds(t) == pc[t] \in {"unlock", "load", "update"}

(* One thread at a time allocates; allocated is what it saw.               *)
AllocationInv ==
    \A t \in Threads :
        /\ owner = t <=> Allocating(t)
        /\ pc[t] \in {"grow", "store"} => chunk[t] = allocated
        /\ pc[t] = "store" => loaded[t] = allocated

(* A chunk given out is updated, or one thread holds it and will update    *)
(* it; nobody has touched the others.                                      *)
ChunkInv ==
    /\ \A c \in Cells :
         /\ c >= allocated => array[c] = 0
         /\ c < allocated =>
              array[c] = 1 \/ \E t \in Threads : Holds(t) /\ chunk[t] = c
    /\ \A t \in Threads :
         Holds(t) => chunk[t] < allocated /\ array[chunk[t]] = 0
    /\ \A s, t \in Threads :
         s # t /\ Holds(s) /\ Holds(t) => chunk[s] # chunk[t]
    /\ \A t \in Threads : pc[t] = "update" => loaded[t] = 0

(* Every round is one chunk, and main prints when all rounds are over.     *)
RoundInv ==
    /\ use_mutex => allocated = Cardinality(GrowthsDone)
    /\ \A t \in Threads : pc[t] = "exit" => grown[t] = Rounds
    /\ printed => \A t \in Threads : pc[t] = "exit"

MutexInv == RoundInv /\ (use_mutex => AllocationInv /\ ChunkInv)

LEMMA InitMutexInv == Init => MutexInv
  <1> SUFFICES ASSUME Init PROVE MutexInv
    OBVIOUS
  <1> USE OrangeAssumption DEF Init
  <1>1. GrowthsDone = {}
    BY DEF GrowthsDone, IterationsDone
  <1>2. RoundInv
    BY <1>1, FS_EmptySet DEF RoundInv, Entry
  <1>3. use_mutex => AllocationInv /\ ChunkInv
    BY GrowthsBounded
       DEF AllocationInv, ChunkInv, Allocating, Holds, Entry, MutexInit, Cells
  <1> QED BY <1>2, <1>3 DEF MutexInv

LEMMA NextMutexInv == IInv /\ MutexInv /\ [Next]_vars => MutexInv'
  <1> SUFFICES ASSUME IInv, MutexInv, [Next]_vars PROVE MutexInv'
    OBVIOUS
  <1> USE OrangeAssumption
  <1>0. TypeOK /\ LoopInv /\ Chunks \in Nat /\ Cells = 0 .. Chunks - 1
    BY GrowthsBounded DEF IInv, Cells
  <1>1. RoundInv'
    <2>1. ASSUME NEW t \in Threads, StoreAllocated(t)
          PROVE  RoundInv'
      <3> USE <2>1 DEF StoreAllocated, Goto
      <3>1. Cardinality(GrowthsDone') = Cardinality(GrowthsDone) + 1
        BY <1>0, OneMoreGrowth DEF LoopInv
      <3>2. use_mutex => allocated' = allocated + 1
        BY DEF MutexInv, AllocationInv
      <3> QED BY <1>0, <3>1, <3>2 DEF MutexInv, RoundInv, TypeOK
    <2>2. ASSUME NEW t \in Threads, StoreCell(t)
          PROVE  RoundInv'
      BY <1>0, <2>2 DEF StoreCell, Goto, MutexInv, RoundInv, TypeOK, GrowthsDone, Entry
    <2>3. ASSUME NEW t \in Threads,
                 Acquire(t) \/ Check(t) \/ Take(t) \/ LoadAllocated(t) \/ Release(t) \/ LoadCell(t)
          PROVE  RoundInv'
      BY <1>0, <2>3 DEF Acquire, Check, Take, LoadAllocated, Release, LoadCell, Goto,
                        MutexInv, RoundInv, TypeOK, GrowthsDone
    <2>4. CASE JoinAndPrint \/ UNCHANGED vars
      BY <2>4 DEF JoinAndPrint, vars, MutexInv, RoundInv, GrowthsDone
    <2> QED BY <2>1, <2>2, <2>3, <2>4 DEF Next, Thread
  <1>2. CASE use_mutex
    <2>0. use_mutex' /\ AllocationInv /\ ChunkInv
      BY <1>2 DEF MutexInv, Next, Thread, vars, Acquire, Check, Take, LoadAllocated,
                  StoreAllocated, Release, LoadCell, StoreCell, Goto, JoinAndPrint
    <2> USE <1>0, <1>2, <2>0
    <2>1. ASSUME NEW t \in Threads,
                 Acquire(t) \/ Take(t) \/ LoadAllocated(t)
          PROVE  AllocationInv' /\ ChunkInv'
      <3>1. AllocationInv'
        BY <2>1 DEF Acquire, Lock, Take, LoadAllocated, Goto, AllocationInv, Allocating, TypeOK
      <3>2. /\ \A s \in Threads : Holds(s)' <=> Holds(s)
            /\ \A s \in Threads : Holds(s) => chunk'[s] = chunk[s] /\ loaded'[s] = loaded[s]
            /\ \A s \in Threads : pc'[s] = "update" => Holds(s) /\ pc[s] = "update"
            /\ UNCHANGED <<allocated, array>>
        BY <2>1 DEF Acquire, Take, LoadAllocated, Goto, Holds, TypeOK
      <3>3. ChunkInv'
        BY <3>2 DEF ChunkInv
      <3> QED BY <3>1, <3>3
    <2>2. ASSUME NEW t \in Threads, Check(t)
          PROVE  AllocationInv' /\ ChunkInv'
      <3>1. pc' = [pc EXCEPT ![t] = "take"] /\ UNCHANGED <<owner, allocated, array, loaded>>
        <4>1. allocated < Chunks
          <5>1. grown[t] < Rounds /\ allocated <= Cardinality(GrowthsDone)
            BY <2>2 DEF Check, Goto, LoopInv, IInv, GrowthInv
          <5> QED BY <5>1, RoomLeft, GrowthsBounded DEF TypeOK
        <4>2. ~(allocated >= Chunks)
          BY <4>1 DEF TypeOK
        <4> QED BY <2>2, <4>2, Zenon DEF Check, Goto
      <3>2. pc[t] = "check" /\ chunk' = [chunk EXCEPT ![t] = NULL]
        BY <2>2 DEF Check, Goto
      <3>3. AllocationInv'
        BY <3>1, <3>2 DEF AllocationInv, Allocating, TypeOK
      <3>4. /\ \A s \in Threads : Holds(s)' <=> Holds(s)
            /\ \A s \in Threads : Holds(s) => chunk'[s] = chunk[s] /\ pc'[s] = pc[s]
        BY <3>1, <3>2 DEF Holds, TypeOK
      <3>5. \A s \in Threads : pc'[s] = "update" => Holds(s)
        BY <3>4 DEF Holds
      <3>6. ChunkInv'
        BY <3>1, <3>4, <3>5 DEF ChunkInv
      <3> QED BY <3>3, <3>6
    <2>3. ASSUME NEW t \in Threads, StoreAllocated(t)
          PROVE  AllocationInv' /\ ChunkInv'
      <3> USE <2>3 DEF StoreAllocated, Goto
      <3>1. /\ allocated \in Nat /\ allocated' = allocated + 1
            /\ chunk[t] = allocated /\ chunk[t] \in Cells
            /\ \A s \in Threads \ {t} : ~Allocating(s)
        BY DEF AllocationInv, Allocating, TypeOK, LoopInv
      <3>2. AllocationInv'
        BY <3>1 DEF AllocationInv, Allocating, TypeOK
      <3>3. /\ \A s \in Threads : Holds(s) => chunk[s] < allocated /\ array[chunk[s]] = 0
            /\ \A s \in Threads : Holds(s)' <=> Holds(s) \/ s = t
            /\ ~Holds(t)
            /\ UNCHANGED <<chunk, array, loaded>>
        BY DEF ChunkInv, Holds, TypeOK
      <3>4. \A s \in Threads : Holds(s) => chunk[s] \in Cells
        BY DEF LoopInv, Holds
      <3>5. ChunkInv'
        <4>1. ASSUME NEW c \in Cells
              PROVE  /\ c >= allocated' => array'[c] = 0
                     /\ c < allocated' =>
                          array'[c] = 1 \/ \E s \in Threads : Holds(s)' /\ chunk'[s] = c
          <5>1. CASE c = allocated
            BY <3>1, <3>3, <5>1
          <5>2. CASE c # allocated
            <6>1. /\ c >= allocated' => c >= allocated
                  /\ c < allocated' => c < allocated
              BY <3>1, <5>2
            <6> QED BY <3>3, <6>1 DEF ChunkInv
          <5> QED BY <5>1, <5>2
        <4>2. ASSUME NEW s \in Threads, Holds(s)'
              PROVE  chunk'[s] < allocated' /\ array'[chunk'[s]] = 0
          <5>1. CASE s = t
            BY <3>1, <3>3, <5>1 DEF ChunkInv
          <5>2. CASE s # t
            BY <3>1, <3>3, <3>4, <4>2, <5>2
          <5> QED BY <5>1, <5>2
        <4>3. ASSUME NEW r \in Threads, NEW s \in Threads, r # s, Holds(r)', Holds(s)'
              PROVE  chunk'[r] # chunk'[s]
          BY <3>1, <3>3, <3>4, <4>3 DEF ChunkInv
        <4>4. \A s \in Threads : pc'[s] = "update" => loaded'[s] = 0
          BY DEF ChunkInv, TypeOK
        <4> QED BY <4>1, <4>2, <4>3, <4>4 DEF ChunkInv, Holds
      <3> QED BY <3>2, <3>5
    <2>4. ASSUME NEW t \in Threads, Release(t)
          PROVE  AllocationInv' /\ ChunkInv'
      <3>1. AllocationInv'
        BY <2>4 DEF Release, Unlock, Goto, AllocationInv, Allocating, TypeOK
      <3>2. ChunkInv'
        BY <2>4 DEF Release, Goto, ChunkInv, Holds, TypeOK
      <3> QED BY <3>1, <3>2
    <2>5. ASSUME NEW t \in Threads, LoadCell(t)
          PROVE  AllocationInv' /\ ChunkInv'
      <3>1. AllocationInv'
        BY <2>5 DEF LoadCell, Goto, AllocationInv, Allocating, TypeOK
      <3>2. ChunkInv'
        BY <2>5 DEF LoadCell, Goto, ChunkInv, Holds, TypeOK
      <3> QED BY <3>1, <3>2
    <2>6. ASSUME NEW t \in Threads, StoreCell(t)
          PROVE  AllocationInv' /\ ChunkInv'
      <3> USE <2>6 DEF StoreCell, Goto
      <3>1. (IF grown[t] < Rounds THEN Entry ELSE "exit") \in {"lock", "exit"}
        BY DEF Entry
      <3>2. pc[t] = "update" /\ chunk[t] \in Cells /\ loaded[t] = 0
        BY DEF ChunkInv, LoopInv
      <3>3. /\ array' = [array EXCEPT ![chunk[t]] = 1]
            /\ pc'[t] \in {"lock", "exit"}
            /\ \A s \in Threads \ {t} : pc'[s] = pc[s]
            /\ UNCHANGED <<owner, allocated, chunk, loaded>>
        <4>1. loaded[t] + 1 = 1
          BY <3>2
        <4> QED BY <3>1, <4>1 DEF TypeOK
      <3>4. AllocationInv'
        BY <3>3 DEF AllocationInv, Allocating
      <3>5. /\ Holds(t) /\ ~Holds(t)'
            /\ \A s \in Threads \ {t} : Holds(s)' <=> Holds(s)
        BY <3>3 DEF Holds
      <3>6. \A s \in Threads : Holds(s) => chunk[s] \in Cells
        BY DEF LoopInv, Holds
      <3>7. ChunkInv'
        <4>1. ASSUME NEW c \in Cells
              PROVE  /\ c >= allocated' => array'[c] = 0
                     /\ c < allocated' =>
                          array'[c] = 1 \/ \E s \in Threads : Holds(s)' /\ chunk'[s] = c
          <5>1. CASE c = chunk[t]
            <6>1. c < allocated /\ array'[c] = 1
              BY <3>3, <3>5, <5>1 DEF ChunkInv, TypeOK
            <6> QED BY <3>3, <6>1 DEF TypeOK
          <5>2. CASE c # chunk[t]
            BY <3>3, <3>5, <5>2 DEF ChunkInv, TypeOK
          <5> QED BY <5>1, <5>2
        <4>2. ASSUME NEW s \in Threads, Holds(s)'
              PROVE  chunk'[s] < allocated' /\ array'[chunk'[s]] = 0
          BY <3>3, <3>5, <3>6, <4>2 DEF ChunkInv, TypeOK
        <4>3. /\ \A r, s \in Threads :
                    r # s /\ Holds(r)' /\ Holds(s)' => chunk'[r] # chunk'[s]
              /\ \A s \in Threads : pc'[s] = "update" => loaded'[s] = 0
          BY <3>3, <3>5 DEF ChunkInv
        <4> QED BY <4>1, <4>2, <4>3 DEF ChunkInv, Holds
      <3> QED BY <3>4, <3>7
    <2>7. ASSUME JoinAndPrint \/ UNCHANGED vars
          PROVE  AllocationInv' /\ ChunkInv'
      <3>1. UNCHANGED <<owner, allocated, array, pc, chunk, loaded>>
        BY <2>7 DEF JoinAndPrint, vars
      <3>2. AllocationInv'
        BY <3>1 DEF AllocationInv, Allocating
      <3>3. ChunkInv'
        BY <3>1 DEF ChunkInv, Holds
      <3> QED BY <3>2, <3>3
    <2>8. AllocationInv' /\ ChunkInv'
      BY <2>1, <2>2, <2>3, <2>4, <2>5, <2>6, <2>7 DEF Next, Thread
    <2> QED BY <1>1, <2>8 DEF MutexInv
  <1>3. CASE ~use_mutex
    <2>1. ~use_mutex'
      BY <1>3 DEF Next, Thread, vars, Acquire, Check, Take, LoadAllocated,
                  StoreAllocated, Release, LoadCell, StoreCell, Goto, JoinAndPrint
    <2> QED BY <1>1, <2>1 DEF MutexInv
  <1> QED BY <1>2, <1>3

-----------------------------------------------------------------------------
LEMMA Invariance == Spec => []IInv
  BY InitIInv, NextIInv, PTL DEF Spec

(* Every variable keeps its type: no pointer buff_alloc returns is outside *)
(* the array.                                                              *)
THEOREM PointersInside == Spec => []TypeOK
  <1>1. IInv => TypeOK
    BY DEF IInv
  <1> QED BY <1>1, Invariance, PTL

(* A thread past the tests of buff_alloc still finds room in the array,    *)
(* whatever the other threads did since, even without the mutex.           *)
THEOREM RacingTakesInside == Spec => []TakesInside
  <1>1. IInv => TakesInside
    <2> SUFFICES ASSUME IInv PROVE TakesInside
      OBVIOUS
    <2>1. allocated \in Nat /\ allocated <= Cardinality(GrowthsDone)
      BY DEF IInv, TypeOK, GrowthInv
    <2>2. ASSUME NEW t \in Threads, pc[t] = "take"
          PROVE  allocated < Chunks
      BY <2>1, <2>2, RoomLeft, GrowthsBounded DEF IInv, LoopInv
    <2> QED BY <2>1, <2>2 DEF TakesInside
  <1> QED BY <1>1, Invariance, PTL

(* buff_alloc never returns NULL, so no thread ends the process.           *)
THEOREM AllocationNeverFails == Spec => []NeverAborts
  <1>1. IInv => NeverAborts
    BY DEF IInv
  <1> QED BY <1>1, Invariance, PTL

(* Under "sync" main prints an array of which every chunk was updated      *)
(* once, though the updates themselves are made without the mutex.         *)
THEOREM ChunksUpdatedOnce == Spec => []EachChunkOnce
  <1>1. Spec => []MutexInv
    BY InitMutexInv, NextMutexInv, Invariance, PTL DEF Spec
  <1>2. IInv /\ MutexInv => EachChunkOnce
    <2> SUFFICES ASSUME IInv, MutexInv, use_mutex, printed, NEW c \in Cells
                 PROVE  array[c] = 1
      BY DEF EachChunkOnce
    <2>1. \A t \in Threads : pc[t] = "exit" /\ grown[t] = Rounds
      BY DEF MutexInv, RoundInv
    <2>2. Cardinality(GrowthsDone) = Chunks
      BY <2>1, OrangeAssumption, DoneIterations DEF GrowthsDone, Chunks
    <2>3. c < allocated /\ \A t \in Threads : ~Holds(t)
      BY <2>1, <2>2, GrowthsBounded DEF MutexInv, RoundInv, Cells, Holds
    <2> QED BY <2>3 DEF MutexInv, ChunkInv
  <1> QED BY <1>1, <1>2, Invariance, PTL
===============================================================================
