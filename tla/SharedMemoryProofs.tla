------------------------- MODULE SharedMemoryProofs -------------------------
(***************************************************************************)
(* Proofs about the labs that share memory between processes: 24 and 27,   *)
(* through a server, and 23, through a named object.                       *)
(***************************************************************************)
EXTENDS ShmServer, ShmPosix, TLAPS

-----------------------------------------------------------------------------
(***************************************************************************)
(* Labs 24 and 27: any number of clients and any sizes                     *)
(***************************************************************************)

(* The server dies only of the response to the client whose turn it is,    *)
(* within the size it has for that client's region.                        *)
IInv == TypeOK /\ RegionValid /\ LeakFree /\ CrashExplained

LEMMA InitIInv == Init => IInv
  <1> SUFFICES ASSUME Init PROVE IInv
    OBVIOUS
  <1> USE ShmAssumption DEF Init
  <1>1. TypeOK
    BY DEF TypeOK, Waiting
  <1> QED BY <1>1 DEF IInv, RegionValid, LeakFree, CrashExplained

(* Steps of the clients, and handlers that leave the server as it is.      *)
LEMMA ServerUnchanged ==
    ASSUME IInv, UNCHANGED <<given, server>>, TypeOK' PROVE IInv'
  BY DEF IInv, RegionValid, LeakFree, CrashExplained, server, given

LEMMA ClientSteps ==
    ASSUME IInv, NEW c \in Clients,
           \/ Open(c) \/ Die(c) \/ Client(c)
           \/ Other(c) \/ ChangeDeny(c) \/ ReleaseDeny(c) \/ ReleaseUnknown(c)
    PROVE  IInv'
  <1>1. UNCHANGED <<given, server>>
    BY DEF Open, Die, Client, Get, Change, Continue, Other, ChangeDeny,
           ReleaseDeny, ReleaseUnknown
  <1>2. TypeOK'
    <2> USE ShmAssumption DEF IInv, TypeOK, Waiting, given, server, Moves, Reply, Error
    <2>1. CASE Change(c)
      <3>1. PICK first \in 0 .. want[c], n \in 0 .. want[c] :
              range' = [range EXCEPT ![c] = <<first, n>>]
        BY <2>1 DEF Change
      <3>2. want[c] \in Nat
        OBVIOUS
      <3>3. <<first, n>> \in Nat \X Nat
        BY <3>2
      <3> QED BY <2>1, <3>1, <3>3 DEF Change
    <2>2. CASE Continue(c)
      <3>1. CASE kind[c] = 24
        BY <2>2, <3>1 DEF Continue
      <3>2. CASE kind[c] # 24
        BY <2>2, <3>2 DEF Continue
      <3> QED BY <3>1, <3>2
    <2>3. CASE \/ Open(c) \/ Die(c) \/ Get(c) \/ Other(c) \/ ChangeDeny(c)
               \/ ReleaseDeny(c) \/ ReleaseUnknown(c)
      BY <2>3 DEF Open, Die, Get, Other, ChangeDeny, ReleaseDeny, ReleaseUnknown
    <2> QED BY <2>1, <2>2, <2>3 DEF Client
  <1> QED BY <1>1, <1>2, ServerUnchanged

(* A request that fails disturbs the turn it comes in.                     *)
LEMMA GetFailSteps ==
    ASSUME IInv, NEW c \in Clients, GetRefuse(c) \/ GetFail(c)
    PROVE  IInv'
  <1> USE ShmAssumption DEF IInv, given, GetRefuse, GetFail, Error, Receive
  <1>1. /\ UNCHANGED <<given, range, scoid, mapped, crashed, strayed>> /\ ~crashed
        /\ size' = want[c] /\ ptr' \in {ptr, NoClient, c}
        /\ client' = [client EXCEPT ![c] = "dead"] /\ gone' = gone \cup {c}
    OBVIOUS
  <1>2. \/ scoid = NoClient /\ disturbed' = disturbed
        \/ scoid \in Clients /\ disturbed' = disturbed \cup {scoid}
    BY DEF Disturb, TypeOK
  <1>3. TypeOK'
    BY <1>1, <1>2 DEF TypeOK, Waiting
  <1>4. RegionValid' /\ LeakFree' /\ CrashExplained'
    BY <1>1, <1>2 DEF RegionValid, LeakFree, CrashExplained
  <1> QED BY <1>3, <1>4

(* A request that succeeds starts its client's turn.                       *)
LEMMA GetDoneStep == ASSUME IInv, NEW c \in Clients, GetDone(c) PROVE IInv'
  <1> USE ShmAssumption DEF IInv, given, GetDone, Reply, Receive
  <1>1. \/ scoid = NoClient /\ disturbed' = disturbed
        \/ scoid \in Clients /\ disturbed' = disturbed \cup {scoid}
    BY DEF Disturb, TypeOK
  <1>2. Pages(want[c]) \in SUBSET Nat
    BY DEF Pages, TypeOK
  <1>3. TypeOK'
    <2>1. client' \in [Clients -> Waiting \cup {"off", "opened", "mapped", "changed", "dead"}]
      BY DEF TypeOK
    <2>2. size' \in Sizes /\ disturbed' \in SUBSET Clients
      BY <1>1 DEF TypeOK
    <2>3. mapped' \in [Clients -> SUBSET Nat]
      BY <1>2 DEF TypeOK
    <2> QED BY <2>1, <2>2, <2>3 DEF TypeOK
  <1>4. RegionValid'
    BY DEF RegionValid, TypeOK
  <1>5. LeakFree'
    <2>1. \A d \in Clients : d # c => mapped'[d] = mapped[d]
      BY DEF TypeOK
    <2> QED BY <1>1, <2>1 DEF LeakFree
  <1>6. CrashExplained'
    BY DEF CrashExplained
  <1> QED BY <1>3, <1>4, <1>5, <1>6

(* The server serves its client.                                           *)
LEMMA ServeStep == ASSUME IInv, NEW c \in Clients, ChangeServe(c) PROVE IInv'
  <1> USE ShmAssumption DEF IInv, given, ChangeServe, Receive
  <1>1. /\ UNCHANGED <<given, range, scoid, size, ptr, mapped, disturbed>>
        /\ scoid = c /\ ~crashed
    OBVIOUS
  <1>2. strayed' \in BOOLEAN
    OBVIOUS
  <1>3. \/ /\ ptr = NoClient \/ 1 \notin mapped[ptr]
           /\ crashed' = TRUE /\ UNCHANGED <<client, gone>>
        \/ crashed' = crashed /\ client' = [client EXCEPT ![c] = "changed"] /\ gone' = gone
    BY DEF Reply
  <1>4. TypeOK'
    <2>1. crashed' \in BOOLEAN
      BY <1>3 DEF TypeOK
    <2>2. /\ client' \in [Clients -> Waiting \cup {"off", "opened", "mapped", "changed", "dead"}]
          /\ gone' = gone
      BY <1>3 DEF TypeOK
    <2> QED BY <1>1, <1>2, <2>1, <2>2 DEF TypeOK
  <1>5. RegionValid' /\ LeakFree'
    BY <1>1 DEF RegionValid, LeakFree
  <1>6. CrashExplained'
    <2>1. CASE crashed' = crashed
      BY <1>1, <2>1 DEF CrashExplained
    <2>2. CASE (ptr = NoClient \/ 1 \notin mapped[ptr]) /\ scoid \notin disturbed
      <3>1. size \in Nat /\ 1 \notin Pages(size)
        BY <1>1, <2>2 DEF RegionValid, TypeOK
      <3> QED BY <1>1, <3>1 DEF CrashExplained, Pages
    <2> QED BY <1>1, <1>3, <2>1, <2>2 DEF CrashExplained
  <1> QED BY <1>4, <1>5, <1>6

(* The turn of a client ends, by its release or its death.                 *)
LEMMA UnmapEffect ==
    ASSUME IInv, scoid \in Clients, Unmap
    PROVE  /\ mapped' \in [Clients -> SUBSET Nat] /\ strayed' \in BOOLEAN
           /\ \A d \in Clients : mapped'[d] \subseteq mapped[d]
           /\ scoid \notin disturbed => mapped'[scoid] = {}
           /\ scoid \notin disturbed => strayed' = strayed
  <1> USE ShmAssumption DEF IInv, Unmap
  <1>1. strayed' \in BOOLEAN
    OBVIOUS
  <1>2. CASE ptr = NoClient
    <2>1. mapped' = mapped
      BY <1>2
    <2>2. scoid \in disturbed
      BY <1>2 DEF RegionValid
    <2> QED BY <1>1, <2>1, <2>2 DEF TypeOK
  <1>3. CASE ptr # NoClient
    <2>1. ptr \in Clients /\ mapped' = [mapped EXCEPT ![ptr] = mapped[ptr] \ Pages(size)]
      BY <1>3 DEF TypeOK
    <2>2. mapped' \in [Clients -> SUBSET Nat]
      BY <2>1 DEF TypeOK
    <2>3. \A d \in Clients : mapped'[d] \subseteq mapped[d]
      BY <2>1 DEF TypeOK
    <2>4. ASSUME scoid \notin disturbed PROVE mapped'[scoid] = {} /\ strayed' = strayed
      <3>1. ptr = scoid /\ mapped[ptr] = Pages(size)
        BY <2>4 DEF RegionValid
      <3>2. mapped'[scoid] = {}
        BY <2>1, <3>1 DEF TypeOK
      <3>3. strayed' = strayed
        BY <1>3, <3>1 DEF TypeOK
      <3> QED BY <3>2, <3>3
    <2> QED BY <1>1, <2>2, <2>3, <2>4
  <1> QED BY <1>2, <1>3

LEMMA TurnEndStep ==
    ASSUME IInv, NEW c \in Clients, scoid = c, Unmap, scoid' = NoClient, ~crashed,
           client' \in {client, [client EXCEPT ![c] = "dead"]}, gone' \in SUBSET Clients,
           UNCHANGED <<given, range, size, ptr, crashed, disturbed>>
    PROVE  IInv'
  <1>1. /\ mapped' \in [Clients -> SUBSET Nat] /\ strayed' \in BOOLEAN
        /\ \A d \in Clients : mapped'[d] \subseteq mapped[d]
        /\ c \notin disturbed => mapped'[c] = {}
    BY UnmapEffect
  <1> USE ShmAssumption DEF IInv, given
  <1>2. TypeOK'
    BY <1>1 DEF TypeOK, Waiting
  <1>3. RegionValid' /\ CrashExplained'
    BY DEF RegionValid, CrashExplained
  <1>4. LeakFree'
    BY <1>1 DEF LeakFree
  <1> QED BY <1>2, <1>3, <1>4

LEMMA TurnSteps ==
    ASSUME IInv, NEW c \in Clients, Release(c) \/ Disconnect(c) PROVE IInv'
  <1>1. CASE Release(c)
    <2>1. gone' \in SUBSET Clients
      BY <1>1 DEF Release, Error, IInv, TypeOK
    <2> QED BY <1>1, <2>1, TurnEndStep DEF Release, Receive, Error
  <1>2. CASE Disconnect(c)
    <2>1. gone' \in SUBSET Clients
      BY <1>2 DEF Disconnect, IInv, TypeOK
    <2>2. CASE scoid = c
      BY <1>2, <2>1, <2>2, TurnEndStep DEF Disconnect
    <2>3. CASE scoid # c
      <3>1. UNCHANGED <<given, server>> /\ UNCHANGED <<client, range>>
        BY <1>2, <2>3 DEF Disconnect, server
      <3>2. TypeOK'
        BY <2>1, <3>1 DEF IInv, TypeOK, given, server
      <3> QED BY <3>1, <3>2, ServerUnchanged
    <2> QED BY <2>2, <2>3
  <1> QED BY <1>1, <1>2

LEMMA NextIInv == IInv /\ [Next]_vars => IInv'
  <1>1. IInv /\ UNCHANGED vars => IInv'
    BY DEF vars, given, server, IInv, TypeOK, RegionValid, LeakFree, CrashExplained
  <1> QED BY <1>1, ClientSteps, GetFailSteps, GetDoneStep, ServeStep, TurnSteps
          DEF Next, Server

LEMMA Invariance == Spec => []IInv
  BY InitIInv, NextIInv, PTL DEF Spec

-----------------------------------------------------------------------------
(* Every variable keeps its type.                                          *)
THEOREM TypeCorrect == Spec => []TypeOK
  <1>1. IInv => TypeOK
    BY DEF IInv
  <1> QED BY <1>1, Invariance, PTL

(* An undisturbed turn has its own region, whatever came before it.        *)
THEOREM RegionCorrect == Spec => []RegionValid
  <1>1. IInv => RegionValid
    BY DEF IInv
  <1> QED BY <1>1, Invariance, PTL

(* Only regions of disturbed turns can leak.                               *)
THEOREM NoOtherLeak == Spec => []LeakFree
  <1>1. IInv => LeakFree
    BY DEF IInv
  <1> QED BY <1>1, Invariance, PTL

(* The server dies only in a disturbed turn or over a region of one page.  *)
THEOREM NoOtherCrash == Spec => []CrashExplained
  <1>1. IInv => CrashExplained
    BY DEF IInv
  <1> QED BY <1>1, Invariance, PTL

(* The server reads or unmaps other memory in disturbed turns only.        *)
THEOREM NoOtherStray == Spec => StraysDisturbedOnly
  <1>1. IInv /\ [Next]_vars => [strayed' /\ ~strayed => scoid \in disturbed]_vars
    <2> SUFFICES ASSUME IInv, [Next]_vars, strayed', ~strayed PROVE scoid \in disturbed
      OBVIOUS
    <2>1. PICK c \in Clients :
            \/ ChangeServe(c) \/ Release(c)
            \/ Disconnect(c) /\ scoid = c
      <3>1. strayed' # strayed
        OBVIOUS
      <3>2. ~UNCHANGED server
        BY <3>1 DEF server
      <3>3. Server
        BY <3>2 DEF Next, vars, Client, Open, Get, Change, Continue, Die
      <3>4. PICK c \in Clients :
              \/ Other(c) \/ GetRefuse(c) \/ GetFail(c) \/ GetDone(c) \/ ChangeDeny(c)
              \/ ChangeServe(c) \/ Release(c) \/ ReleaseDeny(c) \/ ReleaseUnknown(c)
              \/ Disconnect(c)
        BY <3>3 DEF Server
      <3>5. ~(\/ Other(c) \/ GetRefuse(c) \/ GetFail(c) \/ GetDone(c) \/ ChangeDeny(c)
              \/ ReleaseDeny(c) \/ ReleaseUnknown(c))
        BY <3>1 DEF server, Other, GetRefuse, GetFail, GetDone, ChangeDeny, ReleaseDeny,
                    ReleaseUnknown
      <3>6. Disconnect(c) => scoid = c
        BY <3>1 DEF Disconnect
      <3>7. ChangeServe(c) \/ Release(c) \/ (Disconnect(c) /\ scoid = c)
        BY <3>4, <3>5, <3>6
      <3> QED BY <3>7
    <2>2. scoid = c /\ scoid \in Clients
      BY <2>1 DEF ChangeServe, Release
    <2>3. CASE ChangeServe(c)
      <3> SUFFICES ASSUME scoid \notin disturbed PROVE FALSE
        OBVIOUS
      <3>1. /\ ptr = c /\ mapped[ptr] = Pages(size) /\ ptr # NoClient
            /\ size \in Nat /\ range[c] \in Nat \X Nat
        BY <2>2, ShmAssumption DEF IInv, RegionValid, TypeOK
      <3>2. PICK p \in range[c][1] .. range[c][1] + range[c][2] - 1 : p \notin mapped[ptr]
        BY <2>3, <3>1 DEF ChangeServe
      <3>3. range[c][1] \in Nat /\ range[c][2] \in Nat /\ range[c][1] + range[c][2] <= size
        BY <2>3, <3>1 DEF ChangeServe, Within
      <3> QED BY <3>1, <3>2, <3>3 DEF Pages
    <2>4. CASE Release(c) \/ Disconnect(c)
      <3>1. Unmap
        BY <2>1, <2>2, <2>4 DEF Release, Disconnect
      <3> QED BY <2>2, <3>1, UnmapEffect
    <2> QED BY <2>1, <2>3, <2>4
  <1> QED BY <1>1, Invariance, PTL DEF Spec, StraysDisturbedOnly

-----------------------------------------------------------------------------
(***************************************************************************)
(* Lab 23: any number of producers and consumers, of retries, versions and *)
(* kills                                                                   *)
(***************************************************************************)

Steps == {"truncate", "mutex_init", "cond_init", "init_flag"}
Places ==
    Steps \cup InLoop \cup Ended \cup
    {"create", "data", "text", "unlock", "broadcast", "open", "map", "flag"}

PosixTypeOK ==
    /\ name \in Producers \cup {None}
    /\ ready \in [Producers -> SUBSET Steps]
    /\ owner \in [Producers -> Processes \cup {None}]
    /\ waiting \in SUBSET Consumers
    /\ data \in [Producers -> Nat]
    /\ text \in [Producers -> Nat]
    /\ pc \in [Processes -> Places]
    /\ uses \in [Consumers -> Producers \cup {None}]
    /\ last \in [Consumers -> Nat]
    /\ shown \in [Consumers -> Nat]

(* init_flag comes after both initialisations, and whoever is past the     *)
(* test of it has an object in which it is set.                            *)
ReadyInv ==
    /\ \A p \in Producers :
         /\ pc[p] = "cond_init" => "mutex_init" \in ready[p]
         /\ pc[p] = "init_flag" \/ "init_flag" \in ready[p] =>
              {"mutex_init", "cond_init"} \subseteq ready[p]
    /\ \A c \in Consumers :
         /\ pc[c] \in {"map", "flag"} \cup InLoop => uses[c] \in Producers
         /\ pc[c] \in InLoop => "init_flag" \in ready[uses[c]]

(* Between lock and unlock a process owns the mutex of its object, also if *)
(* it is killed there.                                                     *)
OwnerInv ==
    /\ \A p \in Producers : pc[p] \in {"data", "text", "unlock"} => owner[p] = p
    /\ \A c \in Consumers :
         pc[c] \in {"test", "take", "copy", "leave"} => owner[uses[c]] = c

(* Only while the producer owns the mutex the text can be of an earlier    *)
(* version than data; nothing else makes a consumer's copy differ.         *)
TextInv ==
    /\ \A p \in Producers :
         owner[p] # p \/ pc[p] \in {"data", "unlock"} => text[p] = data[p]
    /\ \A c \in Consumers :
         IF pc[c] = "copy" THEN last[c] = data[uses[c]] ELSE shown[c] = last[c]

PosixInv == PosixTypeOK /\ ReadyInv /\ OwnerInv /\ TextInv

LEMMA InitPosixInv == PosixInit => PosixInv
  <1> SUFFICES ASSUME PosixInit PROVE PosixInv
    OBVIOUS
  <1> USE PosixAssumption DEF PosixInit
  <1>1. PosixTypeOK
    <2>1. pc \in [Processes -> Places]
      BY DEF Places, Processes
    <2>2. ready \in [Producers -> SUBSET Steps] /\ owner \in [Producers -> Processes \cup {None}]
      OBVIOUS
    <2> QED BY <2>1, <2>2 DEF PosixTypeOK
  <1>2. /\ \A p \in Producers : pc[p] = "create"
        /\ \A c \in Consumers : pc[c] = "open"
    BY DEF Processes
  <1>3. ReadyInv /\ OwnerInv /\ TextInv
    BY <1>2 DEF ReadyInv, OwnerInv, TextInv, InLoop
  <1> QED BY <1>1, <1>3 DEF PosixInv

(* A producer prepares its object, or fails to.                            *)
LEMMA PrepareSteps ==
    ASSUME PosixInv, NEW p \in Producers, Create(p) \/ Prepare(p) \/ Fail(p)
    PROVE  PosixInv'
  <1> USE PosixAssumption
  <1>0. p \in Processes /\ p \notin Consumers
    BY DEF Processes
  <1>1. PICK to \in Places :
          /\ pc' = [pc EXCEPT ![p] = to]
          /\ to \notin {"data", "text", "unlock"}
          /\ to = "cond_init" => "mutex_init" \in ready'[p]
          /\ to = "init_flag" \/ "init_flag" \in ready'[p] =>
               {"mutex_init", "cond_init"} \subseteq ready'[p]
    <2> USE DEF PosixInv
    <2>0. {"truncate", "mutex_init", "cond_init", "init_flag", "lock", "failed"} \subseteq Places
      BY DEF Places, Steps, Ended, InLoop
    <2>1. CASE Create(p)
      <3>1. (IF name = None THEN "truncate" ELSE "failed") \in {"truncate", "failed"}
        OBVIOUS
      <3> QED BY <2>0, <2>1, <3>1 DEF Create, Goto, object, ReadyInv
    <2>2. CASE Prepare(p)
      BY <2>0, <2>2 DEF Prepare, Does, Goto, ReadyInv, PosixTypeOK
    <2>3. CASE Fail(p)
      <3>1. pc' = [pc EXCEPT ![p] = "failed"] /\ ready' = ready
        BY <2>3 DEF Fail, object
      <3>2. "init_flag" \in ready[p] => {"mutex_init", "cond_init"} \subseteq ready[p]
        BY DEF ReadyInv
      <3> HIDE DEF PosixInv
      <3> QED BY <2>0, <3>1, <3>2
    <2> QED BY <2>1, <2>2, <2>3
  <1>2. /\ name' \in Producers \cup {None}
        /\ UNCHANGED <<owner, data, text, waiting, consumer>>
        /\ \E step \in Steps : ready' \in {ready, [ready EXCEPT ![p] = @ \cup {step}]}
    BY DEF PosixInv, PosixTypeOK, Create, Prepare, Does, Fail, object, Steps
  <1>3. PosixTypeOK'
    <2>1. pc' \in [Processes -> Places]
      BY <1>1 DEF PosixInv, PosixTypeOK
    <2>2. ready' \in [Producers -> SUBSET Steps]
      BY <1>2 DEF PosixInv, PosixTypeOK
    <2> QED BY <1>2, <2>1, <2>2 DEF PosixInv, PosixTypeOK, consumer
  <1>4. /\ \A q \in Producers : ready[q] \subseteq ready'[q]
        /\ \A q \in Producers \ {p} : ready'[q] = ready[q]
    BY <1>2 DEF PosixInv, PosixTypeOK
  <1>5. \A x \in Processes \ {p} : pc'[x] = pc[x]
    BY <1>1 DEF PosixInv, PosixTypeOK
  <1>6. ReadyInv'
    BY <1>0, <1>1, <1>2, <1>4, <1>5
       DEF PosixInv, PosixTypeOK, ReadyInv, Processes, consumer
  <1>7. OwnerInv' /\ TextInv'
    <2>1. pc'[p] \notin {"data", "text", "unlock"}
      BY <1>0, <1>1 DEF PosixInv, PosixTypeOK
    <2> QED BY <1>0, <1>2, <1>5, <2>1
            DEF PosixInv, OwnerInv, TextInv, Processes, consumer
  <1> QED BY <1>3, <1>6, <1>7 DEF PosixInv

(* A producer publishes a version.                                         *)
LEMMA PublishSteps ==
    ASSUME PosixInv, NEW p \in Producers, Publish(p)
    PROVE  PosixInv'
  <1> USE PosixAssumption
  <1>0. p \in Processes /\ p \notin Consumers /\ p # None
    BY DEF Processes
  <1>1. /\ UNCHANGED <<name, ready, consumer>>
        /\ \E to \in {"data", "text", "unlock", "broadcast", "lock"} :
             pc' = [pc EXCEPT ![p] = to]
        /\ pc[p] # "init_flag"
    BY DEF Publish, Begin, Count, WriteText, End, Broadcast, Goto, object
  <1>2. \A x \in Processes \ {p} : pc'[x] = pc[x]
    BY <1>1 DEF PosixInv, PosixTypeOK
  <1>3. pc'[p] \in {"data", "text", "unlock", "broadcast", "lock"}
    BY <1>0, <1>1 DEF PosixInv, PosixTypeOK
  <1>4. PosixTypeOK'
    <2>1. pc' \in [Processes -> Places]
      BY <1>1 DEF PosixInv, PosixTypeOK, Places, InLoop
    <2>2. owner' \in [Producers -> Processes \cup {None}]
      BY <1>0 DEF PosixInv, PosixTypeOK, Publish, Begin, Count, WriteText, End,
                  Broadcast, Lock, Unlock, object
    <2>3. /\ data' \in [Producers -> Nat] /\ text' \in [Producers -> Nat]
          /\ waiting' \in SUBSET Consumers
      BY DEF PosixInv, PosixTypeOK, Publish, Begin, Count, WriteText, End, Broadcast, object
    <2> QED BY <1>1, <2>1, <2>2, <2>3 DEF PosixInv, PosixTypeOK, consumer
  <1>5. ReadyInv'
    BY <1>0, <1>1, <1>2, <1>3 DEF PosixInv, ReadyInv, Processes, consumer
  <1>6. OwnerInv' /\ TextInv'
    <2> USE DEF PosixInv, PosixTypeOK
    <2>1. /\ \A q \in Producers \ {p} :
               owner'[q] = owner[q] /\ data'[q] = data[q] /\ text'[q] = text[q]
          /\ owner[p] \in {None, p} \/ UNCHANGED <<owner, data, text>>
          /\ owner'[p] \in {None, p} \/ UNCHANGED <<owner, data, text>>
          /\ pc'[p] \in {"data", "text", "unlock"} => owner'[p] = p
          /\ owner'[p] # p \/ pc'[p] \in {"data", "unlock"} => text'[p] = data'[p]
      <3>1. CASE Begin(p)
        BY <1>0, <3>1 DEF Begin, Lock, Goto, TextInv
      <3>2. CASE Count(p)
        BY <1>0, <3>2 DEF Count, Goto, OwnerInv, TextInv
      <3>3. CASE WriteText(p)
        BY <1>0, <3>3 DEF WriteText, Goto, OwnerInv, TextInv
      <3>4. CASE End(p)
        BY <1>0, <3>4 DEF End, Unlock, Goto, TextInv
      <3>5. CASE Broadcast(p)
        BY <1>0, <3>5 DEF Broadcast, Goto, TextInv, object
      <3> QED BY <3>1, <3>2, <3>3, <3>4, <3>5 DEF Publish
    <2>2. OwnerInv'
      <3>1. ASSUME NEW c \in Consumers, pc[c] \in {"test", "take", "copy", "leave"}
            PROVE  owner'[uses[c]] = c
        BY <1>0, <2>1, <3>1 DEF OwnerInv, ReadyInv, InLoop
      <3> QED BY <1>0, <1>1, <1>2, <2>1, <3>1 DEF OwnerInv, Processes, consumer
    <2>3. TextInv'
      <3>1. ASSUME NEW c \in Consumers, pc[c] = "copy"
            PROVE  data'[uses[c]] = data[uses[c]]
        BY <1>0, <2>1, <3>1 DEF OwnerInv, ReadyInv, InLoop
      <3> QED BY <1>0, <1>1, <1>2, <2>1, <3>1 DEF TextInv, Processes, consumer
    <2> QED BY <2>2, <2>3
  <1> QED BY <1>4, <1>5, <1>6 DEF PosixInv

(* A consumer looks for the object, or sleeps.                             *)
LEMMA AttachSteps ==
    ASSUME PosixInv, NEW c \in Consumers, Attach(c) \/ Spurious(c)
    PROVE  PosixInv'
  <1> USE PosixAssumption DEF PosixInv, PosixTypeOK
  <1>0. c \in Processes /\ c \notin Producers
    BY DEF Processes
  <1>1. CASE Spurious(c)
    BY <1>1 DEF Spurious, object, consumer, ReadyInv, OwnerInv, TextInv
  <1>2. CASE Attach(c)
    <2>1. /\ UNCHANGED <<name, object, waiting, last, shown>>
          /\ pc[c] \in {"open", "map", "flag"}
          /\ \E to \in {"open", "map", "flag", "lock", "gaveUp"} :
               pc' = [pc EXCEPT ![c] = to]
      BY <1>2 DEF Attach, Retry, Succeed, Goto
    <2>2. /\ uses' \in [Consumers -> Producers \cup {None}]
          /\ \A d \in Consumers \ {c} : uses'[d] = uses[d]
          /\ pc'[c] \in {"map", "flag", "lock"} => uses'[c] \in Producers
          /\ pc'[c] = "lock" => "init_flag" \in ready[uses'[c]]
      <3>1. ASSUME NEW step \in {"open", "map", "flag"}, pc[c] = step, Retry(c, step)
            PROVE  uses' = uses /\ pc'[c] \in {pc[c], "gaveUp"}
        BY <1>0, <3>1 DEF Retry, Goto
      <3>2. CASE pc[c] = "open" /\ Succeed(c, "open", "map")
        BY <1>0, <3>2 DEF Succeed, Possible, Goto
      <3>3. CASE pc[c] = "map" /\ Succeed(c, "map", "flag")
        BY <1>0, <3>3 DEF Succeed, Possible, Goto, ReadyInv
      <3>4. CASE pc[c] = "flag" /\ Succeed(c, "flag", "lock")
        BY <1>0, <3>4 DEF Succeed, Possible, Goto, ReadyInv
      <3>5. CASE \E step \in {"open", "map", "flag"} : pc[c] = step /\ Retry(c, step)
        BY <3>1, <3>5 DEF ReadyInv
      <3> QED BY <1>2, <3>2, <3>3, <3>4, <3>5 DEF Attach
    <2>3. /\ \A x \in Processes \ {c} : pc'[x] = pc[x]
          /\ pc'[c] \in {"open", "map", "flag", "lock", "gaveUp"}
      BY <1>0, <2>1
    <2>4. PosixTypeOK'
      <3>1. PICK to \in Places : pc' = [pc EXCEPT ![c] = to]
        <4>1. {"open", "map", "flag", "lock", "gaveUp"} \subseteq Places
          BY DEF Places, InLoop, Ended
        <4> QED BY <2>1, <4>1
      <3>2. pc' \in [Processes -> Places]
        BY <3>1
      <3> QED BY <2>1, <2>2, <3>2 DEF object
    <2>5. ReadyInv'
      BY <1>0, <2>1, <2>2, <2>3 DEF ReadyInv, Processes, object, InLoop
    <2>6. OwnerInv' /\ TextInv'
      BY <1>0, <2>1, <2>2, <2>3 DEF OwnerInv, TextInv, Processes, object
    <2> QED BY <2>4, <2>5, <2>6
  <1> QED BY <1>1, <1>2

(* A consumer in its loop.                                                 *)
LEMMA ConsumeSteps ==
    ASSUME PosixInv, NEW c \in Consumers, Enter(c) \/ Consume(c)
    PROVE  PosixInv'
  <1> USE PosixAssumption DEF PosixInv, PosixTypeOK
  <1>0. c \in Processes /\ c \notin Producers /\ c # None
    BY DEF Processes
  <1>1. /\ UNCHANGED <<name, ready, data, text, uses>>
        /\ pc[c] \in InLoop /\ uses[c] \in Producers
        /\ \E to \in InLoop : pc' = [pc EXCEPT ![c] = to]
    BY DEF Enter, Consume, Test, Take, Copy, Leave, Goto, InLoop, object, consumer, ReadyInv
  <1>2. /\ \A x \in Processes \ {c} : pc'[x] = pc[x]
        /\ pc'[c] \in InLoop
    BY <1>0, <1>1
  <1>3. /\ owner' \in [Producers -> Processes \cup {None}]
        /\ \A p \in Producers \ {uses[c]} : owner'[p] = owner[p]
        /\ owner'[uses[c]] # owner[uses[c]] =>
             owner[uses[c]] \in {None, c} /\ owner'[uses[c]] \in {None, c}
        /\ pc'[c] \in {"test", "take", "copy", "leave"} => owner'[uses[c]] = c
    <2>1. CASE Enter(c)
      BY <1>0, <1>1, <2>1 DEF Enter, Lock, Goto, OwnerInv
    <2>2. CASE Test(c)
      BY <1>0, <1>1, <2>2 DEF Test, Unlock, Goto, OwnerInv
    <2>3. CASE Take(c) \/ Copy(c)
      BY <1>0, <1>1, <2>3 DEF Take, Copy, Goto, OwnerInv, object
    <2>4. CASE Leave(c)
      BY <1>0, <1>1, <2>4 DEF Leave, Unlock, Goto, OwnerInv
    <2> QED BY <2>1, <2>2, <2>3, <2>4 DEF Consume
  <1>4. /\ last' \in [Consumers -> Nat] /\ shown' \in [Consumers -> Nat]
        /\ waiting' \in SUBSET Consumers
        /\ \A d \in Consumers \ {c} : last'[d] = last[d] /\ shown'[d] = shown[d]
        /\ IF pc'[c] = "copy" THEN last'[c] = data[uses[c]] ELSE shown'[c] = last'[c]
    <2>1. CASE Enter(c) \/ Test(c) \/ Leave(c)
      BY <1>0, <2>1 DEF Enter, Test, Leave, Goto, TextInv, consumer
    <2>2. CASE Take(c)
      BY <1>0, <1>1, <2>2 DEF Take, Goto, TextInv, object
    <2>3. CASE Copy(c)
      <3>1. text[uses[c]] = data[uses[c]]
        BY <1>0, <1>1, <2>3 DEF Copy, Goto, OwnerInv, TextInv
      <3> QED BY <1>0, <1>1, <2>3, <3>1 DEF Copy, Goto, TextInv, object
    <2> QED BY <2>1, <2>2, <2>3 DEF Consume
  <1>5. PosixTypeOK'
    <2>1. pc' \in [Processes -> Places]
      <3>1. InLoop \subseteq Places
        BY DEF Places
      <3> QED BY <1>1, <3>1
    <2> QED BY <1>1, <1>3, <1>4, <2>1
  <1>6. ReadyInv'
    BY <1>0, <1>1, <1>2 DEF ReadyInv, Processes, InLoop
  <1>7. OwnerInv' /\ TextInv'
    <2>1. \A p \in Producers : p # c
      BY <1>0
    <2>2. OwnerInv'
      <3>1. ASSUME NEW p \in Producers, pc'[p] \in {"data", "text", "unlock"}
            PROVE  owner'[p] = p
        BY <1>0, <1>2, <1>3, <2>1, <3>1 DEF OwnerInv, Processes
      <3>2. ASSUME NEW d \in Consumers, d # c, pc[d] \in {"test", "take", "copy", "leave"}
            PROVE  owner'[uses[d]] = d
        BY <1>3, <3>2 DEF OwnerInv, ReadyInv, InLoop
      <3> QED BY <1>1, <1>2, <1>3, <3>1, <3>2 DEF OwnerInv, Processes
    <2>3. TextInv'
      <3>1. \A p \in Producers : owner'[p] # p => owner[p] # p
        BY <1>3, <2>1
      <3> QED BY <1>0, <1>1, <1>2, <1>4, <2>1, <3>1 DEF TextInv, Processes
    <2> QED BY <2>2, <2>3
  <1> QED BY <1>5, <1>6, <1>7

(* A process is killed.                                                    *)
LEMMA KillSteps == ASSUME PosixInv, NEW x \in Processes, Kill(x) PROVE PosixInv'
  <1> USE PosixAssumption DEF PosixInv, PosixTypeOK, Kill, object
  <1>1. \A y \in Processes : pc'[y] = IF y = x THEN "killed" ELSE pc[y]
    OBVIOUS
  <1>2. /\ \A c \in Consumers : c # x => last'[c] = last[c] /\ shown'[c] = shown[c]
        /\ x \in Consumers => last'[x] = shown'[x]
        /\ last' \in [Consumers -> Nat] /\ shown' \in [Consumers -> Nat]
    OBVIOUS
  <1>3. PosixTypeOK'
    BY <1>2 DEF Places, Ended
  <1>4. ReadyInv' /\ OwnerInv'
    BY <1>1 DEF ReadyInv, OwnerInv, Processes, InLoop
  <1>5. TextInv'
    BY <1>1, <1>2 DEF TextInv, Processes
  <1> QED BY <1>3, <1>4, <1>5

LEMMA NextPosixInv == PosixInv /\ [PosixNext]_posixVars => PosixInv'
  <1>1. PosixInv /\ UNCHANGED posixVars => PosixInv'
    BY DEF posixVars, object, consumer, PosixInv, PosixTypeOK, ReadyInv, OwnerInv, TextInv
  <1> QED BY <1>1, PrepareSteps, PublishSteps, AttachSteps, ConsumeSteps, KillSteps
          DEF PosixNext

LEMMA PosixInvariance == PosixSpec => []PosixInv
  BY InitPosixInv, NextPosixInv, PTL DEF PosixSpec

(* No consumer uses a mutex or a condition variable before it exists.      *)
THEOREM InitialisedWhenUsed == PosixSpec => []UsedInitialised
  <1>1. PosixInv => UsedInitialised
    BY DEF PosixInv, ReadyInv, UsedInitialised, InLoop
  <1> QED BY <1>1, PosixInvariance, PTL

(* Every text a consumer prints is of its last version, whoever is killed  *)
(* and whichever producer's object it is.                                  *)
THEOREM VersionsWhole == PosixSpec => []WholeVersions
  <1>1. PosixInv => WholeVersions
    BY DEF PosixInv, TextInv, WholeVersions
  <1> QED BY <1>1, PosixInvariance, PTL
=============================================================================
