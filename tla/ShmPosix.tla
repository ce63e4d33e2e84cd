------------------------------ MODULE ShmPosix ------------------------------
(***************************************************************************)
(* Lab 23: a producer creates a named memory object, initialises a mutex   *)
(* and a condition variable in it, sets init_flag and then publishes one   *)
(* version after the other.  Consumers open the object by its name, map    *)
(* it, wait for init_flag, trying each of these a limited number of times, *)
(* and then show every version they find.  Nothing but being killed ends   *)
(* the loops, and a killed process leaves name and mutex as they are.  The *)
(* object a producer created is named by the producer; it lives on for the *)
(* consumers that have opened it when its name is unlinked.                *)
(***************************************************************************)
EXTENDS Integers, FiniteSets

CONSTANTS
    NumProducers,           \* producer processes, started one after another
    Consumers,              \* consumer processes
    None,                   \* no object, no owner
    Retries,                \* num_retries
    MaxVersion,             \* bounds the versions a producer publishes
    MaxKills                \* bounds the processes killed

Producers == 1 .. NumProducers

ASSUME PosixAssumption ==
    /\ NumProducers \in Nat
    /\ Producers \cap Consumers = {} /\ None \notin Producers \cup Consumers
    /\ Retries \in Nat
    /\ {MaxVersion, MaxKills} \subseteq Nat

VARIABLES
    name,       \* the object shm_object_name stands for
    ready,      \* per object, what has been done to it: a set of steps
    owner,      \* per object, the process that holds its mutex
    waiting,    \* consumers asleep in pthread_cond_wait
    data, text, \* per object, its version and the version its text is of
    pc,
    uses,       \* the object each consumer has opened
    tries,
    last,       \* last_version of each consumer
    shown       \* the version of each consumer's local_text

object == <<ready, owner, data, text>>
consumer == <<uses, tries, last, shown>>
posixVars == <<name, object, waiting, pc, consumer>>

Processes == Producers \cup Consumers

PosixInit ==
    /\ name = None
    /\ ready = [p \in Producers |-> {}]
    /\ owner = [p \in Producers |-> None]
    /\ waiting = {}
    /\ data = [p \in Producers |-> 0]
    /\ text = [p \in Producers |-> 0]
    /\ pc = [x \in Processes |-> IF x \in Producers THEN "create" ELSE "open"]
    /\ uses = [c \in Consumers |-> None]
    /\ tries = [c \in Consumers |-> 0]
    /\ last = [c \in Consumers |-> 0]
    /\ shown = [c \in Consumers |-> 0]

Goto(x, from, to) ==
    /\ pc[x] = from
    /\ pc' = [pc EXCEPT ![x] = to]

(* The mutex in object p, and the end of a wait on its condition variable. *)
Lock(p, x) == owner[p] = None /\ owner' = [owner EXCEPT ![p] = x]
Unlock(p, x) == owner[p] = x /\ owner' = [owner EXCEPT ![p] = None]

-----------------------------------------------------------------------------
(* The producer                                                            *)

(* O_CREAT | O_EXCL: fails when the name is taken.                         *)
Create(p) ==
    /\ \A q \in Producers : pc[q] = "create" => p <= q
    /\ Goto(p, "create", IF name = None THEN "truncate" ELSE "failed")
    /\ name' = IF name = None THEN p ELSE name
    /\ UNCHANGED <<object, waiting, consumer>>

(* What has to be done to the object before it is usable, in order.        *)
Does(p, step, then) ==
    /\ Goto(p, step, then)
    /\ ready' = [ready EXCEPT ![p] = @ \cup {step}]
    /\ UNCHANGED <<name, owner, data, text, waiting, consumer>>

PrepareFlagEarly(p) ==  \* mutant: init_flag before the condition variable
    \/ Does(p, "truncate", "mutex_init")
    \/ Does(p, "mutex_init", "init_flag")
    \/ Does(p, "init_flag", "cond_init")
    \/ Does(p, "cond_init", "lock")

Prepare(p) ==
    \/ Does(p, "truncate", "mutex_init")
    \/ Does(p, "mutex_init", "cond_init")
    \/ Does(p, "cond_init", "init_flag")
    \/ Does(p, "init_flag", "lock")

(* unlink_and_exit, when a call fails; a failing mmap of the producer's, of *)
(* which nothing can be seen from outside, counts as one of ftruncate.     *)
Fail(p) ==
    /\ pc[p] \in {"truncate", "mutex_init", "cond_init",
                  "lock", "unlock", "broadcast"}
    /\ pc' = [pc EXCEPT ![p] = "failed"]
    /\ name' = None
    /\ UNCHANGED <<object, waiting, consumer>>

BeginUnlocked(p) ==     \* mutant: does not wait for the mutex
    /\ data[p] < MaxVersion
    /\ Goto(p, "lock", "data")
    /\ owner' = [owner EXCEPT ![p] = p]
    /\ UNCHANGED <<name, ready, data, text, waiting, consumer>>

Begin(p) ==
    /\ data[p] < MaxVersion
    /\ Goto(p, "lock", "data")
    /\ Lock(p, p)
    /\ UNCHANGED <<name, ready, data, text, waiting, consumer>>

Count(p) ==
    /\ Goto(p, "data", "text")
    /\ data' = [data EXCEPT ![p] = @ + 1]
    /\ UNCHANGED <<name, ready, owner, text, waiting, consumer>>

WriteText(p) ==
    /\ Goto(p, "text", "unlock")
    /\ text' = [text EXCEPT ![p] = data[p]]
    /\ UNCHANGED <<name, ready, owner, data, waiting, consumer>>

End(p) ==
    /\ Goto(p, "unlock", "broadcast")
    /\ Unlock(p, p)
    /\ UNCHANGED <<name, ready, data, text, waiting, consumer>>

BroadcastOne(p) ==      \* mutant: a signal where the code has a broadcast
    /\ Goto(p, "broadcast", "lock")
    /\ LET asleep == {c \in waiting : uses[c] = p}
       IN  IF asleep = {} THEN UNCHANGED waiting
           ELSE \E c \in asleep : waiting' = waiting \ {c}
    /\ UNCHANGED <<name, object, consumer>>

(* After the unlock; then the producer sleeps.                             *)
Broadcast(p) ==
    /\ Goto(p, "broadcast", "lock")
    /\ waiting' = {c \in waiting : uses[c] # p}
    /\ UNCHANGED <<name, object, consumer>>

Publish(p) == Begin(p) \/ Count(p) \/ WriteText(p) \/ End(p) \/ Broadcast(p)

-----------------------------------------------------------------------------
(* The consumer                                                            *)

(* What get_shared_memory_pointer tries in turn, and what lets it succeed. *)
Possible(c, step) ==
    CASE step = "open" -> name # None
      [] step = "map"  -> "truncate" \in ready[uses[c]]
      [] step = "flag" -> "init_flag" \in ready[uses[c]]

Retry(c, step) ==
    /\ ~Possible(c, step)
    /\ IF tries[c] < Retries
       THEN tries' = [tries EXCEPT ![c] = @ + 1] /\ Goto(c, step, step)
       ELSE UNCHANGED tries /\ Goto(c, step, "gaveUp")
    /\ UNCHANGED <<name, object, waiting, uses, last, shown>>

Succeed(c, step, then) ==
    /\ Possible(c, step)
    /\ Goto(c, step, then)
    /\ tries' = [tries EXCEPT ![c] = 0]
    /\ uses' = IF step = "open" THEN [uses EXCEPT ![c] = name] ELSE uses
    /\ UNCHANGED <<name, object, waiting, last, shown>>

Attach(c) ==
    \/ \E step \in {"open", "map", "flag"} : pc[c] = step /\ Retry(c, step)
    \/ pc[c] = "open" /\ Succeed(c, "open", "map")
    \/ pc[c] = "map" /\ Succeed(c, "map", "flag")
    \/ pc[c] = "flag" /\ Succeed(c, "flag", "lock")

(* From the top of the loop, or out of the wait.                           *)
Enter(c) ==
    /\ Goto(c, "lock", "test") \/ Goto(c, "wait", "test")
    /\ c \notin waiting
    /\ Lock(uses[c], c)
    /\ UNCHANGED <<name, ready, data, text, waiting, consumer>>

Test(c) ==
    /\ \/ /\ Goto(c, "test", "wait")
          /\ last[c] = data[uses[c]]
          /\ Unlock(uses[c], c)
          /\ waiting' = waiting \cup {c}
       \/ /\ Goto(c, "test", "take")
          /\ last[c] # data[uses[c]]
          /\ UNCHANGED <<owner, waiting>>
    /\ UNCHANGED <<name, ready, data, text, consumer>>

Spurious(c) ==
    /\ c \in waiting
    /\ waiting' = waiting \ {c}
    /\ UNCHANGED <<name, object, pc, consumer>>

Take(c) ==
    /\ Goto(c, "take", "copy")
    /\ last' = [last EXCEPT ![c] = data[uses[c]]]
    /\ UNCHANGED <<name, object, waiting, uses, tries, shown>>

(* The text is copied, and printed after the unlock.                       *)
Copy(c) ==
    /\ Goto(c, "copy", "leave")
    /\ shown' = [shown EXCEPT ![c] = text[uses[c]]]
    /\ UNCHANGED <<name, object, waiting, uses, tries, last>>

Leave(c) ==
    /\ Goto(c, "leave", "lock")
    /\ Unlock(uses[c], c)
    /\ UNCHANGED <<name, ready, data, text, waiting, consumer>>

Consume(c) == Test(c) \/ Take(c) \/ Copy(c) \/ Leave(c)

-----------------------------------------------------------------------------
Ended == {"failed", "gaveUp", "killed"}

(* Any process may be killed, also while it holds the mutex.               *)
Kill(x) ==
    /\ pc[x] \notin Ended
    /\ Cardinality({y \in Processes : pc[y] = "killed"}) < MaxKills
    /\ pc' = [pc EXCEPT ![x] = "killed"]
    /\ waiting' = waiting \ {x}
    /\ tries' = [c \in Consumers |-> IF c = x THEN 0 ELSE tries[c]]
    /\ last' = [c \in Consumers |-> IF c = x THEN 0 ELSE last[c]]
    /\ shown' = [c \in Consumers |-> IF c = x THEN 0 ELSE shown[c]]
    /\ UNCHANGED <<name, object, uses>>

PosixNext ==
    \/ \E p \in Producers : Create(p) \/ Prepare(p) \/ Fail(p) \/ Publish(p)
    \/ \E c \in Consumers : Attach(c) \/ Enter(c) \/ Consume(c) \/ Spurious(c)
    \/ \E x \in Processes : Kill(x)

(* Processes run; the mutex queues those that wait for it.                 *)
PosixFairness ==
    /\ \A p \in Producers :
         /\ WF_posixVars(Prepare(p)) /\ WF_posixVars(Count(p) \/ WriteText(p) \/ End(p) \/ Broadcast(p))
         /\ SF_posixVars(Begin(p))
    /\ \A c \in Consumers : WF_posixVars(Attach(c)) /\ WF_posixVars(Consume(c)) /\ SF_posixVars(Enter(c))

PosixSpec == PosixInit /\ [][PosixNext]_posixVars /\ PosixFairness

-----------------------------------------------------------------------------
(* Properties                                                              *)

InLoop == {"lock", "test", "wait", "take", "copy", "leave"}

(* A consumer locks the mutex and waits on the condition variable only of  *)
(* an object that is initialised as a whole, though it looks at init_flag  *)
(* without the mutex and even if the producer is gone by then.             *)
UsedInitialised ==
    \A c \in Consumers :
        pc[c] \in InLoop => {"mutex_init", "cond_init"} \subseteq ready[uses[c]]

(* What a consumer prints is the text of the version it counts as its last,*)
(* never one half written; it has it whoever was killed in between.        *)
WholeVersions ==
    \A c \in Consumers : pc[c] \in {"lock", "wait", "leave"} => shown[c] = last[c]

Disturbed(c) ==
    \E x \in Processes :
        /\ pc[x] \in {"failed", "killed"}
        /\ x \in {c, uses[c]} \/ (x \in Consumers /\ uses[x] = uses[c])

Behind(c) == pc[c] \in InLoop /\ last[c] # data[uses[c]]

(* A consumer that is behind the version published catches up, unless it   *)
(* or another process that uses the object fails or is killed.             *)
CatchesUp == \A c \in Consumers : Behind(c) ~> ~Behind(c) \/ Disturbed(c)
=============================================================================
