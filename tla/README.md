# A TLA+ verification of qnx-box

## 1. The system

qnx-box is one QNX program, `main`, that holds some forty small *labs*. `main.c` looks the first argument up in a table and
calls the lab's entry point; from then on the process is that lab. A lab keeps its state in file-static variables and locals
of one process; the labs that come as a server and a client are two processes that talk through a QNX channel, pulses or a
shared memory object. Nothing is persisted, so there is no crash recovery; what is hard is the interleaving of threads, the
order of signals, messages and pulses, and what happens at shutdown and when a step in the middle fails.

The sources are `src/src/*.c` and `src/src/include/*.h`; the Makefile builds them with `-g -Wall` and no optimisation, so
every access to a shared variable in the source is a load or a store of its own in the program.

### Inventory

| Part | State it keeps | Operations | What is hard | What makes it correct |
|---|---|---|---|---|
| `main.c`, `qnx_lab.h` | table of labs | find a lab by name, run it | - | the named lab runs, the process ends with its result |
| 01, 02, 03, 04 hello, fork, exec, spawn | a child pid | start a child, wait for it | child and parent order | a parent that waits leaves no child behind |
| 05 zombie | a child pid | let a child die unreaped | the child's and the parent's sleep race | the child is waited for |
| 06 pulse | a channel | death notifications as pulses | pulses queue | each death reported |
| 07, 08 thread, thread_term | threads | create, join, cancel, exit, kill | SIGKILL sent to one thread | the threads that are joined end, and so does the process |
| 09 assignment_1 | an array | threads fill disjoint parts | part boundaries | every cell once, by its own thread |
| 10 mutex, 14 atomic | a counter | load, store, atomic add | lost updates | the printed counter is exact |
| 11 assignment_2 | var1, var2, var3, done | increment both, compare | torn pair, stale done | the pair never differs under the mutex |
| 12 orange_problem | a buffer, how much of it is allocated | allocate a chunk, update it | check and take are separate steps | chunks are disjoint and inside the buffer |
| 13 condvar | ready | one handshake | signal before wait, spurious wakeup | main and the worker both end |
| 15 hw_handler_condvar | queue, data_ready, running | provide data, handle data, stop | lost wakeup, shutdown, a failed write or malloc | items are written once, in order |
| 16 produce_consume | state, product, running | produce, consume, stop | lost wakeup, shutdown | strict alternation while running |
| 17 state_machine | state, counter, running | four states, one thread each | broadcast, shutdown | the states follow the machine |
| 18, 19 message passing, assignment 3 | a channel | send a string or an operation, reply | clients killed, pulses taken for messages, one response structure for all | each client gets the answer to its own message |
| 20, 21 pulse, name_attach | a channel, a name | pulse or checksum requests | message of an unknown type | every sender of a known message is replied to, ended connections are detached |
| 22 events | one saved client, notify_count | save the client's event, notify it | disconnect against the notify thread | the saved client exists, values do not skip |
| 23 shm_posix | a named object, mutex and condvar in it | create, wait until initialised, publish versions | initialisation race | a consumer sees only whole versions |
| 24 shm_qnx, 27 orange_problem_2 | one client, its mapping, a handle | get memory, update, release, disconnect | failing in the middle of GET, takeover | the mapping belongs to the saved client |
| 25 interrupt | an interrupt id | wait, handle, unmask | failing calls that are not looked at | every interrupt unmasked once handled |
| 26, 28 timer, process_timer | a timer, a child pid | pulses per period, kill and fork | child never waited for, fork fails | one child runs unsignalled, the pid killed is its |
| 29 time | - | read clocks | - | - |
| 30 resource manager | a device | open, read, write, close | one reply per message | every client is replied to once |

### How the parts interact

Threads of one lab share its static variables under a mutex, and wait for each other on a condition variable (13, 15, 16, 17,
22, 23). A server and its client exchange synchronous messages: the client is blocked until the server replies or the server
dies; pulses carry the client's disconnect, an unblock, a timer's expiry or an event the server delivers (18 to 28). Two
processes of lab 23 share a memory object; in labs 24 and 27 the server allocates the object and gives the client a handle.

## 2. The modules

| Module | Models | Uses |
|---|---|---|
| `Mutex`, `Condvar` | the POSIX mutex and condition variable as the labs use them (external): lock, unlock, wait, relock, signal, broadcast, spurious wakeup | - |
| `Iterations` | the iterations done by threads that run bounded loops, as a set | - |
| `SharedCounter` | labs 10 and 14, with the variable `mode` for the argument | `Mutex`, `Iterations` |
| `OrangeProblem`, `MCOrangeProblem` | lab 12, with the variable `use_mutex`; symmetry of the threads | `Mutex`, `Iterations` |
| `OneSlot` | what lab 16 promises: two parties take turns, each acts once more at most after the close | - |
| `ProduceConsume` | lab 16 | `Condvar`, `OneSlot` |
| `StateCycle` | the state machine that lab 17's four threads carry out | - |
| `StateMachine` | lab 17 | `Condvar`, `StateCycle` |
| `HwHandler` | lab 15 | `Condvar` |
| `EventsServer` | lab 22: both threads of the server, the connections and pulses of the kernel, the clients | `Mutex` |
| `ShmServer` | labs 24 and 27, with the variables `lab` and `kind`: the server of one, and clients of either | - |
| `ShmPosix` | lab 23: producers and consumers around one name | - |
| `MessageServers` | labs 18 to 21, with the variables `lab` (the server) and `kind` (each client's lab): four servers, their clients, pulses, kills | - |
| `PulseChannel` | pulses that queue on a private channel (external) | - |
| `LabProcess` | the names of `qnx_labs[]`, the lab a process runs and how it ended | - |
| `PairOfVars`, `Handshake`, `ArrayParts` | labs 11, 13, 09 | `Mutex`, `Condvar` |
| `ThreadEnds` | labs 07, 08 | `LabProcess` |
| `ProcessLabs` | labs 02 to 06 and 28: the parent, the process table, the timer's and the death pulses | `LabProcess`, `PulseChannel` |
| `MaintenanceTimer`, `InterruptLab` | labs 26, 25 | `PulseChannel` |
| `ResourceManager` | lab 30: the dispatch loop, the paths of the io functions, the library's reply | - |
| `Labs` | `main`: chooses one lab of the eight modules above and ends with its result | all of them |
| `LoopProofs` | the theorems about the labs whose threads run bounded loops: `Iterations`, `SharedCounter`, `OrangeProblem` | those, `TLAPS` |
| `SharedMemoryProofs` | the theorems about the labs that share memory between processes: `ShmPosix`, `ShmServer` | those, `TLAPS` |
| `ProduceConsumeProofs`, `StateMachineProofs`, `HwHandlerProofs`, `EventsServerProofs`, `MessageServersProofs`, `LabsProofs` | the theorems about the module named | that module, `TLAPS` |

A thread's place in its function is its `pc`; an action goes from one access of shared state, or one call that can block, to
the next. What happens between two such points without touching shared state (formatting, printing, locals) is part of the
action before. An argument of the command line that chooses a mode is a variable that is set in `Init` and never changes, so
that one run covers every mode.

How the state corresponds to the code:

- **`SharedCounter`**: `counter` is lab 10's `counter` and lab 14's `at_value` or `value`; `local` and `stored` are the local
  copy and the loop variable of `thread_work`; `Load` and `Store` are apart because a `printf` stands between them. `FetchAdd`
  is the atomic add. `Create`, `Join` and `Report` are main's.
- **`OrangeProblem`**: `allocated` and `array` are the static variables, `chunk` is the pointer `buff_alloc` returns. The
  array has exactly a chunk for every round of every thread, so sizes are counted in chunks. The tests, the address, the load
  and the store of `allocated +=` are four steps; cells are updated by a load and a store.
- **`ProduceConsume`, `StateMachine`**: `state`, `running`, `counter` are the static variables. Test and wait are one step
  when what is tested is protected by the mutex, and two (`Test`, `Sleep`) where the test also reads `running`, which main
  writes without the mutex. `Notify` comes after the unlock in lab 16, as in the code.
- **`HwHandler`**: `queue` is the linked list, `nItems` and `ready` are `q_n_items` and `data_ready`. An item is the number of
  its addition. `added` and `written` are history. `DpAdd` may drop the item, as when `malloc` fails.
  `process` is how the process ends early: a failed `write` in `write_to_hardware` calls `exit` with the item in hand
  (`HwWriteFails`), and the unchecked `malloc` in `get_data_and_remove_from_queue` crashes it with the mutex locked
  (`HwTakeFails`). After either nothing runs (`Up`); neither ever has to happen.
- **`EventsServer`**: `saveRcvid`, `saveEvent`, `saveScoid` and `notifyCount` are the registration; `mpc` and `cur` are the
  main loop's place and its message. `conn` is the kernel's table of server connections: a scoid is given to another client
  once it is detached. `killed` holds clients killed while they wait for a reply, which is what the unblock pulse is about.
- **`ShmServer`**: `lab` is the server's lab and `kind` each client's: both labs attach to the name `shm_server` with the same
  message types, so they can meet. Lab 24's response to lab 27's client of one page kills the server (`ChangeServe`), and lab
  27's server does not know the release (`ReleaseUnknown`). `scoid`, `size`, `ptr` are `client_scoid`, `shm_memory_size`, `shm_ptr`; `mapped` is what the server has
  mapped, per mapping. `strayed` and `disturbed` are history: an access other than to the region, and the clients in whose
  turn another client asked. One action is one message or pulse handled, since the server has one thread.
- **`ShmPosix`**: `name` is the object `shm_object_name` stands for; `ready` is the set of initialisation steps done to an
  object; `data` and `text` are its fields, the text being represented by the version it was printed from.
- **`MessageServers`**: `command` and `req` are a client's buffer and request structure, kept from one command to the next;
  `printed` is history. `queue` holds what `MsgReceive` has not taken; `cur` is what the server handles, `rcvid` being its
  sender. `status` is the field in the response structure that all clients share. A killed client of lab 21 that waits for
  a reply is `dying`: its channel, made by `name_attach`, gets an unblock pulse; the others' clients die at once, and the
  reply to them then fails. `attached` are the kernel's server connections of lab 21.
- **`PairOfVars`**: `var` holds var1, var2 and the var3 of `do_work`; a `+=` is a load (into `reg`) and a store, since the
  variables are volatile. `Updates` is the sequence of changes one turn of the loop makes.
- **`ThreadEnds`**: `call` is the place in main's list of calls, `Calls`. **`ArrayParts`**: `index` is the loop variable of a
  thread, `loaded` the cell it is doubling.
- **`ProcessLabs`**: `child` is the part of the process table that is the parent's, `process_pid` the pid it keeps (-1 when
  fork has failed). A child is never numbered like an earlier one, as a pid is not used again before its process is waited for.
- **`InterruptLab`**: `masked` and `attached` are the kernel's; `stuck` says that an unmask failed, which the code ignores.
- **`ResourceManager`**: `message` is what the context holds, `replies` counts its replies, by the io function or by the
  library, `allocated` is `io_write`'s buffer. Every call in a path may fail where the code tests it.
- **`Labs`**: a process runs one lab, so the modules share one state space without interleaving with each other. `LabEnds` is
  the return to `main`, `CallFails` an `exit(EXIT_FAILURE)` at a call that makes a thread, a channel or a timer. Labs 10, 12,
  14 to 24 and 27 have runs of their own and are not among the names here.

## 3. The runs

| Run | Instance | States | What it shows |
|---|---|---|---|
| `counter` | 3 threads, 2 updates, all modes | 5 483 | `FinalExact`: mutex or atomic add make the printed value exact. `LossIsBounded`: without them updates are lost, never invented, and the printed value is at least 2 |
| `orange` | 3 threads, 2 rounds, both modes, symmetric | 325 864 | `NeverAborts` and `TypeOK`: no pointer leaves the array and no allocation fails, even in the races without the mutex. `EachChunkOnce`: under the mutex the unprotected update is exclusive |
| `orange_claim` | 2 threads, 1 round | violation | the header's claim does not hold of the default mode (section 6) |
| `produce_consume` | 4 products | 794 | `TakesTurns`: lab 16 implements `OneSlot`. `DriftBounded`: a shutdown costs at most two products or one repeated. `SleepsOnlyAtShutdown`, `ProductConsumed` |
| `state_machine` | modulus 4 | 34 140 | `StepsAsMachine`: the threads implement `StateCycle`. `KeepsGoing`, `StandsOnlyWithoutItsThread` |
| `hw_handler` | batches of 2, 4 items | 1 769 | `WrittenInOrder`, `EveryItemWritten`; `LeftAsleepIdle`, `ShutdownEnds`: the handler can be left asleep by the shutdown (main then never returns from the join), but with an empty queue. Both liveness properties name the one other end, a write or a malloc that fails over an item (`Failed`) |
| `events` | 3 clients, 2 scoids, count modulo 3 | 251 919 | `SavedAgree`, `ValuesFollow`, `UnblockComesLate`, `RegisteredWhileAlive`, `RequestAnswered`, `RegistrationServed` |
| `shm_server` | 2 clients of either lab, either server, sizes 1, 2, 4, largest 3 | 105 402 | `RegionValid`, `LeakFree`, `StraysDisturbedOnly`, `CrashExplained`, `RequestServed` |
| `shm_posix` | 2 producers, 2 consumers, 1 retry, 2 versions, 1 kill | 204 205 | `UsedInitialised`, `WholeVersions`, `CatchesUp` |
| `message_servers` | 2 clients of any labs, each of the 4 servers, 2 operands (one divides by zero) | 397 298 | `OwnAnswer`: a client prints the answer to the command it gave, whatever the shared response structure held. `EndsOnlyExplained`, `OwesOnlyUnknown`, `Released`, `Detached` |
| `labs` | lab 11: 2 threads, wrapping at 3; lab 09: 4 cells, 2 threads; 4 pulses, 3 children, 10 s of time, 2 users of 3 sizes | 93 843 | `PairAgrees`, `ChildrenAccounted`, `AnsweredOnce`, `EndsByItself`, `KeepsServing` |
| `timer_claim` | 3 pulses in 8 s | violation | the header's period is not the code's (section 6) |

`LeftAsleepIdle`, `LeakFree`, `StraysDisturbedOnly` and `CrashExplained` say exactly how far the code goes: lab 15 may miss
the last signal, and ends over the item that it fails to write or to take, before the stop or while it empties the queue after it; labs 24 and 27 lose a region, or work with the wrong one, when a second client asks during the turn of the
first, and lab 24's response does not fit into a region of one page. The properties bound these to the cases named.

So do `EndsOnlyExplained` (servers 18, 19 and 20 exit when the client they handle was killed meanwhile, server 19 for any
pulse as well), `OwesOnlyUnknown` and `Released` (lab 21 leaves the sender of an unknown message blocked), `KeepsServing` (an
interrupt whose unmasking failed stays masked), and `EndsByItself`: lab 08 never returns success, since the SIGKILL it sends to
a thread ends the process, and lab 28 always fails in the end, when its zombies have filled the process table or fork failed
before. `ChildrenAccounted` is what still holds in lab 28: the pid killed is always that of the one child not yet signalled,
never -1, and never a pid that was used again.

Type invariants: that of lab 12 is checked by its run (it says that no pointer leaves the array); those of labs 10/14, 15, 16,
17, 18 to 21, 22 and 24/27 are theorems (`TypeCorrect`, `CounterTypeCorrect`) and are not repeated in the runs. Those of lab
23, 11, 02 to 05, 28 and 30 are parts of the inductive invariants of `SharedMemoryProofs` and `LabsProofs`.

**Bounds.** Threads: two or three are enough for a race of two with a third that comes between. Rounds, updates, products,
items: at least two per thread, so that a value left over from an earlier iteration can do harm in a later one. `CountMod`,
`Modulus` (2^32 in the code) and `MaxVersion`: small enough to wrap or to be passed. `Scoids`: fewer than clients, so that
the kernel reuses one. Sizes: one page (no room for the response), two, and more than the largest. `MaxItems`, `MaxProduct`,
`MaxVersion` and `MaxKills` are bounds in the guards of a producer's step or a kill; nothing else is limited by them. The
notify thread's timer has one pulse outstanding per client (`inbox`). `MaxPulses` (4) exceeds `ChildLimit` (3), so that lab
28 meets a full process table; `MaxTime` (100 tenths of a second) lets lab 26's timer expire four times; the array of lab 09
has two cells for each thread; two users of the device have a message queued while another is handled. `MaxPulses` and
`MaxTime` are bounds in the guards of the kernel's steps.

**Fairness.** Weak fairness of every thread and process: the QNX scheduler runs every ready thread, and priorities are equal
within a lab. Strong fairness of acquiring a mutex: QNX keeps the threads that wait for a mutex in order of priority and
arrival, so one that asks gets it although the mutex is taken again and again. Messages and pulses the kernel has queued
are received because the server's loop is fair. Nothing is assumed about when main stops a lab, about a user starting or
killing a process, or about spurious wakeups. In `Labs` lab 13's main is strongly fair as a whole, for its one lock call; lab
11 needs no strong fairness, since every thread stops asking once `done` is set. Timers expire; interrupts, deaths of other
processes, requests and failures need not come. `SharedCounter`, `OrangeProblem` and `MaintenanceTimer` have no liveness
property and no fairness.

## 4. What is proved

The proofs hold for any number of threads, clients, updates, rounds, sizes, and every modulus, from the named assumption of
each module on its constants (finite thread sets, positive counts, identifiers that differ from "nobody").

- **`LoopProofs`**, labs 10 and 14: `PrintedExactly` from the invariant that a thread between load and store has the
  counter's present value (`FreshInv`), because only the owner of the mutex is there (`HolderInv`); the counter then equals
  the number of iterations stored, a cardinality that lemmas about `Iterations` compute when every thread has ended. Also that
  nobody holds the mutex when main destroys it. `LossBounded`, in every mode (`LossInv`): the
  counter, and every value about to be stored, is at most the number of updates stored. For the lower bound: a thread that
  has stored an update finds the counter at one or more ever after, since what is stored is one more than what was loaded; so
  its second store leaves two or more, and a counter below two was left by a thread with an update still to make.
- **`LoopProofs`**, lab 12: `AllocationNeverFails` and `PointersInside` hold without the mutex, where the tests of
  `buff_alloc` seem too early. The argument: `allocated`, and every value about to be stored, is at most the number of
  increases made (`GrowthInv`), and a thread that has not yet made its increase leaves room for it. `ChunksUpdatedOnce`, under
  `sync` (`AllocationInv`, `ChunkInv`): the chunks given out are those below `allocated`, each is updated already or held by
  exactly one thread, and so the updates after the unlock need no mutex of their own.
- **`ProduceConsumeProofs`**: the loops implement `OneSlot` (`ImplementsSlot`); counts agree while running and drift by a
  bounded amount after; the lab never sleeps as a whole before the stop (`NoDeadlockWhileRunning`), from `NoLostWakeup`: a
  thread asleep in its own turn is about to be signalled.
- **`StateMachineProofs`**: the threads implement `StateCycle`; the machine stands still only at a state whose thread has ended.
- **`HwHandlerProofs`**: items are written once and in order; counter, flag and queue agree; the handler left asleep leaves
  nothing behind; the process ends early only over an item in hand or still queued (`EndsOverItem`), which makes the
  disjunct `Failed` of the two liveness properties the only way to fail.
- **`EventsServerProofs`**: registration and connection agree although scoids are reused (`RegistrationConsistent`): a
  disconnect pulse is pending exactly as long as the dead client still has its connection, so the main loop clears the
  registration before the kernel can give the scoid away. Values follow each other, the unblock pulse is harmless, and a
  living client loses its place only to another.
- **`SharedMemoryProofs`**, labs 24 and 27: the four safety properties of the run, by the invariant that an undisturbed turn
  has pointer, size and mapping of its own client (`RegionValid`). Lab 23: `InitialisedWhenUsed`, because the producer
  that made an object sets its `init_flag` after both initialisations (`ReadyInv`); `VersionsWhole`, because whoever is between
  lock and unlock owns the object's mutex, also when it was killed there (`OwnerInv`), and text and data are of different
  versions only while the producer owns it and stands between its two stores (`TextInv`).
- **`MessageServersProofs`**: a client's message is queued, once, while the client is in `MsgSend` (`QueueInv`); a client
  waits for a reply only while the server handles its message, or for ever when it sent lab 21 an unknown one (`ServerInv`);
  and a client that has asked has the type of its command in its request, and no response of an earlier command left in the
  structure it prints from (`ClientInv`). `AnswersOwn` then follows from one lemma per handler, which computes the reply from
  the request of the client it is sent to. `NoOtherEnd` and `NothingElseOwed` follow from `ServerInv`.
- **`LabsProofs`**: `PairAgreement` by a table of the three variables before each of the five updates of a turn (`Course`):
  the thread that holds the mutex is at one of them, and the fifth ends where the next turn begins, modulo any width.
  `EveryChildAccounted` by an invariant per kind of lab: no child, one child, or one after the other with all but the last
  signalled. `RepliedOnce` by the places at which the reply has been sent. A lemma (`Frames`) says that a step of `Labs` changes
  what belongs to one lab.

In each proof `IInv` (in `LabsProofs` `PairInv`, `ChildInv`, `ReplyInv`) is the inductive invariant: the properties alone are
not inductive, since they do not say where a thread stands, who holds the mutex, or which messages are on their way. Each has
been checked by TLC as an invariant, on the instances of the runs. The proofs of labs 10, 12 and 14 are in one module because
they use the same lemmas about `Iterations`; those of 23, 24 and 27 because the three labs have the same subject.

The proofs corrected the model in one way that the runs did not show. A CASE whose guards overlap is in TLA+ whichever of its
values a tool likes, and TLC takes the first; in `MessageServers` (the client's reading of a command, the server's reply, the
end of the server) and `PairOfVars` (the test of `done`, the end of a turn) such expressions stood for the code's `if ... else
if`, and are now IF ... THEN ... ELSE. The number of states TLC reaches is the same.

**Model-checked only**: the liveness properties (`EveryItemWritten`, `ShutdownEnds`, `ProductConsumed`, `KeepsGoing`,
`RequestAnswered`, `RegistrationServed`, `RequestServed`, `CatchesUp`, `Released`, `Detached`, `EndsByItself`, `KeepsServing`),
since fairness and `ENABLED` are beyond the proof system's backends. Every other property of a passing run is a theorem.

## 5. What is left out

- Lab 29 (below), and argument parsing, printing and formatting everywhere.
- Failures of calls that cannot fail with the arguments given (`pthread_mutex_lock` of an initialised mutex, `pthread_join`
  of a created thread), except where the code goes on afterwards. In `EventsServer` the fatal errors of `MsgReceive` and
  `MsgDeliverEvent` end the server, and are not taken.
- A failing `pthread_create` outside `Labs`: labs 12 and 22 exit there, which only cuts behaviours short; labs 10 and 14 to 17
  do not look at the result, and their properties assume that the threads exist.
- Memory: contents are represented by versions, item numbers or pages; bytes within a page are not told apart. Descriptors
  are not counted.
- `name_open`'s connect message is answered with `ENOSYS` by the servers, and `name_open` goes on: an assumption on the
  library.
- A mutex in shared memory whose owner is killed stays locked (`ShmPosix`): it is initialised without robustness.

- The contents of the messages of labs 18 to 21, but for what the answer depends on: the operation, and whether it divides by
  0. A number that was not read (`sscanf` finds less than two) is any operand. A failing `MsgReceive` or `ChannelCreate` there
  ends the server before or between messages, and is not taken; a kill of the server is.
- The priorities of pulses and messages: all are taken in order of arrival.
- In lab 28, time: a pulse comes at any time. In lab 30, signals to blocked clients, whose unblocking the library handles.

Not modelled: lab 29, a loop over the terminal that calls `clock_gettime` and `clock_settime` and keeps nothing. Partly
modelled: `main.c`, whose splitting of a typed line into arguments is left out.

## 6. Disagreements between code and comments

`12.orange_problem.c:8-9` announces a mutex that prevents data corruption while the threads update the array. Without an
argument the lab sets `use_mutex = 0` (line 37; labs 10 and 11 default to `sync`). The run `orange_claim` shows the outcome:
two threads take the same chunk, main prints an array part of which was never updated.

`26.lab_timer.c:7-8` wants a maintenance message every 1.2 seconds; lines 54-55 set an interval of 1 s and 500 ms. The run
`timer_claim` shows the first two pulses 1.5 seconds apart.

## 7. Plan

Done: labs 10, 14, 12, 16, 17, 15, 22, 24, 27, 23, the message servers 18 to 21, and in `Labs` 01 to 09, 11, 13, 25, 26, 28, 30.
Every safety and action property of the passing runs is proved. What is left:

1. That `EventsServer` and `ShmServer` serve one client at a time, as refinements of an abstract server with one registration.
2. That `MessageServers` implements an abstract exchange of a request for an answer.
