----------------------------- MODULE ShmServer -----------------------------
(***************************************************************************)
(* Labs 24 and 27: a server that shares memory with one client at a time.  *)
(* A client asks for a region, tells the server of what it wrote there     *)
(* and, in lab 24, releases the region.  The server handles one message at *)
(* a time; the next request for a region takes the place of the client     *)
(* before.  Both labs use one name and one numbering of the messages, so a *)
(* client of either may meet the server of the other.  Memory is counted   *)
(* in pages; each client asks once, so a mapping of the server is named by *)
(* the client it was made for.                                             *)
(***************************************************************************)
EXTENDS Integers

CONSTANTS
    Clients,    \* client processes; a client started again is another one
    NoClient,   \* the scoid 0, and a pointer to no mapping
    Sizes,      \* the sizes clients ask for, in pages
    MaxPages    \* the largest region (64 * 1024)

ASSUME ShmAssumption ==
    /\ NoClient \notin Clients
    /\ Sizes \subseteq Nat \ {0}
    /\ MaxPages \in Nat

VARIABLES
    lab,        \* the server's: 24, with responses and the release message, or 27
    kind,       \* each client's lab: 24, which releases, or 27
    client,     \* what each client is doing
    want,       \* the size each client asks for
    range,      \* the pages a client tells the server of: first, number
    gone,       \* dead clients whose disconnect pulse is pending
    scoid, size, ptr,   \* client_scoid, shm_memory_size, shm_ptr
    mapped,     \* the pages mapped in the server, by mapping
    crashed,    \* the server died of an access to memory not mapped
    strayed,    \* it read or unmapped other than its mapping (history)
    disturbed   \* clients during whose turn another asked (history)

server == <<scoid, size, ptr, mapped, crashed, strayed, disturbed>>
given == <<lab, kind, want>>     \* chosen once, never changed
vars == <<given, client, range, gone, server>>

Pages(n) == 0 .. n - 1

Waiting == {"opening", "getting", "changing", "releasing"}

Init ==
    /\ lab \in {24, 27}
    /\ kind \in [Clients -> {24, 27}]
    /\ client = [c \in Clients |-> "off"]
    /\ want \in [Clients -> Sizes]
    /\ range = [c \in Clients |-> <<0, 0>>]
    /\ gone = {}
    /\ scoid = NoClient /\ size = 0 /\ ptr = NoClient
    /\ mapped = [c \in Clients |-> {}]
    /\ crashed = FALSE /\ strayed = FALSE
    /\ disturbed = {}

-----------------------------------------------------------------------------
(* The clients                                                             *)

Moves(c, from, to) ==
    /\ client[c] = from
    /\ client' = [client EXCEPT ![c] = to]

Open(c) ==
    /\ Moves(c, "off", "opening")
    /\ UNCHANGED <<given, range, gone, server>>

Get(c) ==
    /\ Moves(c, "opened", "getting")
    /\ UNCHANGED <<given, range, gone, server>>

(* The client has written to its region.                                   *)
Change(c) ==
    /\ Moves(c, "mapped", "changing")
    /\ \E first, n \in 0 .. want[c] : range' = [range EXCEPT ![c] = <<first, n>>]
    /\ UNCHANGED <<given, gone, server>>

(* Lab 24's writes once and releases; lab 27's writes again and again.     *)
Continue(c) ==
    /\ Moves(c, "changed", IF kind[c] = 24 THEN "releasing" ELSE "mapped")
    /\ UNCHANGED <<given, range, gone, server>>

(* A client is killed at any time, and exits when its send fails because   *)
(* the server has died.                                                    *)
Die(c) ==
    /\ client[c] \notin {"off", "dead"}
    /\ client' = [client EXCEPT ![c] = "dead"]
    /\ gone' = gone \cup {c}
    /\ UNCHANGED <<given, range, server>>

Client(c) == Get(c) \/ Change(c) \/ Continue(c)

-----------------------------------------------------------------------------
(* The server's replies and its memory                                     *)

Reply(c, to) ==
    /\ client' = [client EXCEPT ![c] = to]
    /\ UNCHANGED gone

(* MsgError: the client's send fails, and it exits.                        *)
Error(c) ==
    /\ client' = [client EXCEPT ![c] = "dead"]
    /\ gone' = gone \cup {c}

(* munmap(shm_ptr, shm_memory_size), whose result is not looked at.        *)
Unmap ==
    /\ mapped' = IF ptr = NoClient THEN mapped
                 ELSE [mapped EXCEPT ![ptr] = @ \ Pages(size)]
    /\ strayed' = (strayed \/ ptr = NoClient \/ mapped[ptr] # Pages(size))

Disturb ==
    disturbed' = IF scoid = NoClient THEN disturbed ELSE disturbed \cup {scoid}

Receive(c, state) == ~crashed /\ client[c] = state

-----------------------------------------------------------------------------
(* The server's handlers                                                   *)

(* name_open's connect message: ENOSYS, which name_open takes for yes.     *)
Other(c) ==
    /\ Receive(c, "opening")
    /\ Reply(c, "opened")
    /\ UNCHANGED <<given, range, server>>

GetRefuseSilent(c) ==   \* mutant: the MsgError is missing
    /\ Receive(c, "getting")
    /\ want[c] > MaxPages
    /\ size' = want[c]
    /\ Disturb
    /\ UNCHANGED <<client, gone, given, range, scoid, ptr, mapped, crashed, strayed>>

(* Too large; shm_memory_size has been set.                                *)
GetRefuse(c) ==
    /\ Receive(c, "getting")
    /\ want[c] > MaxPages
    /\ size' = want[c]
    /\ Error(c)
    /\ Disturb
    /\ UNCHANGED <<given, range, scoid, ptr, mapped, crashed, strayed>>

GetFailMapped(c) ==     \* mutant: no munmap when the handle fails
    /\ Receive(c, "getting")
    /\ want[c] <= MaxPages
    /\ size' = want[c]
    /\ ptr' = c
    /\ mapped' = [mapped EXCEPT ![c] = Pages(size')]
    /\ Error(c)
    /\ Disturb
    /\ UNCHANGED <<given, range, scoid, crashed, strayed>>

(* create_shared_memory fails: before it maps, in mmap, or for the handle, *)
(* when it unmaps again but leaves shm_ptr.                                *)
GetFail(c) ==
    /\ Receive(c, "getting")
    /\ want[c] <= MaxPages
    /\ size' = want[c]
    /\ ptr' \in {ptr, NoClient, c}
    /\ Error(c)
    /\ Disturb
    /\ UNCHANGED <<given, range, scoid, mapped, crashed, strayed>>

GetDone(c) ==
    /\ Receive(c, "getting")
    /\ want[c] <= MaxPages
    /\ size' = want[c]
    /\ ptr' = c
    /\ mapped' = [mapped EXCEPT ![c] = Pages(size')]
    /\ scoid' = c
    /\ Reply(c, "mapped")
    /\ Disturb
    /\ UNCHANGED <<given, range, crashed, strayed>>

Within(c) == range[c][1] + range[c][2] <= size

(* Not the client of the region (EPERM), or not within it (EBADMSG).       *)
ChangeDeny(c) ==
    /\ Receive(c, "changing")
    /\ scoid # c \/ ~Within(c)
    /\ Error(c)
    /\ UNCHANGED <<given, range, server>>

ChangeServeAny(c) ==    \* mutant: serves whoever asks
    /\ Receive(c, "changing")
    /\ Within(c)
    /\ IF lab = 24 /\ (ptr = NoClient \/ 1 \notin mapped[ptr])
       THEN crashed' = TRUE /\ UNCHANGED <<client, gone>>
       ELSE UNCHANGED crashed /\ Reply(c, "changed")
    /\ UNCHANGED <<given, range, scoid, size, ptr, mapped, strayed, disturbed>>

(* The pages are written out; a bad address is only an error of write().   *)
(* In lab 24 the response is then copied into the second page, at 4096 +   *)
(* 30, which kills the server if that is not mapped.                       *)
ChangeServe(c) ==
    /\ Receive(c, "changing")
    /\ scoid = c /\ Within(c)
    /\ strayed' = (strayed \/ \E p \in range[c][1] .. range[c][1] + range[c][2] - 1 :
                                ptr = NoClient \/ p \notin mapped[ptr])
    /\ IF lab = 24 /\ (ptr = NoClient \/ 1 \notin mapped[ptr])
       THEN crashed' = TRUE /\ UNCHANGED <<client, gone>>
       ELSE UNCHANGED crashed /\ Reply(c, "changed")
    /\ UNCHANGED <<given, range, scoid, size, ptr, mapped, disturbed>>

ReleaseKeep(c) ==       \* mutant: client_scoid is kept
    /\ lab = 24 /\ Receive(c, "releasing")
    /\ scoid = c
    /\ Unmap
    /\ Error(c)
    /\ UNCHANGED <<given, range, scoid, size, ptr, crashed, disturbed>>

(* The client has its answer and exits.                                    *)
Release(c) ==
    /\ lab = 24 /\ Receive(c, "releasing")
    /\ scoid = c
    /\ scoid' = NoClient
    /\ Unmap
    /\ Error(c)
    /\ UNCHANGED <<given, range, size, ptr, crashed, disturbed>>

ReleaseDeny(c) ==
    /\ lab = 24 /\ Receive(c, "releasing")
    /\ scoid # c
    /\ Error(c)
    /\ UNCHANGED <<given, range, server>>

(* Lab 27's server does not know the message (ENOSYS).                     *)
ReleaseUnknown(c) ==
    /\ lab = 27 /\ Receive(c, "releasing")
    /\ Error(c)
    /\ UNCHANGED <<given, range, server>>

(* The disconnect pulse, and ConnectDetach.                                *)
Disconnect(c) ==
    /\ c \in gone /\ ~crashed
    /\ gone' = gone \ {c}
    /\ IF scoid = c
       THEN scoid' = NoClient /\ Unmap
       ELSE UNCHANGED <<scoid, mapped, strayed>>
    /\ UNCHANGED <<client, given, range, size, ptr, crashed, disturbed>>

Server ==
    \E c \in Clients :
        \/ Other(c) \/ GetRefuse(c) \/ GetFail(c) \/ GetDone(c)
        \/ ChangeDeny(c) \/ ChangeServe(c) \/ Release(c) \/ ReleaseDeny(c)
        \/ ReleaseUnknown(c) \/ Disconnect(c)

Next == Server \/ \E c \in Clients : Open(c) \/ Die(c) \/ Client(c)

(* The server and the started clients keep running; nobody has to start a  *)
(* client or to kill one.                                                  *)
Fairness ==
    /\ \A c \in Clients : WF_vars(Client(c))
    /\ \A c \in Clients :
         /\ WF_vars(Other(c) \/ GetRefuse(c) \/ GetFail(c) \/ GetDone(c)
                      \/ ChangeDeny(c) \/ ChangeServe(c) \/ Release(c) \/ ReleaseDeny(c)
                      \/ ReleaseUnknown(c))
         /\ WF_vars(Disconnect(c))

Spec == Init /\ [][Next]_vars /\ Fairness

-----------------------------------------------------------------------------
(* Properties                                                              *)

(* Every variable has its type.                                            *)
TypeOK ==
    /\ lab \in {24, 27}
    /\ kind \in [Clients -> {24, 27}]
    /\ client \in [Clients -> Waiting \cup {"off", "opened", "mapped", "changed", "dead"}]
    /\ want \in [Clients -> Sizes]
    /\ range \in [Clients -> Nat \X Nat]
    /\ gone \in SUBSET Clients
    /\ {scoid, ptr} \subseteq Clients \cup {NoClient}
    /\ size \in Sizes \cup {0}
    /\ mapped \in [Clients -> SUBSET Nat]
    /\ {crashed, strayed} \subseteq BOOLEAN
    /\ disturbed \in SUBSET Clients

(* While a client has its turn undisturbed, shm_ptr and shm_memory_size    *)
(* are its own region, all of it mapped.                                   *)
RegionValid ==
    scoid # NoClient /\ scoid \notin disturbed =>
      /\ ptr = scoid
      /\ size = want[scoid] /\ size <= MaxPages
      /\ mapped[ptr] = Pages(size)

(* A region stays mapped after its client's turn only if another client    *)
(* asked during that turn: whether a region is released, its client dies   *)
(* or its creation fails half way, nothing else leaks.                     *)
LeakFree ==
    \A c \in Clients : mapped[c] # {} => c = scoid \/ c \in disturbed

(* The server reads or unmaps other memory than the region only in a turn  *)
(* that another client disturbed; in particular a release and the death    *)
(* that follows do not unmap twice.                                        *)
StraysDisturbedOnly ==
    [][strayed' /\ ~strayed => scoid \in disturbed]_vars

(* The server dies of its response only in a disturbed turn, or for a      *)
(* client with a region of one page, such as lab 27's.                     *)
CrashExplained ==
    crashed => scoid \in disturbed \/ size < 2

(* Every send returns, if the server lives.                                *)
RequestServed ==
    \A c \in Clients : client[c] \in Waiting ~> client[c] \notin Waiting \/ crashed
=============================================================================
