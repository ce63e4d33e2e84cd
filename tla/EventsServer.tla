---------------------------- MODULE EventsServer ----------------------------
(***************************************************************************)
(* Lab 22: a server that registers one client at a time for notifications, *)
(* a thread of the server that delivers a pulse to that client every       *)
(* second, and clients that register once and then listen until they die.  *)
(* Messages, pulses and connections are the kernel's (external); pulses    *)
(* and messages of different priorities may overtake each other.           *)
(***************************************************************************)
EXTENDS Mutex, Integers

CONSTANTS
    Clients,    \* client processes; a client started again is another one
    NoClient,   \* the rcvid 0
    Scoids,     \* server connection ids; 0 stands for none
    CountMod    \* where notify_count wraps (2^32)

Main == "main"
Notifier == "notify_thread"

ASSUME EventsAssumption ==
    /\ NoClient \notin Clients
    /\ Nobody \notin {Main, Notifier}
    /\ Scoids \subseteq Nat \ {0}
    /\ CountMod \in Nat \ {0}

VARIABLES
    client,     \* what each client is doing
    killed,     \* clients killed while the server owes them a reply
    conn,       \* the client each server connection belongs to
    pending,    \* messages and pulses the server has not received
    inbox,      \* clients with a pulse they have not received
    last,       \* the value of the last pulse delivered to a live client (history)
    saveRcvid, saveEvent, saveScoid, notifyCount,
    mpc, cur,   \* the main loop's place, and the message it handles
    npc         \* the notify thread's place

saved == <<saveRcvid, saveEvent, saveScoid, notifyCount>>
kernel == <<client, killed, conn, pending>>
vars == <<owner, kernel, inbox, last, saved, mpc, cur, npc>>

None == [kind |-> "none", from |-> NoClient, scoid |-> 0]

Init ==
    /\ MutexInit
    /\ client = [c \in Clients |-> "off"]
    /\ killed = {}
    /\ conn = [s \in Scoids |-> NoClient]
    /\ pending = {}
    /\ inbox = {}
    /\ last = [c \in Clients |-> -1]
    /\ saveRcvid = NoClient /\ saveEvent = NoClient
    /\ saveScoid = 0 /\ notifyCount = 0
    /\ mpc = "receive" /\ cur = None
    /\ npc = "sleep"

-----------------------------------------------------------------------------
(* The kernel's part                                                       *)

ScoidsOf(c) == {s \in Scoids : conn[s] = c}

Message(kind, c, s) == [kind |-> kind, from |-> c, scoid |-> s]

(* What the server will receive once c is dead: the disconnect pulse, and  *)
(* no message of c's any more.                                             *)
AfterDeath(c) ==
    {m \in pending : m.from = c => m.kind = "unblock"}
      \cup {Message("disconnect", c, s) : s \in ScoidsOf(c)}

Dies(c) ==
    /\ client' = [client EXCEPT ![c] = "dead"]
    /\ pending' = AfterDeath(c)
    /\ inbox' = inbox \ {c}
    /\ last' = [last EXCEPT ![c] = -1]

(* A reply lets c go on to the given state, or die if it has been killed.  *)
Answer(c, to) ==
    IF to = "dead" \/ c \in killed
    THEN Dies(c)
    ELSE /\ client' = [client EXCEPT ![c] = to]
         /\ UNCHANGED <<pending, inbox, last>>

-----------------------------------------------------------------------------
(* The clients                                                             *)

(* name_open: a connection, and a connect message.                         *)
Open(c) ==
    /\ client[c] = "off"
    /\ \E s \in Scoids :
         /\ conn[s] = NoClient
         /\ conn' = [conn EXCEPT ![s] = c]
         /\ pending' = pending \cup {Message("connect", c, s)}
    /\ client' = [client EXCEPT ![c] = "opening"]
    /\ UNCHANGED <<owner, killed, inbox, last, saved, mpc, cur, npc>>

(* MsgRegisterEvent, and MsgSend of the request.                           *)
Request(c) ==
    /\ client[c] = "opened"
    /\ client' = [client EXCEPT ![c] = "sending"]
    /\ pending' = pending \cup {Message("request", c, s) : s \in ScoidsOf(c)}
    /\ UNCHANGED <<owner, killed, conn, inbox, last, saved, mpc, cur, npc>>

(* The client's receive loop prints the value of the next pulse.           *)
Listen(c) ==
    /\ client[c] = "listening"
    /\ c \in inbox
    /\ inbox' = inbox \ {c}
    /\ UNCHANGED <<owner, kernel, last, saved, mpc, cur, npc>>

(* A client waits for a reply until it gets one, killed or not; the server *)
(* is told by an unblock pulse.                                            *)
Kill(c) ==
    /\ client[c] \notin {"off", "dead"}
    /\ IF client[c] \in {"openReply", "sendReply"}
       THEN /\ c \notin killed
            /\ killed' = killed \cup {c}
            /\ pending' = pending \cup {Message("unblock", c, s) : s \in ScoidsOf(c)}
            /\ UNCHANGED <<client, inbox, last>>
       ELSE Dies(c) /\ UNCHANGED killed
    /\ UNCHANGED <<owner, conn, saved, mpc, cur, npc>>

Client(c) == Request(c) \/ Listen(c)

-----------------------------------------------------------------------------
(* The server's main loop                                                  *)

(* MsgReceive, and the switch on what was received.                        *)
Receive ==
    /\ mpc = "receive"
    /\ \E m \in pending :
         /\ cur' = m
         /\ pending' = pending \ {m}
         /\ mpc' = m.kind
         /\ client' = CASE m.kind = "connect" -> [client EXCEPT ![m.from] = "openReply"]
                        [] m.kind = "request" -> [client EXCEPT ![m.from] = "sendReply"]
                        [] OTHER -> client
    /\ UNCHANGED <<owner, killed, conn, inbox, last, saved, npc>>

(* pthread_mutex_lock, for a disconnect or a verified request.             *)
MainLock ==
    /\ \/ mpc = "disconnect" /\ mpc' = "clear"
       \/ mpc = "verified" /\ mpc' = "save"
    /\ Lock(Main)
    /\ UNCHANGED <<kernel, inbox, last, saved, cur, npc>>

ClearAny ==         \* mutant: whoever disconnects
    /\ mpc = "clear"
    /\ saveScoid' = 0 /\ saveRcvid' = NoClient /\ notifyCount' = 0
    /\ Unlock(Main)
    /\ mpc' = "detach"
    /\ UNCHANGED <<kernel, inbox, last, saveEvent, cur, npc>>

ClearScoid ==       \* mutant: leaves save_rcvid
    /\ mpc = "clear"
    /\ IF saveScoid = cur.scoid
       THEN saveScoid' = 0 /\ notifyCount' = 0
       ELSE UNCHANGED <<saveScoid, notifyCount>>
    /\ Unlock(Main)
    /\ mpc' = "detach"
    /\ UNCHANGED <<kernel, inbox, last, saveRcvid, saveEvent, cur, npc>>

Clear ==
    /\ mpc = "clear"
    /\ IF saveScoid = cur.scoid
       THEN saveScoid' = 0 /\ saveRcvid' = NoClient /\ notifyCount' = 0
       ELSE UNCHANGED <<saveScoid, saveRcvid, notifyCount>>
    /\ Unlock(Main)
    /\ mpc' = "detach"
    /\ UNCHANGED <<kernel, inbox, last, saveEvent, cur, npc>>

(* ConnectDetach, after which the kernel may use the scoid again.          *)
Detach ==
    /\ mpc = "detach"
    /\ conn' = [conn EXCEPT ![cur.scoid] = NoClient]
    /\ mpc' = "receive" /\ cur' = None
    /\ UNCHANGED <<owner, client, killed, pending, inbox, last, saved, npc>>

(* MsgError for an unblock pulse: an error if nobody is blocked.           *)
Unblock ==
    /\ mpc = "unblock"
    /\ IF client[cur.from] \in {"openReply", "sendReply"}
       THEN Answer(cur.from, "dead")
       ELSE UNCHANGED <<client, pending, inbox, last>>
    /\ mpc' = "receive" /\ cur' = None
    /\ UNCHANGED <<owner, killed, conn, saved, npc>>

OtherSilent ==      \* mutant: no MsgError in the default branch
    /\ mpc = "connect"
    /\ mpc' = "receive" /\ cur' = None
    /\ UNCHANGED <<owner, kernel, inbox, last, saved, npc>>

(* The default branch: MsgError(ENOSYS), which name_open takes for yes.    *)
Other ==
    /\ mpc = "connect"
    /\ Answer(cur.from, "opened")
    /\ mpc' = "receive" /\ cur' = None
    /\ UNCHANGED <<owner, killed, conn, saved, npc>>

RefuseSilent ==     \* mutant: the MsgError(EINVAL) is missing
    /\ mpc = "request"
    /\ mpc' = "receive" /\ cur' = None
    /\ UNCHANGED <<owner, kernel, inbox, last, saved, npc>>

(* MsgVerifyEvent fails; the client's MsgSend fails, and it exits.         *)
Refuse ==
    /\ mpc = "request"
    /\ Answer(cur.from, "dead")
    /\ mpc' = "receive" /\ cur' = None
    /\ UNCHANGED <<owner, killed, conn, saved, npc>>

Verify ==
    /\ mpc = "request"
    /\ mpc' = "verified"
    /\ UNCHANGED <<owner, kernel, inbox, last, saved, cur, npc>>

(* The registration, which replaces the one before and keeps its count.    *)
Save ==
    /\ mpc = "save"
    /\ saveRcvid' = cur.from /\ saveEvent' = cur.from
    /\ saveScoid' = cur.scoid
    /\ Unlock(Main)
    /\ mpc' = "reply"
    /\ UNCHANGED <<kernel, inbox, last, notifyCount, cur, npc>>

Reply ==
    /\ mpc = "reply"
    /\ Answer(cur.from, "listening")
    /\ mpc' = "receive" /\ cur' = None
    /\ UNCHANGED <<owner, killed, conn, saved, npc>>

MainLoop ==
    \/ Receive \/ MainLock \/ Clear \/ Detach \/ Unblock \/ Other
    \/ Refuse \/ Verify \/ Save \/ Reply

-----------------------------------------------------------------------------
(* The notify thread                                                       *)

(* sleep(1): bounded below, long enough to receive the pulse before.       *)
Tick ==
    /\ npc = "sleep"
    /\ inbox = {}
    /\ npc' = "lock"
    /\ UNCHANGED <<owner, kernel, inbox, last, saved, mpc, cur>>

NotifyLock ==
    /\ npc = "lock"
    /\ npc' = "deliver"
    /\ Lock(Notifier)
    /\ UNCHANGED <<kernel, inbox, last, saved, mpc, cur>>

DeliverCounted ==   \* mutant: counts first, and never wraps
    /\ npc = "deliver"
    /\ IF saveRcvid = NoClient
       THEN UNCHANGED <<inbox, last, notifyCount>>
       ELSE /\ notifyCount' = notifyCount + 1
            /\ IF client[saveRcvid] = "dead"
               THEN UNCHANGED <<inbox, last>>
               ELSE /\ inbox' = inbox \cup {saveEvent}
                    /\ last' = [last EXCEPT ![saveEvent] = notifyCount']
    /\ Unlock(Notifier)
    /\ npc' = "sleep"
    /\ UNCHANGED <<kernel, saveRcvid, saveEvent, saveScoid, mpc, cur>>

(* MsgDeliverEvent: an error, which is only printed, if the client is      *)
(* dead, but the count goes on.                                            *)
Deliver ==
    /\ npc = "deliver"
    /\ IF saveRcvid = NoClient
       THEN UNCHANGED <<inbox, last, notifyCount>>
       ELSE /\ notifyCount' = (notifyCount + 1) % CountMod
            /\ IF client[saveRcvid] = "dead"
               THEN UNCHANGED <<inbox, last>>
               ELSE /\ inbox' = inbox \cup {saveEvent}
                    /\ last' = [last EXCEPT ![saveEvent] = notifyCount]
    /\ Unlock(Notifier)
    /\ npc' = "sleep"
    /\ UNCHANGED <<kernel, saveRcvid, saveEvent, saveScoid, mpc, cur>>

Notify == Tick \/ NotifyLock \/ Deliver

Next ==
    \/ \E c \in Clients : Open(c) \/ Kill(c) \/ Client(c)
    \/ MainLoop
    \/ Notify

(* Both threads of the server and the started clients keep running, and a  *)
(* thread that asks for the mutex gets it.  Nobody has to start a client   *)
(* or to kill one.                                                         *)
Fairness ==
    /\ WF_vars(MainLoop) /\ SF_vars(MainLock)
    /\ WF_vars(Notify) /\ SF_vars(NotifyLock)
    /\ \A c \in Clients : WF_vars(Client(c))

Spec == Init /\ [][Next]_vars /\ Fairness

-----------------------------------------------------------------------------
(* Properties                                                              *)

Kinds == {"connect", "request", "disconnect", "unblock"}

Messages == [kind : Kinds, from : Clients, scoid : Scoids]

(* Every variable has its type.                                            *)
TypeOK ==
    /\ owner \in {Main, Notifier, Nobody}
    /\ client \in [Clients -> {"off", "opening", "openReply", "opened",
                               "sending", "sendReply", "listening", "dead"}]
    /\ killed \in SUBSET Clients
    /\ conn \in [Scoids -> Clients \cup {NoClient}]
    /\ pending \in SUBSET Messages
    /\ inbox \in SUBSET Clients
    /\ last \in [Clients -> -1 .. CountMod - 1]
    /\ {saveRcvid, saveEvent} \subseteq Clients \cup {NoClient}
    /\ saveScoid \in Scoids \cup {0}
    /\ notifyCount \in 0 .. CountMod - 1
    /\ mpc \in Kinds \cup {"receive", "clear", "detach", "verified", "save", "reply"}
    /\ cur \in Messages \cup {None}
    /\ npc \in {"sleep", "lock", "deliver"}

(* The three saved variables speak of one client, by the connection that   *)
(* is still that client's: a scoid is never saved once the kernel may give *)
(* it to another.  With nobody registered the count is back to 0.          *)
SavedAgree ==
    IF saveRcvid = NoClient
    THEN saveScoid = 0 /\ notifyCount = 0
    ELSE /\ saveEvent = saveRcvid
         /\ saveScoid \in Scoids
         /\ conn[saveScoid] = saveRcvid

(* The value the registered client gets next follows on the last it got,   *)
(* whatever other clients came and went since.                             *)
ValuesFollow ==
    saveRcvid # NoClient =>
      \/ client[saveRcvid] = "dead"
      \/ last[saveRcvid] = -1
      \/ notifyCount = (last[saveRcvid] + 1) % CountMod

(* The unblock pulse comes when its client has its answer already: the     *)
(* server's question, "did you forget to reply", is always answered no.    *)
UnblockComesLate ==
    mpc = "unblock" => client[cur.from] \notin {"openReply", "sendReply"}

(* A registration ends by the death of its client or by another's only.    *)
RegisteredWhileAlive ==
    [][saveRcvid' = NoClient /\ saveRcvid # NoClient
         => client[saveRcvid] = "dead"]_vars

(* A request is answered, or its client dies waiting.                      *)
RequestAnswered ==
    \A c \in Clients :
      client[c] \in {"sending", "sendReply"} ~> client[c] \in {"listening", "dead"}

(* A registered client gets a pulse, unless it dies or loses its place.    *)
RegistrationServed ==
    \A c \in Clients : saveRcvid = c ~> c \in inbox \/ saveRcvid # c
=============================================================================
