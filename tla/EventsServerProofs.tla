------------------------- MODULE EventsServerProofs -------------------------
(***************************************************************************)
(* Proofs about lab 22, for any number of clients and connections.         *)
(***************************************************************************)
EXTENDS EventsServer, TLAPS

Blocked == {"openReply", "sendReply"}
Early == {"off", "opening", "openReply", "opened", "sending"}
Closing == {"disconnect", "clear", "detach"}
Serving == {"request", "verified", "save", "reply"}

LockInv ==
    /\ owner = Main <=> mpc \in {"clear", "save"}
    /\ owner = Notifier <=> npc = "deliver"

(* A client has one connection at most, and none before it starts.         *)
OneConnection ==
    /\ \A s, t \in Scoids : conn[s] = conn[t] /\ conn[s] # NoClient => s = t
    /\ \A s \in Scoids : conn[s] # NoClient => client[conn[s]] # "off"

(* What waits for the server comes over a connection that is its sender's. *)
PendingInv ==
    \A m \in pending : m.kind # "unblock" =>
        /\ conn[m.scoid] = m.from
        /\ client[m.from] = CASE m.kind = "disconnect" -> "dead"
                              [] m.kind = "connect" -> "opening"
                              [] OTHER -> "sending"

(* So does what the server handles; a connection about to be detached is   *)
(* saved no longer.                                                        *)
CurInv ==
    /\ mpc # "receive" => cur \in Messages
    /\ mpc \in Closing =>
         /\ conn[cur.scoid] = cur.from
         /\ client[cur.from] = "dead"
         /\ \A m \in pending : m.kind = "disconnect" => m.scoid # cur.scoid
    /\ mpc = "detach" => saveScoid # cur.scoid
    /\ mpc = "connect" => client[cur.from] = "openReply"
    /\ mpc \in Serving => conn[cur.scoid] = cur.from /\ client[cur.from] = "sendReply"

(* Only the client the server is busy with waits for a reply.              *)
BlockedInv ==
    \A c \in Clients : client[c] \in Blocked =>
        mpc \in Serving \cup {"connect"} /\ cur.from = c

(* A client that is not registered yet has been sent nothing.              *)
Fresh(c) ==
    \/ client[c] \in Early
    \/ mpc \in {"request", "verified", "save"} /\ cur.from = c

FreshInv == \A c \in Clients : Fresh(c) => saveRcvid # c /\ last[c] = -1

IInv ==
    /\ TypeOK /\ LockInv /\ OneConnection /\ PendingInv /\ CurInv
    /\ BlockedInv /\ FreshInv /\ SavedAgree /\ ValuesFollow

-----------------------------------------------------------------------------
(* Messages are equal when their three parts are.                          *)
LEMMA SameMessage ==
    ASSUME NEW m \in Messages, NEW n \in Messages,
           m.kind = n.kind, m.from = n.from, m.scoid = n.scoid
    PROVE  m = n
  BY DEF Messages

LEMMA InitIInv == Init => IInv
  <1> SUFFICES ASSUME Init PROVE IInv
    OBVIOUS
  <1> USE EventsAssumption DEF Init, MutexInit
  <1>1. TypeOK
    BY DEF TypeOK, Main, Notifier
  <1>2. LockInv /\ OneConnection /\ PendingInv /\ CurInv
    BY DEF LockInv, OneConnection, PendingInv, CurInv, Closing, Serving
  <1>3. BlockedInv /\ FreshInv
    BY DEF BlockedInv, FreshInv, Fresh, Blocked
  <1>4. SavedAgree /\ ValuesFollow
    BY DEF SavedAgree, ValuesFollow
  <1> QED BY <1>1, <1>2, <1>3, <1>4 DEF IInv

(* Steps that change no client, connection, message or registration.       *)
LEMMA QuietSteps ==
    ASSUME IInv,
           \/ UNCHANGED vars \/ MainLock \/ Verify \/ Tick \/ NotifyLock
           \/ \E c \in Clients : Listen(c)
    PROVE  IInv'
  <1> USE EventsAssumption DEF IInv, Main, Notifier
  <1>1. /\ UNCHANGED <<client, killed, conn, pending, last, saved>>
        /\ inbox' \subseteq inbox
    BY DEF vars, kernel, MainLock, Verify, Tick, NotifyLock, Listen
  <1>2. OneConnection' /\ PendingInv' /\ SavedAgree' /\ ValuesFollow'
    BY <1>1 DEF saved, OneConnection, PendingInv, SavedAgree, ValuesFollow
  <1>3. cur' = cur
    BY DEF vars, MainLock, Verify, Tick, NotifyLock, Listen
  <1>4. TypeOK'
    BY <1>1, <1>3 DEF TypeOK, saved, vars, MainLock, Verify, Tick, NotifyLock, Listen, Lock
  <1>5. LockInv'
    BY DEF LockInv, TypeOK, vars, MainLock, Verify, Tick, NotifyLock, Listen, Lock
  <1>6. CurInv' /\ BlockedInv' /\ FreshInv'
    <2>1. \/ mpc' = mpc
          \/ mpc = "disconnect" /\ mpc' = "clear"
          \/ mpc = "verified" /\ mpc' = "save"
          \/ mpc = "request" /\ mpc' = "verified"
      BY DEF vars, MainLock, Verify, Tick, NotifyLock, Listen
    <2>2. CurInv'
      BY <1>1, <1>3, <2>1 DEF CurInv, Closing, Serving, saved
    <2>3. BlockedInv'
      BY <1>1, <1>3, <2>1 DEF BlockedInv, Serving
    <2>4. FreshInv'
      BY <1>1, <1>3, <2>1 DEF FreshInv, Fresh, saved
    <2> QED BY <2>2, <2>3, <2>4
  <1> QED BY <1>2, <1>4, <1>5, <1>6

(* A client opens a connection.                                            *)
LEMMA OpenStep == ASSUME IInv, NEW c \in Clients, Open(c) PROVE IInv'
  <1> USE EventsAssumption DEF IInv, Open
  <1>1. PICK s \in Scoids :
          /\ conn[s] = NoClient
          /\ conn' = [conn EXCEPT ![s] = c]
          /\ pending' = pending \cup {Message("connect", c, s)}
    OBVIOUS
  <1>2. Message("connect", c, s) \in Messages
    BY DEF Message, Messages, Kinds
  <1>3. TypeOK'
    BY <1>1, <1>2 DEF TypeOK, saved
  <1>4. \A t \in Scoids : conn'[t] = IF t = s THEN c ELSE conn[t]
    BY <1>1 DEF TypeOK
  <1>5. \A d \in Clients : client'[d] = IF d = c THEN "opening" ELSE client[d]
    BY DEF TypeOK
  <1>6. \A t \in Scoids : conn[t] # c
    BY DEF OneConnection
  <1>7. OneConnection'
    BY <1>4, <1>5, <1>6 DEF OneConnection, TypeOK
  <1>8. PendingInv'
    <2> SUFFICES ASSUME NEW m \in pending', m.kind # "unblock"
                 PROVE  /\ conn'[m.scoid] = m.from
                        /\ client'[m.from] = CASE m.kind = "disconnect" -> "dead"
                                               [] m.kind = "connect" -> "opening"
                                               [] OTHER -> "sending"
      BY DEF PendingInv
    <2>1. CASE m \in pending
      <3>1. m.scoid \in Scoids /\ m.from \in Clients /\ m.from # c /\ m.scoid # s
        BY <1>1, <1>6, <2>1 DEF TypeOK, Messages, PendingInv
      <3> QED BY <1>4, <1>5, <2>1, <3>1 DEF PendingInv
    <2>2. CASE m = Message("connect", c, s)
      BY <1>4, <1>5, <2>2 DEF Message
    <2> QED BY <1>1, <2>1, <2>2
  <1>9. LockInv' /\ BlockedInv'
    BY <1>5 DEF LockInv, BlockedInv, Blocked
  <1>10. CurInv'
    <2>1. mpc # "receive" => cur.from \in Clients /\ cur.scoid \in Scoids
      BY DEF CurInv, Messages
    <2>2. \A m \in pending' : m.kind = "disconnect" => m \in pending
      BY <1>1 DEF Message
    <2>3. mpc \in Closing \cup Serving \cup {"connect"} => mpc # "receive" /\ cur.from # c
      BY <2>1 DEF CurInv, Closing, Serving
    <2> QED BY <1>1, <1>4, <1>5, <2>1, <2>2, <2>3 DEF CurInv, Closing, Serving, saved
  <1>11. FreshInv'
    BY <1>5 DEF FreshInv, Fresh, saved, Early
  <1>12. SavedAgree'
    BY <1>1, <1>4 DEF SavedAgree, saved, TypeOK
  <1>13. ValuesFollow'
    BY <1>5 DEF ValuesFollow, FreshInv, Fresh, Early, saved, TypeOK
  <1> QED BY <1>3, <1>7, <1>8, <1>9, <1>10, <1>11, <1>12, <1>13

(* A client sends its request.                                             *)
LEMMA RequestStep == ASSUME IInv, NEW c \in Clients, Request(c) PROVE IInv'
  <1> USE EventsAssumption DEF IInv, Request
  <1>1. \A m \in pending' : m \in pending \/ \E s \in ScoidsOf(c) : m = Message("request", c, s)
    OBVIOUS
  <1>2. \A s \in ScoidsOf(c) : Message("request", c, s) \in Messages
    BY DEF Message, Messages, Kinds, ScoidsOf
  <1>3. TypeOK'
    BY <1>1, <1>2 DEF TypeOK, saved
  <1>4. \A d \in Clients : client'[d] = IF d = c THEN "sending" ELSE client[d]
    BY DEF TypeOK
  <1>5. OneConnection' /\ LockInv' /\ BlockedInv' /\ FreshInv' /\ SavedAgree'
    BY <1>4 DEF OneConnection, LockInv, BlockedInv, FreshInv, SavedAgree, Blocked,
                Fresh, Early, saved, TypeOK
  <1>6. PendingInv'
    <2> SUFFICES ASSUME NEW m \in pending', m.kind # "unblock"
                 PROVE  /\ conn[m.scoid] = m.from
                        /\ client'[m.from] = CASE m.kind = "disconnect" -> "dead"
                                               [] m.kind = "connect" -> "opening"
                                               [] OTHER -> "sending"
      BY DEF PendingInv
    <2>1. CASE m \in pending
      <3>1. m.from \in Clients /\ m.from # c
        BY <2>1 DEF TypeOK, Messages, Kinds, PendingInv
      <3> QED BY <1>4, <2>1, <3>1 DEF PendingInv
    <2>2. CASE m \notin pending
      <3>1. PICK s \in ScoidsOf(c) : m = Message("request", c, s)
        BY <1>1, <2>2
      <3> QED BY <1>4, <3>1 DEF Message, ScoidsOf
    <2> QED BY <2>1, <2>2
  <1>7. CurInv'
    <2>1. mpc # "receive" => cur.from \in Clients /\ cur.scoid \in Scoids
      BY DEF CurInv, Messages
    <2>2. \A m \in pending' : m.kind = "disconnect" => m \in pending
      BY <1>1 DEF Message
    <2>3. mpc \in Closing \cup Serving \cup {"connect"} => mpc # "receive" /\ cur.from # c
      BY <2>1 DEF CurInv, Closing, Serving
    <2> QED BY <1>4, <2>1, <2>2, <2>3 DEF CurInv, Closing, Serving, saved
  <1>8. ValuesFollow'
    BY <1>4 DEF ValuesFollow, FreshInv, Fresh, Early, saved, TypeOK
  <1> QED BY <1>3, <1>5, <1>6, <1>7, <1>8

(* What a death leaves behind.                                             *)
LEMMA Death ==
    ASSUME IInv, NEW c \in Clients, Dies(c), UNCHANGED <<conn, saved>>,
           client[c] \notin {"off", "dead"}
    PROVE  /\ \A d \in Clients : client'[d] = IF d = c THEN "dead" ELSE client[d]
           /\ \A m \in pending' : \/ m \in pending /\ (m.from = c => m.kind = "unblock")
                                  \/ m.kind = "disconnect" /\ m.from = c
           /\ pending' \subseteq Messages
           /\ OneConnection' /\ PendingInv' /\ SavedAgree' /\ ValuesFollow'
  <1> USE EventsAssumption DEF IInv, Dies
  <1>1. \A d \in Clients : client'[d] = IF d = c THEN "dead" ELSE client[d]
    BY DEF TypeOK
  <1>2. \A m \in pending' :
          \/ m \in pending /\ (m.from = c => m.kind = "unblock")
          \/ \E s \in ScoidsOf(c) : m = Message("disconnect", c, s)
    BY DEF AfterDeath
  <1>3. \A s \in ScoidsOf(c) : Message("disconnect", c, s) \in Messages
    BY DEF Message, Messages, Kinds, ScoidsOf
  <1>4. pending' \subseteq Messages
    BY <1>2, <1>3 DEF TypeOK
  <1>5. \A m \in pending' : \/ m \in pending /\ (m.from = c => m.kind = "unblock")
                            \/ m.kind = "disconnect" /\ m.from = c
    BY <1>2 DEF Message
  <1>6. OneConnection'
    BY <1>1 DEF OneConnection, TypeOK
  <1>7. PendingInv'
    <2> SUFFICES ASSUME NEW m \in pending', m.kind # "unblock"
                 PROVE  /\ conn[m.scoid] = m.from
                        /\ client'[m.from] = CASE m.kind = "disconnect" -> "dead"
                                               [] m.kind = "connect" -> "opening"
                                               [] OTHER -> "sending"
      BY DEF PendingInv
    <2>1. CASE m \in pending
      <3>1. m.from \in Clients
        BY <2>1 DEF TypeOK, Messages
      <3>2. CASE m.from # c
        BY <1>1, <2>1, <3>1, <3>2 DEF PendingInv
      <3>3. CASE m.from = c
        <4>1. PICK s \in ScoidsOf(c) : m = Message("disconnect", c, s)
          BY <1>2, <3>3
        <4> QED BY <1>1, <4>1 DEF Message, ScoidsOf
      <3> QED BY <3>2, <3>3
    <2>2. CASE m \notin pending
      <3>1. PICK s \in ScoidsOf(c) : m = Message("disconnect", c, s)
        BY <1>2, <2>2
      <3> QED BY <1>1, <3>1 DEF Message, ScoidsOf
    <2> QED BY <2>1, <2>2
  <1>8. SavedAgree'
    BY DEF SavedAgree, saved
  <1>9. ValuesFollow'
    BY <1>1 DEF ValuesFollow, saved, TypeOK
  <1> HIDE DEF IInv, Dies
  <1> QED BY <1>1, <1>4, <1>5, <1>6, <1>7, <1>8, <1>9

(* A client is killed.                                                     *)
LEMMA KillStep == ASSUME IInv, NEW c \in Clients, Kill(c) PROVE IInv'
  <1>1. CASE client[c] \in Blocked
    <2> USE EventsAssumption DEF IInv
    <2>1. /\ killed' = killed \cup {c}
          /\ pending' = pending \cup {Message("unblock", c, s) : s \in ScoidsOf(c)}
          /\ UNCHANGED <<client, owner, conn, inbox, last, saved, mpc, cur, npc>>
      BY <1>1 DEF Kill, Blocked
    <2>2. /\ \A s \in ScoidsOf(c) : Message("unblock", c, s) \in Messages
          /\ \A m \in pending' : m.kind # "unblock" => m \in pending
      BY <2>1 DEF Message, Messages, Kinds, ScoidsOf
    <2>3. TypeOK'
      BY <2>1, <2>2 DEF TypeOK, saved
    <2>4. PendingInv' /\ CurInv'
      BY <2>1, <2>2 DEF PendingInv, CurInv, Closing, Serving, saved
    <2>5. OneConnection' /\ LockInv' /\ BlockedInv' /\ FreshInv'
      BY <2>1 DEF OneConnection, LockInv, BlockedInv, FreshInv, Fresh, saved
    <2>6. SavedAgree' /\ ValuesFollow'
      BY <2>1 DEF SavedAgree, ValuesFollow, saved
    <2> QED BY <2>3, <2>4, <2>5, <2>6
  <1>2. CASE client[c] \notin Blocked
    <2>1. /\ Dies(c)
          /\ client[c] \notin {"off", "dead"}
          /\ UNCHANGED <<killed, owner, conn, saved, mpc, cur, npc>>
      BY <1>2 DEF Kill, Blocked
    <2>2. /\ \A d \in Clients : client'[d] = IF d = c THEN "dead" ELSE client[d]
          /\ \A m \in pending' : \/ m \in pending /\ (m.from = c => m.kind = "unblock")
                                 \/ m.kind = "disconnect" /\ m.from = c
          /\ pending' \subseteq Messages
          /\ OneConnection' /\ PendingInv' /\ SavedAgree' /\ ValuesFollow'
      BY <2>1, Death
    <2> USE EventsAssumption DEF IInv
    <2>3. TypeOK'
      BY <2>1, <2>2 DEF TypeOK, Dies, saved
    <2>4. CurInv'
      <3>1. mpc # "receive" => cur.from \in Clients /\ cur.scoid \in Scoids
        BY DEF CurInv, Messages
      <3>2. mpc \in Serving \cup {"connect"} => mpc # "receive" /\ cur.from # c
        BY <1>2, <3>1 DEF CurInv, Serving, Blocked
      <3>3. mpc \in Closing => cur.from # c
        BY <2>1, <3>1 DEF CurInv, Closing
      <3>4. ASSUME mpc \in Closing, NEW m \in pending', m.kind = "disconnect"
            PROVE  m.scoid # cur.scoid
        <4>1. CASE m \in pending /\ m.from # c
          BY <3>4, <4>1 DEF CurInv
        <4>2. CASE m.from = c
          <5>1. conn'[m.scoid] = c
            BY <3>4, <4>2, <2>2 DEF PendingInv
          <5> QED BY <5>1, <2>1, <3>3, <3>4 DEF CurInv
        <4> QED BY <4>1, <4>2, <3>4, <2>2
      <3> QED BY <2>1, <2>2, <3>1, <3>2, <3>3, <3>4 DEF CurInv, Closing, Serving, saved
    <2>5. LockInv' /\ BlockedInv'
      BY <2>1, <2>2 DEF LockInv, BlockedInv, Blocked
    <2>6. FreshInv'
      BY <2>1, <2>2 DEF FreshInv, Fresh, Early, saved, Dies, TypeOK
    <2> QED BY <2>2, <2>3, <2>4, <2>5, <2>6
  <1> QED BY <1>1, <1>2

-----------------------------------------------------------------------------
(* The server's answers                                                    *)

LEMMA AnswerStep ==
    ASSUME IInv, NEW to \in {"opened", "listening", "dead"},
           mpc \in {"connect", "request", "reply"},
           to = "opened" => mpc = "connect",
           Answer(cur.from, to), mpc' = "receive", cur' = None,
           UNCHANGED <<owner, killed, conn, saved, npc>>
    PROVE  IInv'
  <1> DEFINE c == cur.from
  <1>1. c \in Clients /\ client[c] \in Blocked
    BY DEF IInv, CurInv, Messages, Serving, Blocked
  <1>2. \A d \in Clients : client[d] \in Blocked => d = c
    BY DEF IInv, BlockedInv
  <1>3. OneConnection' /\ PendingInv' /\ SavedAgree' /\ ValuesFollow'
        /\ pending' \subseteq Messages /\ inbox' \subseteq inbox
        /\ \E goal \in {"opened", "listening", "dead"} :
             /\ goal = "opened" => mpc = "connect" /\ last' = last
             /\ client' = [client EXCEPT ![c] = goal]
             /\ last' \in {last, [last EXCEPT ![c] = -1]}
    <2>1. CASE Dies(c)
      <3>1. client[c] \notin {"off", "dead"}
        BY <1>1 DEF Blocked
      <3>2. OneConnection' /\ PendingInv' /\ SavedAgree' /\ ValuesFollow'
            /\ pending' \subseteq Messages
        BY <1>1, <2>1, <3>1, Death
      <3> QED BY <2>1, <3>2 DEF Dies
    <2>2. CASE ~Dies(c)
      <3> USE EventsAssumption DEF IInv
      <3>1. /\ client' = [client EXCEPT ![c] = to] /\ to # "dead"
            /\ UNCHANGED <<pending, inbox, last>>
        BY <2>2 DEF Answer
      <3>2. \A d \in Clients : client'[d] = IF d = c THEN to ELSE client[d]
        BY <3>1 DEF TypeOK
      <3>3. OneConnection'
        BY <3>2, <1>1 DEF OneConnection, TypeOK, Blocked
      <3>4. PendingInv'
        <4>1. \A m \in pending : m.from \in Clients
          BY DEF TypeOK, Messages
        <4>2. \A m \in pending : m.kind # "unblock" => m.from # c
          BY <1>1 DEF PendingInv, Blocked
        <4> QED BY <3>1, <3>2, <4>1, <4>2 DEF PendingInv
      <3>5. SavedAgree'
        BY DEF SavedAgree, saved
      <3>6. ValuesFollow'
        BY <1>1, <3>1, <3>2 DEF ValuesFollow, saved, Blocked, TypeOK
      <3>7. pending' \subseteq Messages
        BY <3>1 DEF TypeOK
      <3> HIDE DEF IInv
      <3> QED BY <3>1, <3>3, <3>4, <3>5, <3>6, <3>7
    <2> QED BY <2>1, <2>2
  <1> USE EventsAssumption DEF IInv
  <1>4. PICK goal \in {"opened", "listening", "dead"} :
          /\ goal = "opened" => mpc = "connect" /\ last' = last
          /\ client' = [client EXCEPT ![c] = goal]
          /\ last' \in {last, [last EXCEPT ![c] = -1]}
    BY <1>3
  <1>5. \A d \in Clients : client'[d] = IF d = c THEN goal ELSE client[d]
    BY <1>4 DEF TypeOK
  <1>6. TypeOK'
    BY <1>1, <1>3, <1>4 DEF TypeOK, saved
  <1>7. LockInv' /\ CurInv' /\ BlockedInv'
    BY <1>2, <1>5 DEF LockInv, CurInv, BlockedInv, Closing, Serving, Blocked
  <1>8. FreshInv'
    <2> SUFFICES ASSUME NEW d \in Clients, Fresh(d)'
                 PROVE  saveRcvid # d /\ last'[d] = -1
      BY DEF FreshInv, saved
    <2>1. CASE d # c
      BY <1>4, <1>5, <2>1 DEF FreshInv, Fresh, TypeOK
    <2>2. CASE d = c
      <3>1. goal = "opened"
        BY <1>5, <2>2 DEF Fresh, Early
      <3>2. client[d] \in Early
        BY <1>4, <2>2, <3>1 DEF CurInv, Early
      <3> QED BY <1>4, <3>1, <3>2 DEF FreshInv, Fresh
    <2> QED BY <2>1, <2>2
  <1> QED BY <1>3, <1>6, <1>7, <1>8

LEMMA ReplySteps ==
    ASSUME IInv, Unblock \/ Other \/ Refuse \/ Reply PROVE IInv'
  <1>1. CASE Other
    BY <1>1, AnswerStep DEF Other
  <1>2. CASE Refuse
    BY <1>2, AnswerStep DEF Refuse
  <1>3. CASE Reply
    BY <1>3, AnswerStep DEF Reply
  <1>4. CASE Unblock
    <2> USE EventsAssumption DEF IInv
    <2>1. client[cur.from] \notin Blocked
      BY <1>4 DEF Unblock, CurInv, BlockedInv, Messages, Serving
    <2>2. /\ UNCHANGED <<owner, kernel, inbox, last, saved, npc>>
          /\ mpc = "unblock" /\ mpc' = "receive" /\ cur' = None
      BY <1>4, <2>1 DEF Unblock, Blocked, kernel
    <2>3. TypeOK'
      BY <2>2 DEF TypeOK, kernel, saved
    <2>4. OneConnection' /\ PendingInv' /\ SavedAgree' /\ ValuesFollow' /\ LockInv'
      BY <2>2 DEF OneConnection, PendingInv, SavedAgree, ValuesFollow, LockInv, kernel, saved
    <2>5. CurInv' /\ BlockedInv' /\ FreshInv'
      BY <2>2 DEF CurInv, BlockedInv, FreshInv, Fresh, Closing, Serving, kernel, saved
    <2> QED BY <2>3, <2>4, <2>5
  <1> QED BY <1>1, <1>2, <1>3, <1>4

-----------------------------------------------------------------------------
(* The other steps of the server                                           *)

LEMMA ReceiveStep == ASSUME IInv, Receive PROVE IInv'
  <1> USE EventsAssumption DEF IInv
  <1>1. PICK m \in pending :
          /\ cur' = m /\ pending' = pending \ {m} /\ mpc' = m.kind
          /\ client' = CASE m.kind = "connect" -> [client EXCEPT ![m.from] = "openReply"]
                         [] m.kind = "request" -> [client EXCEPT ![m.from] = "sendReply"]
                         [] OTHER -> client
    BY DEF Receive
  <1>2. /\ UNCHANGED <<owner, killed, conn, inbox, last, saved, npc>>
        /\ mpc = "receive"
    BY DEF Receive
  <1>3. m \in Messages /\ m.from \in Clients /\ m.scoid \in Scoids /\ m.kind \in Kinds
    BY DEF TypeOK, Messages
  <1> DEFINE new == CASE m.kind = "connect" -> "openReply"
                      [] m.kind = "request" -> "sendReply"
                      [] OTHER -> client[m.from]
  <1>4. \A d \in Clients : client'[d] = IF d = m.from THEN new ELSE client[d]
    <2>1. CASE m.kind = "connect"
      BY <1>1, <2>1 DEF TypeOK
    <2>2. CASE m.kind = "request"
      BY <1>1, <2>2 DEF TypeOK
    <2>3. CASE m.kind \notin {"connect", "request"}
      BY <1>1, <2>3 DEF TypeOK
    <2> QED BY <2>1, <2>2, <2>3
  <1>5. TypeOK'
    <2>1. client' \in [Clients -> {"off", "opening", "openReply", "opened",
                                   "sending", "sendReply", "listening", "dead"}]
      BY <1>1, <1>3 DEF TypeOK
    <2>2. /\ mpc' \in Kinds /\ cur' \in Messages /\ pending' \in SUBSET Messages
      BY <1>1, <1>3 DEF TypeOK
    <2> QED BY <1>2, <2>1, <2>2 DEF TypeOK, saved
  <1>6. \A n \in pending' : /\ n \in pending /\ n # m /\ n \in Messages
                           /\ n.from \in Clients /\ n.scoid \in Scoids /\ n.kind \in Kinds
    BY <1>1 DEF TypeOK, Messages
  <1>7. OneConnection'
    BY <1>2, <1>4 DEF OneConnection, TypeOK
  <1>8. PendingInv'
    <2> SUFFICES ASSUME NEW n \in pending', n.kind # "unblock"
                 PROVE  conn'[n.scoid] = n.from /\ client'[n.from] = client[n.from]
      BY <1>6 DEF PendingInv
    <2>1. conn[n.scoid] = n.from
      BY <1>6 DEF PendingInv
    <2>2. ASSUME n.from = m.from, m.kind \in {"connect", "request"} PROVE FALSE
      <3>1. n.kind = m.kind
        BY <1>3, <1>6, <2>2 DEF PendingInv, Kinds
      <3>2. n.scoid = m.scoid
        BY <1>3, <1>6, <2>1, <2>2 DEF PendingInv, OneConnection
      <3> QED BY <1>3, <1>6, <2>2, <3>1, <3>2, SameMessage
    <2> QED BY <1>2, <1>3, <1>4, <1>6, <2>1, <2>2
  <1>9. CurInv'
    <2>1. m.kind = "disconnect" => \A n \in pending' : n.kind = "disconnect" => n.scoid # m.scoid
      BY <1>3, <1>6, SameMessage DEF PendingInv
    <2>2. m.kind # "unblock" => conn'[m.scoid] = m.from
      BY <1>2 DEF PendingInv
    <2>3. m.kind = "disconnect" => client'[m.from] = "dead"
      BY <1>3, <1>4 DEF PendingInv
    <2> QED BY <1>1, <1>3, <1>4, <2>1, <2>2, <2>3 DEF CurInv, Closing, Serving, Kinds
  <1>10. LockInv'
    BY <1>1, <1>2, <1>3 DEF LockInv, Kinds
  <1>11. BlockedInv'
    BY <1>1, <1>2, <1>3, <1>4 DEF BlockedInv, Blocked, Serving, Kinds
  <1>12. FreshInv'
    <2> SUFFICES ASSUME NEW d \in Clients, Fresh(d)'
                 PROVE  saveRcvid # d /\ last[d] = -1
      BY <1>2 DEF FreshInv, saved
    <2>1. CASE d # m.from
      BY <1>1, <1>4, <2>1 DEF FreshInv, Fresh
    <2>2. CASE d = m.from
      <3>1. client[d] \in Early
        BY <1>1, <1>3, <1>4, <2>2 DEF Fresh, Early, PendingInv, Kinds
      <3> QED BY <3>1 DEF FreshInv, Fresh
    <2> QED BY <2>1, <2>2
  <1>13. SavedAgree'
    BY <1>2 DEF SavedAgree, saved
  <1>14. ValuesFollow'
    BY <1>2, <1>3, <1>4 DEF ValuesFollow, saved, PendingInv, TypeOK, FreshInv, Fresh, Early
  <1> QED BY <1>5, <1>7, <1>8, <1>9, <1>10, <1>11, <1>12, <1>13, <1>14

(* The registration of a dead client is cleared.                           *)
LEMMA ClearStep == ASSUME IInv, Clear PROVE IInv'
  <1> USE EventsAssumption DEF IInv, Clear, Unlock
  <1>1. /\ UNCHANGED <<client, killed, conn, pending, inbox, last, saveEvent, cur, npc>>
        /\ mpc = "clear" /\ mpc' = "detach" /\ owner = Main /\ owner' = Nobody
    BY DEF kernel
  <1>2. cur.scoid \in Scoids /\ cur \in Messages
    BY <1>1 DEF CurInv, Messages
  <1>3. \/ saveScoid = cur.scoid /\ saveScoid' = 0 /\ saveRcvid' = NoClient /\ notifyCount' = 0
        \/ saveScoid # cur.scoid /\ UNCHANGED <<saveScoid, saveRcvid, notifyCount>>
    OBVIOUS
  <1>4. TypeOK'
    BY <1>1, <1>3 DEF TypeOK
  <1>5. OneConnection' /\ PendingInv' /\ LockInv'
    BY <1>1 DEF OneConnection, PendingInv, LockInv, Main, Notifier
  <1>6. CurInv' /\ BlockedInv' /\ FreshInv'
    BY <1>1, <1>2, <1>3 DEF CurInv, BlockedInv, FreshInv, Fresh, Closing, Serving
  <1>7. SavedAgree' /\ ValuesFollow'
    BY <1>1, <1>3 DEF SavedAgree, ValuesFollow
  <1> QED BY <1>4, <1>5, <1>6, <1>7

(* The connection of a dead client is given back to the kernel.            *)
LEMMA DetachStep == ASSUME IInv, Detach PROVE IInv'
  <1> USE EventsAssumption DEF IInv, Detach
  <1>1. cur.scoid \in Scoids /\ conn[cur.scoid] = cur.from /\ client[cur.from] = "dead"
        /\ cur.from \in Clients /\ saveScoid # cur.scoid
    BY DEF CurInv, Closing, Messages
  <1>2. \A s \in Scoids : conn'[s] = IF s = cur.scoid THEN NoClient ELSE conn[s]
    BY <1>1 DEF TypeOK
  <1>3. TypeOK' /\ LockInv' /\ BlockedInv' /\ FreshInv' /\ ValuesFollow'
    <2>1. TypeOK'
      BY DEF TypeOK, saved
    <2>2. LockInv' /\ BlockedInv' /\ FreshInv' /\ ValuesFollow'
      BY DEF LockInv, BlockedInv, FreshInv, Fresh, ValuesFollow, saved, Serving
    <2> QED BY <2>1, <2>2
  <1>4. OneConnection'
    <2>1. \A s \in Scoids : conn'[s] # NoClient => conn'[s] = conn[s]
      BY <1>2
    <2>2. client' = client
      OBVIOUS
    <2>3. OneConnection
      OBVIOUS
    <2> HIDE DEF IInv, Detach
    <2> QED BY <2>1, <2>2, <2>3 DEF OneConnection
  <1>5. PendingInv'
    <2> SUFFICES ASSUME NEW m \in pending, m.kind # "unblock"
                 PROVE  m.scoid # cur.scoid /\ m.scoid \in Scoids
      BY <1>2 DEF PendingInv
    <2>1. m.scoid \in Scoids /\ m.kind \in Kinds
      BY DEF TypeOK, Messages
    <2>2. CASE m.kind = "disconnect"
      BY <2>1, <2>2 DEF CurInv, Closing
    <2>3. CASE m.kind # "disconnect"
      BY <1>1, <2>1, <2>3 DEF PendingInv, Kinds
    <2> QED BY <2>1, <2>2, <2>3
  <1>6. CurInv'
    BY DEF CurInv, Closing, Serving
  <1>7. SavedAgree'
    BY <1>1, <1>2 DEF SavedAgree, saved
  <1> QED BY <1>3, <1>4, <1>5, <1>6, <1>7

(* A client is registered.                                                 *)
LEMMA SaveStep == ASSUME IInv, Save PROVE IInv'
  <1> USE EventsAssumption DEF IInv, Save, Unlock
  <1>1. cur.from \in Clients /\ cur.scoid \in Scoids /\ conn[cur.scoid] = cur.from
        /\ client[cur.from] = "sendReply" /\ cur \in Messages
    BY DEF CurInv, Serving, Messages
  <1>2. last[cur.from] = -1
    BY <1>1 DEF FreshInv, Fresh
  <1>3. TypeOK'
    BY <1>1 DEF TypeOK, kernel
  <1>4. OneConnection' /\ PendingInv' /\ LockInv' /\ CurInv' /\ BlockedInv'
    BY <1>1 DEF OneConnection, PendingInv, LockInv, CurInv, BlockedInv, Closing, Serving,
                kernel, Main, Notifier
  <1>5. FreshInv'
    BY <1>1 DEF FreshInv, Fresh, Early, kernel
  <1>6. SavedAgree'
    BY <1>1 DEF SavedAgree, kernel
  <1>7. ValuesFollow'
    BY <1>2 DEF ValuesFollow
  <1> QED BY <1>3, <1>4, <1>5, <1>6, <1>7

(* The notify thread delivers the count, if anybody is registered.         *)
LEMMA DeliverStep == ASSUME IInv, Deliver PROVE IInv'
  <1> USE EventsAssumption DEF IInv
  <1>1. /\ UNCHANGED <<kernel, saveRcvid, saveEvent, saveScoid, mpc, cur>>
        /\ npc = "deliver" /\ npc' = "sleep" /\ owner = Notifier /\ owner' = Nobody
    BY DEF Deliver, Unlock
  <1>2. CASE saveRcvid = NoClient
    <2>1. UNCHANGED <<inbox, last, notifyCount>>
      BY <1>2 DEF Deliver
    <2>2. TypeOK'
      BY <1>1, <2>1 DEF TypeOK, kernel
    <2>3. OneConnection' /\ PendingInv' /\ LockInv' /\ CurInv' /\ BlockedInv'
      BY <1>1, <2>1 DEF OneConnection, PendingInv, LockInv, CurInv, BlockedInv, kernel, Main, Notifier
    <2>4. FreshInv' /\ SavedAgree' /\ ValuesFollow'
      BY <1>1, <2>1 DEF FreshInv, Fresh, SavedAgree, ValuesFollow, kernel
    <2> QED BY <2>2, <2>3, <2>4
  <1>3. CASE saveRcvid # NoClient
    <2>1. /\ saveRcvid \in Clients /\ saveEvent = saveRcvid
          /\ notifyCount \in 0 .. CountMod - 1
      BY <1>3 DEF TypeOK, SavedAgree
    <2>2. /\ notifyCount' = (notifyCount + 1) % CountMod
          /\ \/ client[saveRcvid] = "dead" /\ UNCHANGED <<inbox, last>>
             \/ /\ inbox' = inbox \cup {saveRcvid}
                /\ last' = [last EXCEPT ![saveRcvid] = notifyCount]
      BY <1>3, <2>1 DEF Deliver
    <2>3. notifyCount' \in 0 .. CountMod - 1
      BY <2>1, <2>2
    <2>4. inbox' \subseteq Clients /\ last' \in [Clients -> -1 .. CountMod - 1]
      BY <2>1, <2>2 DEF TypeOK
    <2>5. TypeOK'
      BY <1>1, <2>3, <2>4 DEF TypeOK, kernel
    <2>6. OneConnection' /\ PendingInv' /\ LockInv' /\ CurInv' /\ BlockedInv'
      BY <1>1 DEF OneConnection, PendingInv, LockInv, CurInv, BlockedInv, kernel, Main, Notifier
    <2>7. \A d \in Clients : d # saveRcvid => last'[d] = last[d]
      BY <2>2 DEF TypeOK
    <2>8. FreshInv'
      BY <1>1, <2>7 DEF FreshInv, Fresh, kernel
    <2>9. SavedAgree'
      BY <1>1, <1>3 DEF SavedAgree, kernel
    <2>10. ValuesFollow'
      <3>1. client[saveRcvid] = "dead" \/ last'[saveRcvid] = notifyCount
        BY <2>1, <2>2 DEF TypeOK
      <3> QED BY <1>1, <2>2, <3>1 DEF ValuesFollow, kernel
    <2> QED BY <2>5, <2>6, <2>8, <2>9, <2>10
  <1> QED BY <1>2, <1>3

LEMMA NextIInv == IInv /\ [Next]_vars => IInv'
  BY QuietSteps, OpenStep, RequestStep, KillStep, ReceiveStep, ClearStep, DetachStep,
     ReplySteps, SaveStep, DeliverStep DEF Next, Client, MainLoop, Notify

LEMMA Invariance == Spec => []IInv
  BY InitIInv, NextIInv, PTL DEF Spec

-----------------------------------------------------------------------------
(* Every variable keeps its type.                                          *)
THEOREM TypeCorrect == Spec => []TypeOK
  <1>1. IInv => TypeOK
    BY DEF IInv
  <1> QED BY <1>1, Invariance, PTL

(* The registration is that of one client, by a connection still its own,  *)
(* however many clients share the scoids over time.                        *)
THEOREM RegistrationConsistent == Spec => []SavedAgree
  <1>1. IInv => SavedAgree
    BY DEF IInv
  <1> QED BY <1>1, Invariance, PTL

(* The registered client is served consecutive values.                     *)
THEOREM ValuesConsecutive == Spec => []ValuesFollow
  <1>1. IInv => ValuesFollow
    BY DEF IInv
  <1> QED BY <1>1, Invariance, PTL

(* An unblock pulse never finds its client still waiting.                  *)
THEOREM UnblockHarmless == Spec => []UnblockComesLate
  <1>1. IInv => UnblockComesLate
    BY DEF IInv, CurInv, BlockedInv, UnblockComesLate, Blocked, Serving, Messages
  <1> QED BY <1>1, Invariance, PTL

(* A living client loses its registration to another client only.          *)
THEOREM RegistrationKept == Spec => RegisteredWhileAlive
  <1>1. IInv /\ [Next]_vars =>
          [saveRcvid' = NoClient /\ saveRcvid # NoClient => client[saveRcvid] = "dead"]_vars
    <2> SUFFICES ASSUME IInv, [Next]_vars, saveRcvid' = NoClient, saveRcvid # NoClient
                 PROVE  client[saveRcvid] = "dead"
      OBVIOUS
    <2>1. Clear \/ Save
      BY DEF Next, Client, MainLoop, Notify, vars, saved, Open, Kill, Request, Listen, Receive,
             MainLock, Detach, Unblock, Other, Refuse, Verify, Reply, Tick, NotifyLock, Deliver
    <2>2. CASE Clear
      BY <2>2 DEF Clear, IInv, SavedAgree, CurInv, Closing
    <2>3. CASE Save
      BY <2>3, EventsAssumption DEF Save, IInv, CurInv, Messages
    <2> QED BY <2>1, <2>2, <2>3
  <1> QED BY <1>1, Invariance, PTL DEF Spec, RegisteredWhileAlive
=============================================================================
