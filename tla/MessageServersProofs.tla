------------------------ MODULE MessageServersProofs ------------------------
(***************************************************************************)
(* Proofs about labs 18 to 21, for any number of clients of any labs and   *)
(* any operands.  What a client prints was decided when it read its        *)
(* command: the argument follows the command into the request, the request *)
(* into the queue, where a client has one message at most, and the message *)
(* to the server, that owes its reply to this client only.                 *)
(***************************************************************************)
EXTENDS MessageServers, SequenceTheorems, TLAPS

Doing == {"off", "command", "operand", "pulse", "request", "send", "reply", "done", "killed"}
Names == {"to_upper", "to_lower", "add", "sub", "mult", "div", "checksum"}
Messages == [what : {"message", "pulse", "unblock", "disconnect"}, from : Clients]
Requests == [type : Nat, operand : Operands \cup {None}]
Responses ==
    [status    : {"none", "ok", "zero", "unknown"},
     operation : Names \cup {"none"},
     operand   : Operands \cup {None}]

TypeOK ==
    /\ lab \in Labs
    /\ kind \in [Clients -> Labs]
    /\ client \in [Clients -> Doing]
    /\ command \in [Clients -> Names \cup {"exit", "something else"}]
    /\ req \in [Clients -> Requests]
    /\ printed \in [Clients -> Responses]
    /\ dying \in SUBSET Clients
    /\ queue \in Seq(Messages)
    /\ spc \in {"receive", "handle"} \cup Gone
    /\ cur \in Messages \cup {Nothing}
    /\ status \in {"none", "ok", "zero", "unknown"}

(* A client's message is in the queue while it is in MsgSend, once; lab    *)
(* 21's channel alone gets pulses of the kernel.                           *)
QueueInv ==
    /\ \A i \in 1 .. Len(queue) :
         /\ queue[i].what = "message" => client[queue[i].from] = "send"
         /\ queue[i].what \in {"unblock", "disconnect"} => lab = 21
    /\ \A i, j \in 1 .. Len(queue) :
         queue[i].what = "message" /\ queue[j] = queue[i] => i = j

(* The request is for the command, and the response of the command before  *)
(* is gone before anything of the request is written.                      *)
Asked(c) ==
    /\ req[c].type \in DOMAIN Operations(kind[c])
    /\ Operations(kind[c])[req[c].type] = command[c]

Answer(c) ==
    Matches(c) /\ printed[c] # NoResponse =>
        IF Divided(c) THEN printed[c].status = "zero"
        ELSE printed[c] = Response("ok", command[c], req[c].operand)

ClientInv(c) ==
    /\ kind[c] \in {18, 19} =>
         /\ client[c] \notin {"pulse", "request"}
         /\ client[c] \in {"operand"} \cup Waiting => Asked(c)
    /\ kind[c] \in {20, 21} =>
         /\ client[c] \notin {"command", "operand"}
         /\ client[c] # "off" => command[c] = "checksum"
    /\ Matches(c) /\ client[c] \notin {"command"} \cup Over => printed[c] = NoResponse
    /\ Answer(c)
    /\ c \in dying => lab = 21 /\ client[c] = "reply"

(* The client whose message is handled waits for the reply, or was killed. *)
(* Nobody else waits for one, but for lab 21's unknown messages.           *)
ServerInv ==
    /\ spc \in {"handle", "exited"} => cur \in Messages
    /\ cur.what \in {"unblock", "disconnect"} => lab = 21
    /\ spc = "handle" /\ cur.what = "message" =>
         client[cur.from] = "reply" \/ (lab # 21 /\ client[cur.from] = "killed")
    /\ \A c \in Clients : client[c] = "reply" =>
         \/ spc = "handle" /\ cur = [what |-> "message", from |-> c]
         \/ lab = 21 /\ ~Known(req[c].type)
    /\ EndsOnlyExplained

IInv == TypeOK /\ QueueInv /\ (\A c \in Clients : ClientInv(c)) /\ ServerInv

-----------------------------------------------------------------------------
(* The operators of the model                                              *)

LEMMA OperationsAre ==
    /\ DOMAIN Operations(18) = 1 .. 2 /\ DOMAIN Operations(19) = 1 .. 4
    /\ DOMAIN Operations(20) = 1 .. 1 /\ DOMAIN Operations(21) = 1 .. 1
    /\ Operations(18)[1] = "to_upper" /\ Operations(18)[2] = "to_lower"
    /\ Operations(19)[1] = "add" /\ Operations(19)[2] = "sub"
    /\ Operations(19)[3] = "mult" /\ Operations(19)[4] = "div"
    /\ Operations(20)[1] = "checksum" /\ Operations(21)[1] = "checksum"
  BY DEF Operations

LEMMA OperationNames ==
    ASSUME NEW l \in Labs, NEW i \in DOMAIN Operations(l)
    PROVE  i \in Nat \ {0} /\ Operations(l)[i] \in Names
  BY OperationsAre DEF Labs, Names

(* The type of a command is 0, or that of the operation of its name.       *)
LEMMA TypeOfNameIs ==
    ASSUME NEW l \in Labs, NEW line \in Lines(l)
    PROVE  /\ TypeOfName(l, line) \in Nat
           /\ line \in Names \cup {"exit", "something else"}
           /\ TypeOfName(l, line) # 0 =>
                /\ TypeOfName(l, line) \in DOMAIN Operations(l)
                /\ Operations(l)[TypeOfName(l, line)] = line
  <1>1. ToSet(Operations(l)) = {Operations(l)[i] : i \in DOMAIN Operations(l)}
    BY DEF ToSet
  <1>2. line \in Names \cup {"exit", "something else"}
    BY <1>1, OperationNames DEF Lines
  <1>3. CASE line \in ToSet(Operations(l))
    <2> DEFINE type == CHOOSE i \in DOMAIN Operations(l) : Operations(l)[i] = line
    <2>1. type \in DOMAIN Operations(l) /\ Operations(l)[type] = line
      BY <1>1, <1>3
    <2>2. TypeOfName(l, line) = type
      BY <1>3 DEF TypeOfName
    <2> QED BY <1>2, <2>1, <2>2, OperationNames
  <1>4. CASE line \notin ToSet(Operations(l))
    BY <1>2, <1>4 DEF TypeOfName
  <1> QED BY <1>3, <1>4

LEMMA RemoveAtIs ==
    ASSUME NEW S, NEW s \in Seq(S), NEW i \in 1 .. Len(s)
    PROVE  /\ RemoveAt(s, i) \in Seq(S)
           /\ Len(RemoveAt(s, i)) = Len(s) - 1
           /\ \A j \in 1 .. Len(s) - 1 :
                RemoveAt(s, i)[j] = IF j < i THEN s[j] ELSE s[j + 1]
  <1>1. /\ SubSeq(s, 1, i - 1) \in Seq(S) /\ Len(SubSeq(s, 1, i - 1)) = i - 1
        /\ SubSeq(s, i + 1, Len(s)) \in Seq(S) /\ Len(SubSeq(s, i + 1, Len(s))) = Len(s) - i
        /\ \A j \in 1 .. i - 1 : SubSeq(s, 1, i - 1)[j] = s[j]
        /\ \A j \in 1 .. Len(s) - i : SubSeq(s, i + 1, Len(s))[j] = s[i + j]
    OBVIOUS
  <1> DEFINE a == SubSeq(s, 1, i - 1)
             b == SubSeq(s, i + 1, Len(s))
  <1> HIDE DEF a, b
  <1>2. /\ a \o b \in Seq(S) /\ Len(a \o b) = Len(a) + Len(b)
        /\ \A j \in 1 .. Len(a) + Len(b) :
             (a \o b)[j] = IF j <= Len(a) THEN a[j] ELSE b[j - Len(a)]
    BY <1>1, ConcatProperties DEF a, b
  <1>3. RemoveAt(s, i) = a \o b
    BY DEF RemoveAt, a, b
  <1>4. /\ Len(a) = i - 1 /\ Len(b) = Len(s) - i
        /\ \A j \in 1 .. i - 1 : a[j] = s[j]
        /\ \A j \in 1 .. Len(s) - i : b[j] = s[i + j]
    BY <1>1 DEF a, b
  <1>6. Len(a) + Len(b) = Len(s) - 1
    BY <1>4
  <1>7. ASSUME NEW j \in 1 .. Len(s) - 1
        PROVE  (a \o b)[j] = IF j < i THEN s[j] ELSE s[j + 1]
    <2>1. CASE j < i
      BY <1>2, <1>4, <1>6, <2>1
    <2>2. CASE ~(j < i)
      <3>1. (a \o b)[j] = b[j - (i - 1)] /\ j - (i - 1) \in 1 .. Len(s) - i
        BY <1>2, <1>4, <1>6, <2>2
      <3>2. i + (j - (i - 1)) = j + 1
        OBVIOUS
      <3> QED BY <1>4, <2>2, <3>1, <3>2
    <2> QED BY <2>1, <2>2
  <1> QED BY <1>2, <1>3, <1>6, <1>7

(* What is left of the queue is of other clients, in the order it had.     *)
LEMMA AfterEndIs ==
    ASSUME IInv, NEW c \in Clients
    PROVE  /\ AfterEnd(c) \in Seq(Messages)
           /\ \A i \in 1 .. Len(AfterEnd(c)) :
                \/ lab = 21 /\ AfterEnd(c)[i] = [what |-> "disconnect", from |-> c]
                \/ /\ AfterEnd(c)[i] # [what |-> "message", from |-> c]
                   /\ \E k \in 1 .. Len(queue) : AfterEnd(c)[i] = queue[k]
           /\ \A i, j \in 1 .. Len(AfterEnd(c)) :
                AfterEnd(c)[i].what = "message" /\ AfterEnd(c)[j] = AfterEnd(c)[i] => i = j
  <1>0. lab \in Labs /\ queue \in Seq(Messages) /\ QueueInv
    BY DEF IInv, TypeOK
  <1> DEFINE mine == [what |-> "message", from |-> c]
             own  == {i \in DOMAIN queue : queue[i] = mine}
             left == IF own = {} THEN queue ELSE RemoveAt(queue, CHOOSE i \in own : TRUE)
             gone == [what |-> "disconnect", from |-> c]
  <1>1. /\ left \in Seq(Messages)
        /\ \A i \in 1 .. Len(left) :
             left[i] # mine /\ \E k \in 1 .. Len(queue) : left[i] = queue[k]
        /\ \A i, j \in 1 .. Len(left) :
             left[i].what = "message" /\ left[j] = left[i] => i = j
    <2>1. CASE own = {}
      BY <1>0, <2>1 DEF QueueInv
    <2>2. CASE own # {}
      <3>1. PICK n \in own : n = CHOOSE i \in own : TRUE
        BY <2>2
      <3>2. n \in 1 .. Len(queue) /\ queue[n] = mine
        BY <1>0, <3>1
      <3>3. /\ left \in Seq(Messages) /\ Len(left) = Len(queue) - 1
            /\ \A j \in 1 .. Len(queue) - 1 :
                 left[j] = IF j < n THEN queue[j] ELSE queue[j + 1]
        BY <1>0, <2>2, <3>1, <3>2, RemoveAtIs
      <3> HIDE DEF left, own
      <3> DEFINE old(j) == IF j < n THEN j ELSE j + 1
      <3>4. \A j \in 1 .. Len(left) :
              old(j) \in 1 .. Len(queue) /\ old(j) # n /\ left[j] = queue[old(j)]
        BY <3>2, <3>3
      <3>5. \A i, j \in 1 .. Len(left) : old(i) = old(j) => i = j
        BY <3>2, <3>3
      <3> HIDE DEF old
      <3>6. \A k \in 1 .. Len(queue) : queue[k] = mine => k = n
        BY <1>0, <3>2 DEF QueueInv
      <3>7. ASSUME NEW i \in 1 .. Len(left), NEW j \in 1 .. Len(left),
                   left[i].what = "message", left[j] = left[i]
            PROVE  i = j
        BY <1>0, <3>4, <3>5, <3>7 DEF QueueInv
      <3>8. \A i \in 1 .. Len(left) :
              left[i] # mine /\ \E k \in 1 .. Len(queue) : left[i] = queue[k]
        BY <3>4, <3>6
      <3> QED BY <3>3, <3>7, <3>8
    <2> QED BY <2>1, <2>2
  <1>2. AfterEnd(c) = IF lab = 21 /\ c \in attached /\ spc \notin Gone
                      THEN Append(left, gone) ELSE left
    BY DEF AfterEnd
  <1> HIDE DEF left
  <1>3. gone \in Messages /\ gone.what # "message"
    BY DEF Messages
  <1>4. CASE ~(lab = 21 /\ c \in attached /\ spc \notin Gone)
    BY <1>1, <1>2, <1>4
  <1>5. CASE lab = 21 /\ c \in attached /\ spc \notin Gone
    <2>1. /\ AfterEnd(c) \in Seq(Messages) /\ Len(AfterEnd(c)) = Len(left) + 1
          /\ \A i \in 1 .. Len(left) : AfterEnd(c)[i] = left[i]
          /\ AfterEnd(c)[Len(left) + 1] = gone
      BY <1>1, <1>2, <1>3, <1>5
    <2>2. \A i \in 1 .. Len(AfterEnd(c)) : i \in 1 .. Len(left) \/ i = Len(left) + 1
      BY <1>1, <2>1
    <2>3. ASSUME NEW i \in 1 .. Len(AfterEnd(c))
          PROVE  \/ lab = 21 /\ AfterEnd(c)[i] = gone
                 \/ AfterEnd(c)[i] # mine /\ \E k \in 1 .. Len(queue) : AfterEnd(c)[i] = queue[k]
      BY <1>1, <1>5, <2>1, <2>2
    <2>4. ASSUME NEW i \in 1 .. Len(AfterEnd(c)), NEW j \in 1 .. Len(AfterEnd(c)),
                 AfterEnd(c)[i].what = "message", AfterEnd(c)[j] = AfterEnd(c)[i]
          PROVE  i = j
      <3>1. i \in 1 .. Len(left) /\ j \in 1 .. Len(left)
        BY <1>3, <2>1, <2>2, <2>4
      <3> QED BY <1>1, <2>1, <2>4, <3>1
    <2> QED BY <2>1, <2>3, <2>4
  <1> QED BY <1>4, <1>5

-----------------------------------------------------------------------------
(* The queue                                                               *)

LEMMA QueuePost ==
    ASSUME IInv, NEW c \in Clients, NEW what \in {"message", "pulse", "unblock"},
           Post(what, c), lab' = lab,
           what = "unblock" => lab = 21,
           what = "message" => client'[c] = "send",
           client[c] # "send",
           \A d \in Clients \ {c} : client'[d] = client[d]
    PROVE  queue' \in Seq(Messages) /\ QueueInv'
  <1> DEFINE new == [what |-> what, from |-> c]
  <1>1. queue \in Seq(Messages) /\ QueueInv /\ new \in Messages
    BY DEF IInv, TypeOK, Messages
  <1>2. /\ queue' \in Seq(Messages) /\ Len(queue') = Len(queue) + 1
        /\ \A i \in 1 .. Len(queue) : queue'[i] = queue[i]
        /\ queue'[Len(queue) + 1] = new
    BY <1>1 DEF Post
  <1>3. \A i \in 1 .. Len(queue') : i \in 1 .. Len(queue) \/ i = Len(queue) + 1
    BY <1>1, <1>2
  <1>4. \A i \in 1 .. Len(queue) :
          queue[i] \in Messages /\ (queue[i].what = "message" => queue[i].from # c)
    BY <1>1 DEF QueueInv
  <1>5. ASSUME NEW i \in 1 .. Len(queue')
        PROVE  /\ queue'[i].what = "message" => client'[queue'[i].from] = "send"
               /\ queue'[i].what \in {"unblock", "disconnect"} => lab' = 21
    <2>1. CASE i \in 1 .. Len(queue)
      BY <1>1, <1>2, <1>4, <2>1 DEF QueueInv, Messages
    <2>2. CASE i = Len(queue) + 1
      BY <1>2, <2>2
    <2> QED BY <1>3, <2>1, <2>2
  <1>6. ASSUME NEW i \in 1 .. Len(queue'), NEW j \in 1 .. Len(queue'),
               queue'[i].what = "message", queue'[j] = queue'[i]
        PROVE  i = j
    <2>1. i \in 1 .. Len(queue) <=> j \in 1 .. Len(queue)
      BY <1>2, <1>3, <1>4, <1>6
    <2> QED BY <1>1, <1>2, <1>3, <1>6, <2>1 DEF QueueInv
  <1> QED BY <1>2, <1>5, <1>6 DEF QueueInv

LEMMA QueueAfterEnd ==
    ASSUME IInv, NEW c \in Clients, queue' = AfterEnd(c), lab' = lab,
           \A d \in Clients \ {c} : client'[d] = client[d]
    PROVE  queue' \in Seq(Messages) /\ QueueInv'
  <1>1. queue \in Seq(Messages) /\ QueueInv
    BY DEF IInv, TypeOK
  <1>2. /\ queue' \in Seq(Messages)
        /\ \A i \in 1 .. Len(queue') :
             \/ lab = 21 /\ queue'[i] = [what |-> "disconnect", from |-> c]
             \/ /\ queue'[i] # [what |-> "message", from |-> c]
                /\ \E k \in 1 .. Len(queue) : queue'[i] = queue[k]
        /\ \A i, j \in 1 .. Len(queue') :
             queue'[i].what = "message" /\ queue'[j] = queue'[i] => i = j
    BY AfterEndIs
  <1>3. ASSUME NEW i \in 1 .. Len(queue')
        PROVE  /\ queue'[i].what = "message" => client'[queue'[i].from] = "send"
               /\ queue'[i].what \in {"unblock", "disconnect"} => lab' = 21
    <2>1. CASE lab = 21 /\ queue'[i] = [what |-> "disconnect", from |-> c]
      BY <2>1
    <2>2. ASSUME queue'[i] # [what |-> "message", from |-> c],
                 NEW k \in 1 .. Len(queue), queue'[i] = queue[k]
          PROVE  /\ queue'[i].what = "message" => client'[queue'[i].from] = "send"
                 /\ queue'[i].what \in {"unblock", "disconnect"} => lab' = 21
      <3>1. queue[k] \in Messages
        BY <1>1
      <3>2. queue[k].what = "message" => queue[k].from \in Clients \ {c}
        BY <2>2, <3>1 DEF Messages
      <3> QED BY <1>1, <2>2, <3>2 DEF QueueInv
    <2> QED BY <1>2, <2>1, <2>2
  <1> QED BY <1>2, <1>3 DEF QueueInv

LEMMA QueueSame ==
    ASSUME IInv, UNCHANGED <<queue, lab>>,
           \A d \in Clients : client[d] = "send" => client'[d] = "send"
    PROVE  queue' \in Seq(Messages) /\ QueueInv'
  <1>1. queue \in Seq(Messages) /\ QueueInv
    BY DEF IInv, TypeOK
  <1>2. \A i \in 1 .. Len(queue) : queue[i] \in Messages
    BY <1>1
  <1> QED BY <1>1, <1>2 DEF QueueInv, Messages

LEMMA QueueTail ==
    ASSUME IInv, queue # <<>>, queue' = Tail(queue), lab' = lab,
           client' = IF Head(queue).what = "message"
                     THEN [client EXCEPT ![Head(queue).from] = "reply"] ELSE client
    PROVE  queue' \in Seq(Messages) /\ QueueInv'
  <1>1. queue \in Seq(Messages) /\ QueueInv /\ client \in [Clients -> Doing]
    BY DEF IInv, TypeOK
  <1>2. /\ queue' \in Seq(Messages) /\ Len(queue') = Len(queue) - 1
        /\ \A i \in 1 .. Len(queue') : queue'[i] = queue[i + 1] /\ i + 1 \in 1 .. Len(queue)
        /\ Head(queue) = queue[1] /\ Len(queue) \in Nat /\ 1 \in 1 .. Len(queue)
    BY <1>1
  <1>3. \A i \in 1 .. Len(queue) : queue[i] \in Messages
    BY <1>1
  <1>4. ASSUME NEW i \in 1 .. Len(queue'), queue'[i].what = "message"
        PROVE  client'[queue'[i].from] = "send"
    <2>1. client[queue'[i].from] = "send" /\ queue'[i].from \in Clients
      BY <1>1, <1>2, <1>3, <1>4 DEF QueueInv, Messages
    <2>2. queue[1].what = "message" => queue[1].from # queue'[i].from
      <3>1. SUFFICES ASSUME queue[1].what = "message", queue[1].from = queue'[i].from
                     PROVE  FALSE
        OBVIOUS
      <3>2. queue[i + 1] = queue[1]
        BY <1>2, <1>3, <1>4, <3>1 DEF Messages
      <3> QED BY <1>1, <1>2, <3>1, <3>2 DEF QueueInv
    <2> QED BY <1>1, <1>2, <2>1, <2>2
  <1>5. \A i \in 1 .. Len(queue') : queue'[i].what \in {"unblock", "disconnect"} => lab' = 21
    BY <1>1, <1>2 DEF QueueInv
  <1>6. ASSUME NEW i \in 1 .. Len(queue'), NEW j \in 1 .. Len(queue'),
               queue'[i].what = "message", queue'[j] = queue'[i]
        PROVE  i = j
    <2>1. i + 1 = j + 1
      BY <1>1, <1>2, <1>6 DEF QueueInv
    <2> QED BY <1>2, <2>1
  <1> QED BY <1>2, <1>4, <1>5, <1>6 DEF QueueInv

-----------------------------------------------------------------------------
(* The clients                                                             *)

(* A step that is of nobody but c leaves what holds for the others.        *)
OnlyOf(c) ==
    /\ UNCHANGED choice
    /\ \A d \in Clients \ {c} :
         /\ client'[d] = client[d] /\ command'[d] = command[d]
         /\ req'[d] = req[d] /\ printed'[d] = printed[d]
         /\ d \in dying' => d \in dying

LEMMA OtherClients ==
    ASSUME IInv, NEW c \in Clients, OnlyOf(c)
    PROVE  \A d \in Clients \ {c} : ClientInv(d)'
  <1> SUFFICES ASSUME NEW d \in Clients \ {c} PROVE ClientInv(d)'
    OBVIOUS
  <1>1. ClientInv(d)
    BY DEF IInv
  <1> QED BY <1>1 DEF OnlyOf, choice, ClientInv, Asked, Answer, Matches, Divided

LEMMA ServerStays ==
    ASSUME IInv, NEW c \in Clients, OnlyOf(c), UNCHANGED server,
           client'[c] = "reply" => client[c] = "reply" /\ req'[c] = req[c],
           client[c] = "reply" => client'[c] = "reply" \/ (lab # 21 /\ client'[c] = "killed"),
           client[c] = "killed" => client'[c] = "killed"
    PROVE  ServerInv'
  <1> USE DEF IInv, TypeOK, ServerInv, OnlyOf, choice, server
  <1>1. cur.what = "message" /\ spc \in {"handle", "exited"} => cur.from \in Clients
    BY DEF Messages
  <1>2. /\ spc' \in {"handle", "exited"} => cur' \in Messages
        /\ cur'.what \in {"unblock", "disconnect"} => lab' = 21
    BY DEF Messages
  <1>3. spc' = "handle" /\ cur'.what = "message" =>
          client'[cur'.from] = "reply" \/ (lab' # 21 /\ client'[cur'.from] = "killed")
    BY <1>1
  <1>4. \A d \in Clients : client'[d] = "reply" => client[d] = "reply" /\ req'[d] = req[d]
    OBVIOUS
  <1>5. \A d \in Clients : client'[d] = "reply" =>
          \/ spc' = "handle" /\ cur' = [what |-> "message", from |-> d]
          \/ lab' = 21 /\ ~Known(req[d].type)'
    BY <1>4 DEF Known
  <1>6. EndsOnlyExplained'
    BY <1>1 DEF EndsOnlyExplained
  <1> QED BY <1>2, <1>3, <1>5, <1>6

LEMMA StartStep == ASSUME IInv, NEW c \in Clients, Start(c) PROVE IInv'
  <1>0. TypeOK /\ ClientInv(c)
    BY DEF IInv
  <1>1. /\ OnlyOf(c) /\ UNCHANGED server /\ UNCHANGED dying
        /\ client[c] = "off" /\ kind[c] \in Labs /\ UNCHANGED printed
    BY <1>0 DEF TypeOK, Start, Goto, OnlyOf, choice
  <1>2. PICK to \in {"send", "command", "pulse"} :
          /\ client' = [client EXCEPT ![c] = to]
          /\ to = "send" => kind[c] = 21 /\ Post("message", c)
          /\ to # "send" => UNCHANGED queue
          /\ to = "command" <=> kind[c] \in {18, 19}
    <2>1. CASE kind[c] = 21 /\ asksOpen
      <3>1. client' = [client EXCEPT ![c] = "send"] /\ Post("message", c)
        BY <2>1 DEF Start, Goto
      <3> QED BY <2>1, <3>1
    <2>2. CASE ~(kind[c] = 21 /\ asksOpen)
      <3>1. (IF kind[c] \in {18, 19} THEN "command" ELSE "pulse") \in {"command", "pulse"}
        OBVIOUS
      <3> QED BY <2>2, <3>1 DEF Start, Goto
    <2> QED BY <2>1, <2>2
  <1>3. /\ client' \in [Clients -> Doing]
        /\ client'[c] = to
    <2>1. to \in Doing
      BY DEF Doing
    <2> QED BY <1>0, <1>2, <2>1 DEF TypeOK
  <1>4. /\ command' \in [Clients -> Names \cup {"exit", "something else"}]
        /\ req' \in [Clients -> Requests]
        /\ kind[c] \in {20, 21} => command'[c] = "checksum"
    <2>1. CASE kind[c] \in {18, 19}
      <3>1. UNCHANGED <<command, req>>
        BY <2>1 DEF Start
      <3>2. kind[c] \notin {20, 21}
        BY <2>1
      <3> QED BY <1>0, <3>1, <3>2 DEF TypeOK
    <2>2. CASE kind[c] \notin {18, 19}
      <3>1. PICK x \in Operands :
              /\ command' = [command EXCEPT ![c] = "checksum"]
              /\ req' = [req EXCEPT ![c] = [type |-> ConnectType, operand |-> x]]
        BY <2>2 DEF Start
      <3>2. "checksum" \in Names /\ [type |-> ConnectType, operand |-> x] \in Requests
        BY DEF Names, Requests, ConnectType
      <3> QED BY <1>0, <3>1, <3>2 DEF TypeOK
    <2> QED BY <2>1, <2>2
  <1>5. queue' \in Seq(Messages) /\ QueueInv'
    <2>1. CASE client'[c] = "send"
      BY <1>1, <1>2, <1>3, <2>1, QueuePost DEF OnlyOf, choice
    <2>2. CASE client'[c] # "send"
      BY <1>1, <1>2, <1>3, <2>2, QueueSame DEF OnlyOf, choice
    <2> QED BY <2>1, <2>2
  <1>6. ClientInv(c)'
    <2>1. (Matches(c) => printed[c] = NoResponse) /\ c \notin dying
      BY <1>0, <1>1 DEF ClientInv, Over
    <2>2. kind'[c] = kind[c] /\ (Matches(c)' <=> Matches(c)) /\ c \notin dying'
      BY <1>1, <2>1 DEF OnlyOf, choice, Matches
    <2>3. kind[c] \in {18, 19} => client'[c] = "command"
      BY <1>2, <1>3
    <2>4. kind[c] \in {20, 21} => client'[c] \in {"send", "pulse"}
      BY <1>2, <1>3
    <2> QED BY <1>1, <1>4, <2>1, <2>2, <2>3, <2>4 DEF ClientInv, Answer, Over, Waiting
  <1>7. ServerInv'
    BY <1>1, <1>2, <1>3, ServerStays
  <1> QED BY <1>0, <1>1, <1>3, <1>4, <1>5, <1>6, <1>7, OtherClients
          DEF IInv, TypeOK, OnlyOf, choice, server

LEMMA SendSteps ==
    ASSUME IInv, NEW c \in Clients, Ask(c) \/ SendPulse(c) \/ AskChecksum(c)
    PROVE  IInv'
  <1>0. TypeOK /\ ClientInv(c)
    BY DEF IInv
  <1>1. /\ OnlyOf(c) /\ UNCHANGED server /\ UNCHANGED <<dying, command, printed>>
        /\ (Matches(c)' <=> Matches(c)) /\ kind'[c] = kind[c]
    BY <1>0 DEF TypeOK, Ask, SendPulse, AskChecksum, SendOr, Goto, OnlyOf, choice, Matches
  <1>2. PICK from \in {"operand", "pulse", "request"}, what \in {"message", "pulse"},
             to \in {"send", "request"} :
          /\ SendOr(c, from, what, to)
          /\ what = "message" => to = "send"
          /\ from = "operand" => to = "send"
    BY DEF Ask, SendPulse, AskChecksum
  <1>3. PICK next \in {to, "done"} :
          /\ client[c] = from /\ client' = [client EXCEPT ![c] = next]
          /\ IF next = to THEN Post(what, c) ELSE UNCHANGED queue
    BY <1>2 DEF SendOr, Goto
  <1>4. client' \in [Clients -> Doing] /\ client'[c] = next
    <2>1. next \in Doing
      BY DEF Doing
    <2> QED BY <1>0, <1>3, <2>1 DEF TypeOK
  <1>5. /\ req' \in [Clients -> Requests]
        /\ client[c] = "operand" => req'[c].type = req[c].type
    <2>1. CASE Ask(c)
      <3>1. PICK x \in Operands : req' = [req EXCEPT ![c].operand = x]
        BY <2>1 DEF Ask
      <3> QED BY <1>0, <3>1 DEF TypeOK, Requests
    <2>2. CASE SendPulse(c)
      BY <1>0, <2>2 DEF TypeOK, SendPulse
    <2>3. CASE AskChecksum(c)
      <3>1. req' = [req EXCEPT ![c].type = 1] /\ client[c] = "request"
        BY <2>3 DEF AskChecksum, SendOr, Goto
      <3> QED BY <1>0, <3>1 DEF TypeOK, Requests
    <2> QED BY <2>1, <2>2, <2>3
  <1>6. queue' \in Seq(Messages) /\ QueueInv'
    <2>1. CASE next = to
      BY <1>1, <1>2, <1>3, <1>4, <2>1, QueuePost DEF OnlyOf, choice
    <2>2. CASE next # to
      BY <1>1, <1>3, <1>4, <2>2, QueueSame DEF OnlyOf, choice
    <2> QED BY <2>1, <2>2
  <1>7. ClientInv(c)'
    <2>1. (Matches(c) => printed[c] = NoResponse) /\ c \notin dying
      BY <1>0, <1>3 DEF ClientInv, Over
    <2>2. kind[c] \in {18, 19} =>
            /\ client'[c] \in {"send", "done"}
            /\ client'[c] = "send" => Asked(c)'
      <3>1. SUFFICES ASSUME kind[c] \in {18, 19} PROVE from = "operand" /\ Asked(c)
        BY <1>1, <1>2, <1>3, <1>4, <1>5 DEF Asked
      <3> QED BY <1>0, <1>3, <3>1 DEF ClientInv
    <2>3. kind[c] \in {20, 21} =>
            client'[c] \in {"send", "request", "done"} /\ command[c] = "checksum"
      BY <1>0, <1>3, <1>4 DEF ClientInv
    <2> QED BY <1>1, <2>1, <2>2, <2>3 DEF ClientInv, Answer, Over, Waiting
  <1>8. ServerInv'
    BY <1>1, <1>3, <1>4, ServerStays
  <1> QED BY <1>0, <1>1, <1>4, <1>5, <1>6, <1>7, <1>8, OtherClients
          DEF IInv, TypeOK, OnlyOf, choice, server

LEMMA ReadCommandStep == ASSUME IInv, NEW c \in Clients, ReadCommand(c) PROVE IInv'
  <1>0. TypeOK /\ ClientInv(c)
    BY DEF IInv
  <1>1. PICK line \in Lines(kind[c]) :
          LET type == TypeOfName(kind[c], line)
          IN  /\ Goto(c, "command", IF line = "exit" THEN "done"
                                    ELSE IF type = 0 THEN "command" ELSE "operand")
              /\ command' = [command EXCEPT ![c] = line]
              /\ req' = [req EXCEPT ![c].type = type]
              /\ printed' = [printed EXCEPT ![c] = NoResponse]
              /\ queue' = IF line = "exit" THEN AfterEnd(c) ELSE queue
              /\ UNCHANGED <<choice, dying, attached, server>>
    BY DEF ReadCommand
  <1> DEFINE type == TypeOfName(kind[c], line)
  <1>2. /\ type \in Nat /\ line \in Names \cup {"exit", "something else"}
        /\ type # 0 => type \in DOMAIN Operations(kind[c]) /\ Operations(kind[c])[type] = line
    BY <1>0, TypeOfNameIs DEF TypeOK
  <1>3. PICK next \in {"done", "command", "operand"} :
          /\ client[c] = "command" /\ client' = [client EXCEPT ![c] = next]
          /\ next = "operand" => type # 0
          /\ line = "exit" => next = "done"
    <2> HIDE DEF type
    <2> DEFINE to == IF line = "exit" THEN "done" ELSE IF type = 0 THEN "command" ELSE "operand"
    <2>1. client[c] = "command" /\ client' = [client EXCEPT ![c] = to]
      BY <1>1 DEF Goto, type
    <2>2. /\ to \in {"done", "command", "operand"}
          /\ to = "operand" => type # 0
          /\ line = "exit" => to = "done"
      OBVIOUS
    <2> HIDE DEF to
    <2> QED BY <2>1, <2>2
  <1> HIDE DEF type
  <1>4. /\ command' = [command EXCEPT ![c] = line]
        /\ req' = [req EXCEPT ![c].type = type]
        /\ printed' = [printed EXCEPT ![c] = NoResponse]
        /\ queue' = AfterEnd(c) \/ queue' = queue
        /\ UNCHANGED <<choice, dying, server>>
    BY <1>1 DEF type
  <1>5. client' \in [Clients -> Doing] /\ client'[c] = next
    <2>1. next \in Doing
      BY DEF Doing
    <2> QED BY <1>0, <1>3, <2>1 DEF TypeOK
  <1>6. /\ req' \in [Clients -> Requests] /\ req'[c].type = type
        /\ command' \in [Clients -> Names \cup {"exit", "something else"}] /\ command'[c] = line
        /\ printed' \in [Clients -> Responses] /\ printed'[c] = NoResponse
    <2>1. NoResponse \in Responses
      BY DEF NoResponse, Response, Responses
    <2>2. req' \in [Clients -> Requests] /\ req'[c].type = type
      BY <1>0, <1>2, <1>4 DEF TypeOK, Requests
    <2> QED BY <1>0, <1>2, <1>4, <2>1, <2>2 DEF TypeOK
  <1>7. /\ OnlyOf(c) /\ UNCHANGED server /\ UNCHANGED dying
        /\ (Matches(c)' <=> Matches(c)) /\ kind'[c] = kind[c]
    BY <1>0, <1>3, <1>4 DEF TypeOK, OnlyOf, choice, Matches
  <1>8. queue' \in Seq(Messages) /\ QueueInv'
    <2>1. CASE queue' = AfterEnd(c)
      BY <1>7, <2>1, QueueAfterEnd DEF OnlyOf, choice
    <2>2. CASE queue' = queue
      BY <1>3, <1>7, <2>2, QueueSame DEF OnlyOf, choice
    <2> QED BY <1>4, <2>1, <2>2
  <1>9. ClientInv(c)'
    <2>1. kind[c] \in {18, 19} /\ client'[c] = "operand" => Asked(c)'
      BY <1>2, <1>3, <1>5, <1>6, <1>7 DEF Asked
    <2>2. kind[c] \notin {20, 21} /\ c \notin dying
      BY <1>0, <1>3 DEF ClientInv
    <2> QED BY <1>5, <1>6, <1>7, <2>1, <2>2 DEF ClientInv, Answer, Over, Waiting
  <1>10. ServerInv'
    BY <1>3, <1>5, <1>7, ServerStays
  <1> QED BY <1>0, <1>5, <1>6, <1>7, <1>8, <1>9, <1>10, OtherClients
          DEF IInv, TypeOK, OnlyOf, choice, server

LEMMA KillStep == ASSUME IInv, NEW c \in Clients, Kill(c) PROVE IInv'
  <1>0. TypeOK /\ ClientInv(c)
    BY DEF IInv
  <1>1. /\ UNCHANGED <<choice, command, req, printed, server>>
        /\ client[c] \notin Over \cup {"off"} /\ c \notin dying
        /\ (Matches(c)' <=> Matches(c)) /\ kind'[c] = kind[c]
    BY DEF Kill, choice, Matches
  <1>2. CASE lab = 21 /\ client[c] = "reply"
    <2>1. dying' = dying \cup {c} /\ Post("unblock", c) /\ client' = client
      BY <1>2 DEF Kill
    <2>2. OnlyOf(c)
      BY <1>1, <2>1 DEF OnlyOf
    <2>3. queue' \in Seq(Messages) /\ QueueInv'
      BY <1>1, <1>2, <2>1, QueuePost DEF choice
    <2>4. ClientInv(c)'
      BY <1>0, <1>1, <1>2, <2>1 DEF ClientInv, Asked, Answer, Divided, choice
    <2>5. ServerInv'
      BY <1>1, <1>2, <2>1, <2>2, ServerStays
    <2> QED BY <1>0, <1>1, <2>1, <2>2, <2>3, <2>4, <2>5, OtherClients
            DEF IInv, TypeOK, OnlyOf, choice, server
  <1>3. CASE ~(lab = 21 /\ client[c] = "reply")
    <2>1. /\ client' = [client EXCEPT ![c] = "killed"]
          /\ queue' = AfterEnd(c) /\ UNCHANGED dying
      BY <1>3 DEF Kill
    <2>2. client' \in [Clients -> Doing] /\ client'[c] = "killed"
      BY <1>0, <2>1 DEF TypeOK, Doing
    <2>3. OnlyOf(c)
      BY <1>0, <1>1, <2>1 DEF TypeOK, OnlyOf
    <2>4. queue' \in Seq(Messages) /\ QueueInv'
      BY <1>1, <2>1, <2>3, QueueAfterEnd DEF OnlyOf, choice
    <2>5. ClientInv(c)'
      BY <1>0, <1>1, <2>1, <2>2 DEF ClientInv, Answer, Divided, Over, Waiting, choice
    <2>6. ServerInv'
      BY <1>1, <1>3, <2>2, <2>3, ServerStays DEF Over
    <2> QED BY <1>0, <1>1, <2>1, <2>2, <2>3, <2>4, <2>5, <2>6, OtherClients
            DEF IInv, TypeOK, OnlyOf, choice, server
  <1> QED BY <1>2, <1>3

-----------------------------------------------------------------------------
(* The servers                                                             *)

LEMMA ReceiveStep == ASSUME IInv, Receive PROVE IInv'
  <1>0. TypeOK /\ QueueInv /\ ServerInv
    BY DEF IInv
  <1> DEFINE m == Head(queue)
  <1>1. /\ queue # <<>> /\ queue' = Tail(queue) /\ spc = "receive"
        /\ spc' = "handle" /\ cur' = m
        /\ client' = IF m.what = "message" THEN [client EXCEPT ![m.from] = "reply"] ELSE client
        /\ UNCHANGED <<choice, command, req, printed, dying, status>>
    BY DEF Receive
  <1>2. m = queue[1] /\ 1 \in 1 .. Len(queue) /\ m \in Messages
    <2>1. queue \in Seq(Messages) /\ queue # <<>>
      BY <1>0, <1>1 DEF TypeOK
    <2> QED BY <2>1
  <1> HIDE DEF m
  <1>3. /\ m.from \in Clients /\ m.what \in {"message", "pulse", "unblock", "disconnect"}
        /\ m = [what |-> m.what, from |-> m.from]
        /\ m.what = "message" => client[m.from] = "send"
        /\ m.what \in {"unblock", "disconnect"} => lab = 21
    BY <1>0, <1>2 DEF QueueInv, Messages
  <1>4. /\ client' \in [Clients -> Doing]
        /\ \A c \in Clients : client'[c] = IF m.what = "message" /\ c = m.from THEN "reply" ELSE client[c]
    BY <1>0, <1>1, <1>3 DEF TypeOK, Doing
  <1>5. TypeOK' /\ QueueInv'
    <2>1. queue' \in Seq(Messages) /\ QueueInv'
      BY <1>1, QueueTail DEF choice, m
    <2> QED BY <1>0, <1>1, <1>2, <1>4, <2>1 DEF TypeOK, choice
  <1>6. ASSUME NEW c \in Clients PROVE ClientInv(c)'
    <2>1. ClientInv(c)
      BY DEF IInv
    <2>2. client'[c] = client[c] \/ (client[c] = "send" /\ client'[c] = "reply")
      BY <1>3, <1>4
    <2>3. (Asked(c)' <=> Asked(c)) /\ (Answer(c)' <=> Answer(c)) /\ (Matches(c)' <=> Matches(c))
      BY <1>1 DEF Asked, Answer, Matches, Divided, choice
    <2> QED BY <1>1, <2>1, <2>2, <2>3 DEF ClientInv, Waiting, Over, choice
  <1>7. ServerInv'
    <2>1. ASSUME NEW c \in Clients, client'[c] = "reply"
          PROVE  cur' = [what |-> "message", from |-> c] \/ (lab' = 21 /\ ~Known(req[c].type)')
      <3>1. CASE m.what = "message" /\ c = m.from
        BY <1>1, <1>3, <3>1
      <3>2. CASE ~(m.what = "message" /\ c = m.from)
        BY <1>0, <1>1, <1>4, <2>1, <3>2 DEF ServerInv, Known, choice
      <3> QED BY <3>1, <3>2
    <2> QED BY <1>1, <1>2, <1>3, <1>4, <2>1 DEF ServerInv, EndsOnlyExplained, choice
  <1> QED BY <1>5, <1>6, <1>7 DEF IInv

(* The server waits for the next message and has replied to nobody: nobody *)
(* was owed a reply.                                                       *)
LEMMA NoReplyStep ==
    ASSUME IInv, spc = "handle", Again, Untouched, Handled,
           status' \in {"none", "ok", "zero", "unknown"},
           cur.what = "message" /\ client[cur.from] = "reply" =>
               lab = 21 /\ ~Known(req[cur.from].type)
    PROVE  IInv'
  <1> USE DEF IInv, Again, Untouched, Handled
  <1>1. TypeOK'
    BY DEF TypeOK, choice
  <1>2. QueueInv'
    BY DEF QueueInv, choice
  <1>3. ASSUME NEW c \in Clients PROVE ClientInv(c)'
    <2>1. ClientInv(c)
      OBVIOUS
    <2> QED BY <2>1 DEF ClientInv, Asked, Answer, Matches, Divided, choice
  <1>4. ServerInv'
    BY DEF ServerInv, EndsOnlyExplained, Known, Nothing, choice
  <1> QED BY <1>1, <1>2, <1>3, <1>4

(* The server waits for the next message, and the client whose message it  *)
(* had no longer waits.                                                    *)
LEMMA AnsweredStep ==
    ASSUME IInv, spc = "handle", Again, Handled, NEW c \in Clients,
           status' \in {"none", "ok", "zero", "unknown"},
           cur = [what |-> "message", from |-> c], client[c] = "reply",
           NEW next \in {"command", "pulse"} \cup Over,
           client' = [client EXCEPT ![c] = next],
           NEW response \in Responses,
           printed' = [printed EXCEPT ![c] = response],
           dying' = dying \ {c},
           queue' = AfterEnd(c) \/ queue' = queue,
           kind[c] \in {18, 19} => next # "pulse",
           kind[c] \in {20, 21} => next # "command",
           Matches(c) => next # "pulse",
           Answer(c)'
    PROVE  IInv'
  <1>0. TypeOK /\ ClientInv(c) /\ ServerInv
    BY DEF IInv
  <1>1. /\ UNCHANGED <<choice, command, req>> /\ spc' = "receive" /\ cur' = Nothing
        /\ (Matches(c)' <=> Matches(c))
    BY DEF Again, Handled, Matches, choice
  <1>2. client' \in [Clients -> Doing] /\ client'[c] = next
    <2>1. next \in Doing
      BY DEF Over, Doing
    <2> QED BY <1>0, <2>1 DEF TypeOK
  <1>3. printed' \in [Clients -> Responses]
    BY <1>0 DEF TypeOK
  <1>4. OnlyOf(c)
    BY <1>0, <1>1 DEF TypeOK, OnlyOf
  <1>5. queue' \in Seq(Messages) /\ QueueInv'
    <2>1. CASE queue' = AfterEnd(c)
      BY <1>4, <2>1, QueueAfterEnd DEF OnlyOf, choice
    <2>2. CASE queue' = queue
      BY <1>4, <2>2, QueueSame DEF OnlyOf, choice
    <2> QED BY <2>1, <2>2
  <1>6. TypeOK'
    BY <1>0, <1>1, <1>2, <1>3, <1>5 DEF TypeOK, choice
  <1>7. ClientInv(c)'
    <2>1. kind[c] \in {20, 21} => command[c] = "checksum"
      BY <1>0 DEF ClientInv
    <2>2. kind'[c] = kind[c] /\ c \notin dying'
      BY <1>1 DEF choice
    <2> QED BY <1>1, <1>2, <2>1, <2>2 DEF ClientInv, Over, Waiting
  <1>8. ServerInv'
    <2>1. ASSUME NEW d \in Clients, client'[d] = "reply"
          PROVE  lab' = 21 /\ ~Known(req[d].type)'
      <3>1. d # c
        BY <1>2, <2>1 DEF Over
      <3>2. client[d] = "reply" /\ lab' = lab /\ req'[d] = req[d]
        BY <1>4, <2>1, <3>1 DEF OnlyOf, choice
      <3> QED BY <1>0, <3>1, <3>2 DEF ServerInv, Known
    <2> QED BY <1>1, <2>1 DEF ServerInv, EndsOnlyExplained, Nothing
  <1> QED BY <1>4, <1>5, <1>6, <1>7, <1>8, OtherClients DEF IInv

(* The server ends: where it was in the middle of a message that may end   *)
(* it, or because it is killed.                                            *)
LEMMA ServerEndsStep ==
    ASSUME IInv, NEW how \in Gone, ServerEnds(how), Handled,
           status' \in {"none", "ok", "zero", "unknown"},
           how = "exited" =>
             /\ spc = "handle"
             /\ \/ lab \in {18, 19, 20} /\ cur.what = "message" /\ client[cur.from] = "killed"
                \/ lab = 19 /\ cur.what = "pulse"
    PROVE  IInv'
  <1>0. TypeOK /\ ServerInv
    BY DEF IInv
  <1>1. /\ UNCHANGED <<choice, command, req, printed, cur>> /\ spc' = how
        /\ dying' = {} /\ queue' = <<>>
        /\ client' = [c \in Clients |-> IF c \in dying THEN "killed"
                                        ELSE IF client[c] \in Waiting THEN "done" ELSE client[c]]
    BY DEF ServerEnds, Handled
  <1>2. ASSUME NEW c \in Clients
        PROVE  /\ client'[c] \in Doing \ {"reply"}
               /\ client'[c] = client[c] \/ (client'[c] \in Over /\ client[c] # "off")
               /\ client[c] = "killed" => client'[c] = "killed"
               /\ ClientInv(c)'
    <2>1. ClientInv(c) /\ client[c] \in Doing
      BY <1>0 DEF IInv, TypeOK
    <2>2. /\ client'[c] \in Doing \ {"reply"}
          /\ client'[c] = client[c] \/ (client'[c] \in Over /\ client[c] # "off")
          /\ client[c] = "killed" => client'[c] = "killed"
      BY <1>1, <2>1 DEF ClientInv, Doing, Over, Waiting
    <2>3. (Asked(c)' <=> Asked(c)) /\ (Answer(c)' <=> Answer(c)) /\ (Matches(c)' <=> Matches(c))
          /\ UNCHANGED <<kind, lab, command, printed>>
      BY <1>1 DEF Asked, Answer, Matches, Divided, choice
    <2>4. ClientInv(c)'
      BY <1>1, <2>1, <2>2, <2>3 DEF ClientInv, Over, Waiting
    <2> QED BY <2>2, <2>4
  <1>3. TypeOK'
    <2>1. client' \in [Clients -> Doing]
      BY <1>1, <1>2
    <2>2. queue' \in Seq(Messages) /\ dying' \in SUBSET Clients
      BY <1>1
    <2>3. spc' \in {"receive", "handle"} \cup Gone
      BY <1>1
    <2> QED BY <1>0, <1>1, <2>1, <2>2, <2>3 DEF TypeOK, choice
  <1>4. QueueInv'
    <2>1. Len(queue') = 0
      BY <1>1
    <2> QED BY <2>1 DEF QueueInv
  <1>5. ServerInv'
    <2>0. cur \in Messages \/ cur.what = "none"
      <3>1. cur \in Messages \cup {Nothing}
        BY <1>0 DEF TypeOK
      <3> QED BY <3>1 DEF Nothing
    <2>1. cur.what = "message" => cur \in Messages /\ cur.from \in Clients
      BY <2>0 DEF Messages
    <2>2. cur.what = "pulse" => cur \in Messages
      BY <2>0
    <2>3. how = "exited" => cur' \in Messages
      BY <1>1, <2>1, <2>2
    <2>4. EndsOnlyExplained'
      <3>1. SUFFICES ASSUME how = "exited" PROVE EndsOnlyExplained'
        BY <1>1 DEF EndsOnlyExplained
      <3>2. CASE lab \in {18, 19, 20} /\ cur.what = "message" /\ client[cur.from] = "killed"
        <4>1. client'[cur.from] = "killed"
          BY <1>2, <2>1, <3>2
        <4> QED BY <1>1, <3>2, <4>1 DEF EndsOnlyExplained, choice
      <3>3. CASE lab = 19 /\ cur.what = "pulse"
        BY <1>1, <3>3 DEF EndsOnlyExplained, choice
      <3> QED BY <3>1, <3>2, <3>3
    <2>5. spc' # "handle" /\ (cur'.what \in {"unblock", "disconnect"} => lab' = 21)
      BY <1>0, <1>1 DEF ServerInv, Gone, choice
    <2> QED BY <1>1, <1>2, <2>3, <2>4, <2>5 DEF ServerInv
  <1> QED BY <1>2, <1>3, <1>4, <1>5 DEF IInv

(* What the server has in its hands when it handles.                       *)
LEMMA InHand ==
    ASSUME IInv, spc = "handle"
    PROVE  /\ lab \in Labs
           /\ cur \in Messages /\ cur.from \in Clients
           /\ cur.what \in {"message", "pulse", "unblock", "disconnect"}
           /\ cur.what = "message" => cur = [what |-> "message", from |-> cur.from]
           /\ cur.what \in {"unblock", "disconnect"} => lab = 21
           /\ cur.what = "message" =>
                client[cur.from] = "reply" \/ (lab # 21 /\ client[cur.from] = "killed")
           /\ Known(TypeReceived) => cur.what = "message"
  <1>1. lab \in Labs /\ cur \in Messages
    BY DEF IInv, TypeOK, ServerInv
  <1>2. /\ cur.from \in Clients /\ cur.what \in {"message", "pulse", "unblock", "disconnect"}
        /\ cur.what = "message" => cur = [what |-> "message", from |-> cur.from]
    BY <1>1 DEF Messages
  <1>3. 0 \notin DOMAIN Operations(lab)
    BY <1>1, OperationNames
  <1> QED BY <1>1, <1>2, <1>3 DEF IInv, ServerInv, Known, TypeReceived, PulseType

(* A reply in which r is right for the client's command.                   *)
LEMMA ReplyStep ==
    ASSUME IInv, spc = "handle", Again, Handled,
           status' \in {"none", "ok", "zero", "unknown"},
           cur.what = "message", client[cur.from] = "reply",
           NEW r \in Responses, Reply(r),
           Matches(cur.from) /\ kind[cur.from] \in {20, 21} => req[cur.from].type # ConnectType,
           Matches(cur.from) /\ r # NoResponse =>
               IF Divided(cur.from) THEN r.status = "zero"
               ELSE r = Response("ok", command[cur.from], req[cur.from].operand)
    PROVE  IInv'
  <1>1. PICK c \in Clients : c = cur.from /\ cur = [what |-> "message", from |-> c]
    BY InHand
  <1>2. client \in [Clients -> Doing] /\ printed \in [Clients -> Responses] /\ kind[c] \in Labs
    BY DEF IInv, TypeOK
  <1> DEFINE next == IF c \in dying THEN "killed"
                     ELSE IF kind[c] \in {18, 19} THEN "command"
                     ELSE IF req[c].type = ConnectType THEN "pulse" ELSE "done"
  <1>3. /\ client' = [client EXCEPT ![c] = next]
        /\ printed' = [printed EXCEPT ![c] = r]
        /\ dying' = dying \ {c}
        /\ queue' = IF next \in Over THEN AfterEnd(c) ELSE queue
    BY <1>1 DEF Reply
  <1>4. /\ next \in {"command", "pulse"} \cup Over
        /\ kind[c] \in {18, 19} => next # "pulse"
        /\ kind[c] \in {20, 21} => next # "command"
        /\ Matches(c) => next # "pulse"
    <2>1. kind[c] \in {18, 19} \/ kind[c] \in {20, 21}
      BY <1>2 DEF Labs
    <2>2. next \in {"killed", "command", "pulse", "done"}
      OBVIOUS
    <2>3. next = "pulse" => kind[c] \notin {18, 19} /\ req[c].type = ConnectType
      OBVIOUS
    <2>4. next = "command" => kind[c] \in {18, 19}
      OBVIOUS
    <2>5. kind[c] \in {18, 19} => kind[c] \notin {20, 21}
      OBVIOUS
    <2>6. Matches(c) /\ kind[c] \in {20, 21} => req[c].type # ConnectType
      BY <1>1
    <2> HIDE DEF next
    <2> QED BY <2>1, <2>2, <2>3, <2>4, <2>5, <2>6 DEF Over
  <1> HIDE DEF next
  <1>5. Answer(c)'
    <2>1. printed'[c] = r
      BY <1>2, <1>3
    <2>2. (Matches(c)' <=> Matches(c)) /\ (Divided(c)' <=> Divided(c))
          /\ UNCHANGED <<command, req>>
      BY DEF Handled, Matches, Divided, choice
    <2>3. Matches(c) /\ r # NoResponse =>
            IF Divided(c) THEN r.status = "zero"
            ELSE r = Response("ok", command[c], req[c].operand)
      BY <1>1
    <2> QED BY <2>1, <2>2, <2>3 DEF Answer
  <1>6. queue' = AfterEnd(c) \/ queue' = queue
    BY <1>3
  <1> QED BY <1>1, <1>3, <1>4, <1>5, <1>6, AnsweredStep

LEMMA ErrorStep ==
    ASSUME IInv, spc = "handle", Again, Handled, status' = status, Replyable, Error, lab \in {18, 20}
    PROVE  IInv'
  <1>1. PICK c \in Clients : c = cur.from /\ cur = [what |-> "message", from |-> c]
    BY InHand DEF Replyable
  <1>2. client[c] = "reply" /\ ClientInv(c) /\ printed[c] \in Responses
        /\ printed \in [Clients -> Responses] /\ status \in {"none", "ok", "zero", "unknown"}
    BY <1>1 DEF IInv, TypeOK, Replyable
  <1>3. /\ client' = [client EXCEPT ![c] = "done"] /\ UNCHANGED <<printed, dying, queue>>
        /\ printed' = [printed EXCEPT ![c] = printed[c]]
    BY <1>1, <1>2 DEF Error
  <1>4. dying' = dying \ {c}
    BY <1>2, <1>3 DEF ClientInv
  <1>5. Answer(c)'
    <2>1. (Matches(c)' <=> Matches(c)) /\ (Divided(c)' <=> Divided(c))
          /\ UNCHANGED <<command, req>>
      BY DEF Handled, Matches, Divided, choice
    <2> QED BY <1>2, <1>3, <2>1 DEF ClientInv, Answer
  <1>6. PICK next \in {"command", "pulse"} \cup Over, response \in Responses :
          next = "done" /\ response = printed[c]
    BY <1>2 DEF Over
  <1>7. /\ client' = [client EXCEPT ![c] = next]
        /\ printed' = [printed EXCEPT ![c] = response]
        /\ queue' = AfterEnd(c) \/ queue' = queue
        /\ status' \in {"none", "ok", "zero", "unknown"}
        /\ next # "pulse" /\ next # "command"
    BY <1>2, <1>3, <1>6
  <1> QED BY <1>1, <1>2, <1>4, <1>5, <1>7, AnsweredStep

LEMMA MatchesOnly ==
    ASSUME NEW c \in Clients, Matches(c)
    PROVE  /\ lab = 18 => kind[c] = 18
           /\ lab = 19 => kind[c] = 19
           /\ lab = 21 => kind[c] \in {20, 21}
  <1>1. CASE kind[c] = lab
    BY <1>1
  <1>2. CASE {kind[c], lab} = {20, 21}
    <2>1. lab \in {20, 21} /\ kind[c] \in {20, 21}
      BY <1>2
    <2> QED BY <2>1
  <1> QED BY <1>1, <1>2 DEF Matches

(* The request of a client that waits for its reply is for its command.    *)
LEMMA WaitingAsked ==
    ASSUME IInv, NEW c \in Clients, client[c] = "reply"
    PROVE  /\ req[c] \in Requests
           /\ kind[c] \in {18, 19} => Asked(c)
           /\ kind[c] \in {20, 21} => command[c] = "checksum"
  <1>1. ClientInv(c) /\ req[c] \in Requests
    BY DEF IInv, TypeOK
  <1> QED BY <1>1 DEF ClientInv, Waiting

LEMMA StatusIs ==
    ASSUME NEW type, NEW x
    PROVE  /\ type \notin 1 .. 4 => Status(type, x) = "unknown"
           /\ type = 4 /\ x \in ByZero => Status(type, x) = "zero"
           /\ type \in 1 .. 4 /\ ~(type = 4 /\ x \in ByZero) => Status(type, x) = "ok"
  <1>1. 4 \in 1 .. 4
    OBVIOUS
  <1>2. CASE type \notin 1 .. 4
    BY <1>1, <1>2, Zenon DEF Status
  <1>3. CASE type = 4 /\ x \in ByZero
    BY <1>1, <1>3, Zenon DEF Status
  <1>4. CASE type \in 1 .. 4 /\ ~(type = 4 /\ x \in ByZero)
    BY <1>4, Zenon DEF Status
  <1> QED BY <1>2, <1>3, <1>4

LEMMA ConvertSteps == ASSUME IInv, Convert \/ ConvertRefuse PROVE IInv'
  <1> DEFINE c == cur.from
  <1>0. lab = 18 /\ spc = "handle" /\ Handled /\ c \in Clients
    BY InHand DEF Convert, ConvertRefuse
  <1>1. status \in {"none", "ok", "zero", "unknown"}
    BY DEF IInv, TypeOK
  <1>2. CASE Convert /\ Replyable
    <2> DEFINE r == Response("ok", Operations(18)[TypeReceived], req[c].operand)
    <2>1. cur.what = "message" /\ client[c] = "reply" /\ TypeReceived = req[c].type
      BY <1>2 DEF Replyable, TypeReceived
    <2>2. Again /\ Reply(r) /\ status' = "ok" /\ Known(TypeReceived)
      BY <1>2 DEF Convert
    <2>3. Operations(18)[TypeReceived] \in Names
      BY <1>0, <2>2, OperationNames DEF Known, Labs
    <2>4. r \in Responses
      BY <1>0, <2>1, <2>3, WaitingAsked DEF Response, Responses, Requests
    <2>5. Matches(c) =>
            kind[c] = 18 /\ ~Divided(c) /\ r = Response("ok", command[c], req[c].operand)
      BY <1>0, <2>1, WaitingAsked, MatchesOnly DEF Asked, Divided
    <2>6. Matches(c) => kind[c] \notin {20, 21}
      BY <2>5
    <2> HIDE DEF r
    <2> QED BY <1>0, <2>1, <2>2, <2>4, <2>5, <2>6, ReplyStep
  <1>3. CASE Convert /\ ~Replyable
    <2>1. ServerEnds("exited") /\ status' = "ok" /\ Known(TypeReceived)
      BY <1>3 DEF Convert
    <2>2. cur.what = "message" /\ client[c] = "killed"
      BY <1>0, <1>3, <2>1, InHand DEF Replyable
    <2>3. "exited" \in Gone
      BY DEF Gone
    <2> QED BY <1>0, <2>1, <2>2, <2>3, ServerEndsStep
  <1>4. CASE ConvertRefuse /\ Replyable
    BY <1>0, <1>4, ErrorStep DEF ConvertRefuse
  <1>5. CASE ConvertRefuse /\ ~Replyable
    BY <1>0, <1>1, <1>5, NoReplyStep DEF ConvertRefuse, Replyable
  <1> QED BY <1>2, <1>3, <1>4, <1>5

LEMMA ComputeStep == ASSUME IInv, Compute PROVE IInv'
  <1> DEFINE c == cur.from
  <1>0. lab = 19 /\ spc = "handle" /\ Handled /\ c \in Clients
    BY InHand DEF Compute
  <1>1. PICK x \in Operands :
          /\ cur.what = "message" /\ kind[cur.from] = 19 => x = req[cur.from].operand
          /\ status' = Status(TypeReceived, x)
          /\ IF Replyable
             THEN /\ Again
                  /\ Reply(IF status' = "ok" THEN Response("ok", Operations(19)[TypeReceived], x)
                           ELSE Response(status', "none", None))
             ELSE ServerEnds("exited")
    BY DEF Compute
  <1>2. /\ status' \in {"ok", "zero", "unknown"}
        /\ status' = "ok" => TypeReceived \in 1 .. 4
    BY <1>1, StatusIs
  <1>3. CASE Replyable
    <2> DEFINE r == IF status' = "ok" THEN Response("ok", Operations(19)[TypeReceived], x)
                    ELSE Response(status', "none", None)
    <2>1. cur.what = "message" /\ client[c] = "reply" /\ TypeReceived = req[c].type
      BY <1>3 DEF Replyable, TypeReceived
    <2>2. Again /\ Reply(r)
      BY <1>1, <1>3
    <2>3. r \in Responses
      <3>1. CASE status' = "ok"
        <4>1. Operations(19)[TypeReceived] \in Names
          BY <1>2, <3>1, OperationsAre, OperationNames DEF Labs
        <4> QED BY <3>1, <4>1 DEF Response, Responses
      <3>2. CASE status' # "ok"
        BY <1>2, <3>2 DEF Response, Responses
      <3> QED BY <3>1, <3>2
    <2>4. ASSUME Matches(c)
          PROVE  /\ kind[c] = 19
                 /\ IF Divided(c) THEN r.status = "zero"
                    ELSE r = Response("ok", command[c], req[c].operand)
      <3>1. kind[c] = 19 /\ x = req[c].operand
        BY <1>0, <1>1, <2>1, <2>4, MatchesOnly
      <3>2. TypeReceived \in 1 .. 4 /\ Operations(19)[TypeReceived] = command[c]
        BY <1>0, <2>1, <3>1, WaitingAsked, OperationsAre DEF Asked
      <3>3. command[c] = "div" <=> TypeReceived = 4
        <4>1. TypeReceived \in {1, 2, 3, 4}
          BY <3>2
        <4> QED BY <3>2, <4>1, OperationsAre
      <3>4. Divided(c) <=> TypeReceived = 4 /\ x \in ByZero
        BY <3>1, <3>3 DEF Divided
      <3>5. CASE Divided(c)
        BY <1>1, <3>1, <3>4, <3>5, StatusIs DEF Response
      <3>6. CASE ~Divided(c)
        <4>1. status' = "ok"
          BY <1>1, <3>2, <3>4, <3>6, StatusIs
        <4> QED BY <3>1, <3>2, <3>6, <4>1
      <3> QED BY <3>1, <3>5, <3>6
    <2> HIDE DEF r
    <2>5. Matches(c) => kind[c] \notin {20, 21}
      BY <2>4
    <2> QED BY <1>0, <1>2, <2>1, <2>2, <2>3, <2>4, <2>5, ReplyStep
  <1>4. CASE ~Replyable
    <2>1. /\ cur.what = "message" /\ client[c] = "killed"
          \/ cur.what = "pulse"
      BY <1>0, <1>4, InHand DEF Replyable
    <2>2. "exited" \in Gone /\ ServerEnds("exited")
      BY <1>1, <1>4 DEF Gone
    <2> QED BY <1>0, <1>2, <2>1, <2>2, ServerEndsStep
  <1> QED BY <1>3, <1>4

LEMMA PulseOnlyStep == ASSUME IInv, PulseOnly PROVE IInv'
  <1>0. lab = 20 /\ spc = "handle" /\ Handled /\ cur.from \in Clients /\ status' = status
    BY InHand DEF PulseOnly
  <1>1. status \in {"none", "ok", "zero", "unknown"}
    BY DEF IInv, TypeOK
  <1>2. CASE cur.what # "message"
    <2>1. Again /\ Untouched
      BY <1>2, Zenon DEF PulseOnly, Replyable
    <2> QED BY <1>0, <1>1, <1>2, <2>1, NoReplyStep
  <1>3. CASE Replyable
    <2>1. Again /\ Error
      BY <1>3, Zenon DEF PulseOnly, Replyable
    <2> QED BY <1>0, <1>3, <2>1, ErrorStep
  <1>4. CASE cur.what = "message" /\ ~Replyable
    <2>1. ServerEnds("exited")
      BY <1>4, Zenon DEF PulseOnly
    <2>2. client[cur.from] = "killed" /\ "exited" \in Gone
      BY <1>0, <1>4, InHand DEF Replyable, Gone
    <2> QED BY <1>0, <1>1, <1>4, <2>1, <2>2, ServerEndsStep
  <1> QED BY <1>2, <1>3, <1>4

LEMMA NamedSteps == ASSUME IInv, NamedPulse \/ NamedMessage PROVE IInv'
  <1> DEFINE c == cur.from
  <1>0. lab = 21 /\ spc = "handle" /\ Handled /\ Again /\ c \in Clients
    BY InHand DEF NamedPulse, NamedMessage
  <1>1. status \in {"none", "ok", "zero", "unknown"}
    BY DEF IInv, TypeOK
  <1>2. CASE NamedPulse
    BY <1>0, <1>1, <1>2, NoReplyStep DEF NamedPulse
  <1>3. CASE NamedMessage /\ ~Known(TypeReceived)
    BY <1>0, <1>1, <1>3, NoReplyStep DEF NamedMessage, TypeReceived
  <1>4. CASE NamedMessage /\ Known(TypeReceived)
    <2> DEFINE r == Response("ok", "checksum", req[c].operand)
    <2>1. cur.what = "message" /\ client[c] = "reply" /\ TypeReceived = req[c].type
      BY <1>0, <1>4, InHand DEF NamedMessage, TypeReceived
    <2>2. Reply(r) /\ status' = "ok"
      BY <1>4 DEF NamedMessage
    <2>3. r \in Responses
      BY <1>0, <2>1, WaitingAsked DEF Response, Responses, Requests, Names
    <2>4. req[c].type # ConnectType
      BY <1>0, <1>4, <2>1, OperationsAre DEF Known, ConnectType
    <2>5. Matches(c) => ~Divided(c) /\ r = Response("ok", command[c], req[c].operand)
      BY <1>0, <2>1, WaitingAsked, MatchesOnly DEF Divided
    <2> HIDE DEF r
    <2> QED BY <1>0, <2>1, <2>2, <2>3, <2>4, <2>5, ReplyStep
  <1> QED BY <1>2, <1>3, <1>4

-----------------------------------------------------------------------------
LEMMA InitIInv == Init => IInv
  <1> SUFFICES ASSUME Init PROVE IInv
    OBVIOUS
  <1>1. NoResponse \in Responses
    BY DEF NoResponse, Response, Responses
  <1>2. [type |-> 0, operand |-> None] \in Requests
    BY DEF Requests
  <1>3. "off" \in Doing
    BY DEF Doing
  <1>4. TypeOK
    <2>1. /\ client \in [Clients -> Doing]
          /\ command \in [Clients -> Names \cup {"exit", "something else"}]
          /\ req \in [Clients -> Requests] /\ printed \in [Clients -> Responses]
      BY <1>1, <1>2, <1>3 DEF Init
    <2>2. queue \in Seq(Messages) /\ dying \in SUBSET Clients
      <3>1. queue = <<>> /\ dying = {}
        BY DEF Init
      <3> QED BY <3>1
    <2>3. lab \in Labs /\ kind \in [Clients -> Labs]
      BY DEF Init
    <2>4. /\ spc \in {"receive", "handle"} \cup Gone /\ cur \in Messages \cup {Nothing}
          /\ status \in {"none", "ok", "zero", "unknown"}
      BY DEF Init
    <2> QED BY <2>1, <2>2, <2>3, <2>4 DEF TypeOK
  <1>5. QueueInv /\ ServerInv
    <2>1. Len(queue) = 0 /\ spc = "receive" /\ cur.what = "none"
          /\ \A c \in Clients : client[c] = "off"
      BY DEF Init, Nothing
    <2> QED BY <2>1 DEF QueueInv, ServerInv, EndsOnlyExplained
  <1>6. \A c \in Clients : ClientInv(c)
    BY DEF Init, ClientInv, Answer, Over, Waiting
  <1> QED BY <1>4, <1>5, <1>6 DEF IInv

LEMMA NextIInv == IInv /\ [Next]_vars => IInv'
  <1> SUFFICES ASSUME IInv, [Next]_vars PROVE IInv'
    OBVIOUS
  <1>1. ASSUME NEW c \in Clients, Client(c) \/ Kill(c) PROVE IInv'
    BY <1>1, StartStep, ReadCommandStep, SendSteps, KillStep DEF Client
  <1>2. CASE Server
    BY <1>2, ReceiveStep, ConvertSteps, ComputeStep, PulseOnlyStep, NamedSteps DEF Server
  <1>3. CASE KillServer
    <2>1. "killed" \in Gone /\ status \in {"none", "ok", "zero", "unknown"}
      BY DEF Gone, IInv, TypeOK
    <2> QED BY <1>3, <2>1, ServerEndsStep DEF KillServer
  <1>4. CASE UNCHANGED vars
    <2> USE <1>4 DEF vars, choice, process, kernel, server
    <2>1. TypeOK' /\ QueueInv'
      BY DEF IInv, TypeOK, QueueInv
    <2>2. \A c \in Clients : ClientInv(c)'
      BY DEF IInv, ClientInv, Asked, Answer, Matches, Divided
    <2>3. ServerInv'
      BY DEF IInv, ServerInv, EndsOnlyExplained, Known
    <2> QED BY <2>1, <2>2, <2>3 DEF IInv
  <1> QED BY <1>1, <1>2, <1>3, <1>4 DEF Next

LEMMA Invariance == Spec => []IInv
  BY InitIInv, NextIInv, PTL DEF Spec

(* Every variable keeps its type.                                          *)
THEOREM TypeCorrect == Spec => []TypeOK
  <1>1. IInv => TypeOK
    BY DEF IInv
  <1> QED BY <1>1, Invariance, PTL

(* What a client prints is the answer to its own command and operand.      *)
THEOREM AnswersOwn == Spec => []OwnAnswer
  <1>1. IInv => OwnAnswer
    BY DEF IInv, ClientInv, Answer, OwnAnswer
  <1> QED BY <1>1, Invariance, PTL

(* A server ends by itself only over a client killed before its reply, or, *)
(* lab 19's, over a pulse.                                                 *)
THEOREM NoOtherEnd == Spec => []EndsOnlyExplained
  <1>1. IInv => EndsOnlyExplained
    BY DEF IInv, ServerInv
  <1> QED BY <1>1, Invariance, PTL

(* A server that asks for the next message owes no reply but lab 21's, to  *)
(* messages it does not know.                                              *)
THEOREM NothingElseOwed == Spec => []OwesOnlyUnknown
  <1>1. IInv => OwesOnlyUnknown
    BY DEF IInv, ServerInv, OwesOnlyUnknown
  <1> QED BY <1>1, Invariance, PTL
=============================================================================
