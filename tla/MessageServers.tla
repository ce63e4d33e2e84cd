--------------------------- MODULE MessageServers ---------------------------
(***************************************************************************)
(* Labs 18 to 21: a server that answers one message after the other and    *)
(* clients that send to it.  lab is the server that runs.  The clients of  *)
(* labs 18, 19 and 20 are told a process id and a channel id on the        *)
(* command line and may be told those of any of the four servers; lab 21's *)
(* client finds lab 21's server by its name.  Lab 21's channel belongs to  *)
(* a name (name_attach), so the kernel sends it disconnect and unblock     *)
(* pulses and keeps a killed client until it is replied to; the channels   *)
(* of the others are created without flags.  Messages, pulses and deaths   *)
(* are the kernel's (external); all are of one priority, hence in order.   *)
(***************************************************************************)
EXTENDS Integers, Sequences, SequencesExt

CONSTANTS
    Clients,    \* client processes
    None,       \* no message, no operand
    Operands,   \* strings in labs 18, 20 and 21, pairs of numbers in lab 19
    ByZero      \* the pairs whose second number is 0

ASSUME MessageAssumption ==
    /\ None \notin Operands
    /\ ByZero \subseteq Operands

VARIABLES
    lab,        \* the server's lab
    asksOpen,   \* whether name_open sends a message of its own (library)
    kind,       \* the lab of each client
    client,     \* what each client is doing
    command,    \* the line a client has in its command buffer
    req,        \* each client's request structure
    printed,    \* the response a client has printed for its command (history)
    dying,      \* clients killed that still wait for their reply (kernel)
    attached,   \* clients whose connection lab 21's server has (kernel)
    queue,      \* messages and pulses the server has not received (kernel)
    spc, cur,   \* the server's place, and the message or pulse it handles
    status      \* in the server's response structure, kept between messages

choice == <<lab, asksOpen, kind>>
process == <<client, command, req, printed>>
kernel == <<dying, attached, queue>>
server == <<spc, cur, status>>
vars == <<choice, process, kernel, server>>

Labs == {18, 19, 20, 21}

(* What the message types 1, 2, ... of a lab mean.                         *)
Operations(l) ==
    CASE l = 18 -> <<"to_upper", "to_lower">>
      [] l = 19 -> <<"add", "sub", "mult", "div">>
      [] OTHER  -> <<"checksum">>

(* Types no lab has: of a pulse in a message's place, and of name_open.    *)
PulseType == 0
ConnectType == 256

(* Lab 20's server knows no message at all.                                *)
Known(type) == lab # 20 /\ type \in DOMAIN Operations(lab)

TypeOfName(l, name) ==
    IF name \in ToSet(Operations(l)) THEN CHOOSE i \in DOMAIN Operations(l) : Operations(l)[i] = name
    ELSE 0

Lines(l) == ToSet(Operations(l)) \cup {"exit", "something else"}

Response(outcome, operation, operand) ==
    [status |-> outcome, operation |-> operation, operand |-> operand]

NoResponse == Response("none", "none", None)
Nothing == [what |-> "none", from |-> None]

Init ==
    /\ lab \in Labs
    /\ kind \in [Clients -> Labs] /\ \A c \in Clients : kind[c] = 21 => lab = 21
    /\ asksOpen \in {\E c \in Clients : kind[c] = 21, FALSE}
    /\ client = [c \in Clients |-> "off"]
    /\ command = [c \in Clients |-> "something else"]
    /\ req = [c \in Clients |-> [type |-> 0, operand |-> None]]
    /\ printed = [c \in Clients |-> NoResponse]
    /\ dying = {} /\ attached = {} /\ queue = <<>>
    /\ spc = "receive" /\ cur = Nothing /\ status = "none"

-----------------------------------------------------------------------------
(* The kernel's part                                                       *)

Waiting == {"send", "reply"}
Over == {"done", "killed"}
Gone == {"exited", "killed"}

Goto(c, from, to) ==
    /\ client[c] = from
    /\ client' = [client EXCEPT ![c] = to]

Post(what, c) == queue' = Append(queue, [what |-> what, from |-> c])

(* A process that ends takes its own message, of which there is one at     *)
(* most, with it; lab 21's server is told.                                 *)
AfterEnd(c) ==
    LET own  == {i \in DOMAIN queue : queue[i] = [what |-> "message", from |-> c]}
        left == IF own = {} THEN queue ELSE RemoveAt(queue, CHOOSE i \in own : TRUE)
    IN  IF lab = 21 /\ c \in attached /\ spc \notin Gone
        THEN Append(left, [what |-> "disconnect", from |-> c]) ELSE left

(* MsgSend and MsgSendPulse fail when the server is gone, and the client   *)
(* exits.                                                                  *)
SendOr(c, from, what, to) ==
    IF spc \in Gone
    THEN Goto(c, from, "done") /\ UNCHANGED queue
    ELSE Goto(c, from, to) /\ Post(what, c)

(* A killed client of lab 21 that waits for its reply stays, and the       *)
(* server gets an unblock pulse.                                           *)
Kill(c) ==
    /\ client[c] \notin Over \cup {"off"} /\ c \notin dying
    /\ IF lab = 21 /\ client[c] = "reply"
       THEN /\ dying' = dying \cup {c}
            /\ Post("unblock", c)
            /\ UNCHANGED client
       ELSE /\ client' = [client EXCEPT ![c] = "killed"]
            /\ queue' = AfterEnd(c)
            /\ UNCHANGED dying
    /\ UNCHANGED <<choice, command, req, printed, attached, server>>

-----------------------------------------------------------------------------
(* The clients                                                             *)

(* Connects; labs 20 and 21 have their string from the command line.       *)
(* name_open may send a message of its own first.                          *)
Start(c) ==
    /\ client[c] = "off" /\ spc \notin Gone
    /\ attached' = IF lab = 21 THEN attached \cup {c} ELSE attached
    /\ IF kind[c] \in {18, 19} THEN UNCHANGED <<command, req>>
       ELSE /\ command' = [command EXCEPT ![c] = "checksum"]
            /\ \E x \in Operands :
                req' = [req EXCEPT ![c] = [type |-> ConnectType, operand |-> x]]
    /\ IF kind[c] = 21 /\ asksOpen
       THEN Goto(c, "off", "send") /\ Post("message", c)
       ELSE /\ Goto(c, "off", IF kind[c] \in {18, 19} THEN "command" ELSE "pulse")
            /\ UNCHANGED queue
    /\ UNCHANGED <<choice, printed, dying, server>>

(* Labs 18 and 19 read a command.  At the end of the input the buffer      *)
(* keeps its line, or what was on the stack: one of those read here.       *)
ReadCommand(c) ==
    \E line \in Lines(kind[c]) :
        LET type == TypeOfName(kind[c], line)
        IN  /\ Goto(c, "command", IF line = "exit" THEN "done"
                                  ELSE IF type = 0 THEN "command" ELSE "operand")
            /\ command' = [command EXCEPT ![c] = line]
            /\ req' = [req EXCEPT ![c].type = type]
            /\ printed' = [printed EXCEPT ![c] = NoResponse]
            /\ queue' = IF line = "exit" THEN AfterEnd(c) ELSE queue
            /\ UNCHANGED <<choice, dying, attached, server>>

(* The operand is read and the request is sent.  When the input ends or    *)
(* there are not two numbers in the line, the operand of before, or what   *)
(* was on the stack, is sent as far as nothing was read.                   *)
Ask(c) ==
    /\ SendOr(c, "operand", "message", "send")
    /\ \E x \in Operands : req' = [req EXCEPT ![c].operand = x]
    /\ UNCHANGED <<choice, command, printed, dying, attached, server>>

(* Labs 20 and 21 send a pulse and then one request.                       *)
SendPulse(c) ==
    /\ SendOr(c, "pulse", "pulse", "request")
    /\ UNCHANGED <<choice, command, req, printed, dying, attached, server>>

AskChecksum(c) ==
    /\ SendOr(c, "request", "message", "send")
    /\ req' = [req EXCEPT ![c].type = 1]
    /\ UNCHANGED <<choice, command, printed, dying, attached, server>>

Client(c) == Start(c) \/ ReadCommand(c) \/ Ask(c) \/ SendPulse(c) \/ AskChecksum(c)

-----------------------------------------------------------------------------
(* The servers                                                             *)

Receive ==
    /\ spc = "receive" /\ queue # <<>>
    /\ spc' = "handle"
    /\ cur' = Head(queue)
    /\ queue' = Tail(queue)
    /\ client' = IF Head(queue).what = "message" THEN [client EXCEPT ![Head(queue).from] = "reply"]
                 ELSE client
    /\ UNCHANGED <<choice, command, req, printed, dying, attached, status>>

(* rcvid is 0 for a pulse, and means nobody once its client is dead.       *)
Replyable == cur.what = "message" /\ client[cur.from] = "reply"

TypeReceived == IF cur.what = "message" THEN req[cur.from].type ELSE PulseType

(* MsgReply, when the response structure holds r: the client prints it and *)
(* goes on, or ends if it was killed or has nothing more to do.            *)
Reply(r) ==
    LET c == cur.from
        next == IF c \in dying THEN "killed"
                ELSE IF kind[c] \in {18, 19} THEN "command"
                ELSE IF req[c].type = ConnectType THEN "pulse" ELSE "done"
    IN  /\ client' = [client EXCEPT ![c] = next]
        /\ printed' = [printed EXCEPT ![c] = r]
        /\ dying' = dying \ {c}
        /\ queue' = IF next \in Over THEN AfterEnd(c) ELSE queue

(* MsgError: the client's MsgSend fails and it exits.                      *)
Error ==
    /\ client' = [client EXCEPT ![cur.from] = "done"]
    /\ UNCHANGED <<printed, dying, queue>>

Untouched == UNCHANGED <<client, printed, dying, queue>>

Again == spc' = "receive" /\ cur' = Nothing

(* The server's end: nobody waits any more, MsgSend fails.                 *)
ServerEnds(how) ==
    /\ spc' = how /\ UNCHANGED cur
    /\ client' = [c \in Clients |-> IF c \in dying THEN "killed"
                                    ELSE IF client[c] \in Waiting THEN "done"
                                    ELSE client[c]]
    /\ dying' = {} /\ queue' = <<>>
    /\ UNCHANGED printed

Handled == UNCHANGED <<choice, command, req>>

(* Lab 18: a known message is answered, anything else gets an error, a     *)
(* pulse too; only a reply that fails ends the server.                     *)
ConvertRefuseSilent ==      \* mutant: no MsgError for an unknown message
    /\ lab = 18 /\ spc = "handle" /\ ~Known(TypeReceived)
    /\ Again /\ Untouched
    /\ UNCHANGED <<attached, status>> /\ Handled

ConvertRefuseFatal ==       \* mutant: exits when MsgError fails
    /\ lab = 18 /\ spc = "handle" /\ ~Known(TypeReceived)
    /\ IF Replyable THEN Again /\ Error ELSE ServerEnds("exited")
    /\ UNCHANGED <<attached, status>> /\ Handled

ConvertRefuse ==
    /\ lab = 18 /\ spc = "handle" /\ ~Known(TypeReceived)
    /\ Again
    /\ IF Replyable THEN Error ELSE Untouched
    /\ UNCHANGED <<attached, status>> /\ Handled

Convert ==
    /\ lab = 18 /\ spc = "handle" /\ Known(TypeReceived)
    /\ status' = "ok"
    /\ IF Replyable
       THEN Again /\ Reply(Response("ok", Operations(18)[TypeReceived], req[cur.from].operand))
       ELSE ServerEnds("exited")
    /\ UNCHANGED attached /\ Handled

(* The status lab 19 finds for a message.                                  *)
StatusKept(type, x) ==      \* mutant: status is not reset
    CASE type \notin 1 .. 4        -> "unknown"
      [] type = 4 /\ x \in ByZero  -> "zero"
      [] OTHER                     -> IF status = "none" THEN "ok" ELSE status

Status(type, x) ==
    CASE type \notin 1 .. 4        -> "unknown"
      [] type = 4 /\ x \in ByZero  -> "zero"
      [] OTHER                     -> "ok"

(* Lab 19 replies to everything, a pulse too, and ends when that fails.    *)
(* The numbers of another lab's client are not defined.                    *)
Compute ==
    /\ lab = 19 /\ spc = "handle"
    /\ \E x \in Operands :
        /\ cur.what = "message" /\ kind[cur.from] = 19 => x = req[cur.from].operand
        /\ status' = Status(TypeReceived, x)
        /\ IF Replyable
           THEN /\ Again
                /\ Reply(IF status' = "ok" THEN Response("ok", Operations(19)[TypeReceived], x)
                         ELSE Response(status', "none", None))
           ELSE ServerEnds("exited")
    /\ UNCHANGED attached /\ Handled

(* Lab 20 takes pulses, and answers every message with an error.           *)
PulseOnlySilent ==          \* mutant: a message is printed like a pulse
    /\ lab = 20 /\ spc = "handle"
    /\ Again /\ Untouched
    /\ UNCHANGED <<attached, status>> /\ Handled

PulseOnly ==
    /\ lab = 20 /\ spc = "handle"
    /\ CASE cur.what # "message" -> Again /\ Untouched
         [] Replyable            -> Again /\ Error
         [] OTHER                -> ServerEnds("exited")
    /\ UNCHANGED <<attached, status>> /\ Handled

(* Lab 21 detaches a connection whose client is gone; it replies to a      *)
(* checksum message, and does nothing for any other message.               *)
NamedPulseNoDetach ==       \* mutant: the disconnect pulse is only printed
    /\ lab = 21 /\ spc = "handle" /\ cur.what # "message"
    /\ Again /\ Untouched
    /\ UNCHANGED <<attached, status>> /\ Handled

NamedPulse ==
    /\ lab = 21 /\ spc = "handle" /\ cur.what # "message"
    /\ attached' = IF cur.what = "disconnect" THEN attached \ {cur.from} ELSE attached
    /\ Again /\ Untouched
    /\ UNCHANGED status /\ Handled

NamedMessage ==
    /\ lab = 21 /\ spc = "handle" /\ cur.what = "message"
    /\ Again
    /\ IF Known(TypeReceived)
       THEN /\ status' = "ok"
            /\ Reply(Response("ok", "checksum", req[cur.from].operand))
       ELSE Untouched /\ UNCHANGED status
    /\ UNCHANGED attached /\ Handled

Server == Receive \/ ConvertRefuse \/ Convert \/ Compute \/ PulseOnly \/ NamedPulse \/ NamedMessage

KillServer ==
    /\ spc \notin Gone
    /\ ServerEnds("killed")
    /\ UNCHANGED <<attached, status>> /\ Handled

Next ==
    \/ \E c \in Clients : Client(c) \/ Kill(c)
    \/ Server
    \/ KillServer

(* The server runs; nothing is assumed of the clients' users.              *)
Spec == Init /\ [][Next]_vars /\ WF_vars(Server)

-----------------------------------------------------------------------------
(* Properties                                                              *)

(* Labs 20 and 21 have the same structures.                                *)
Matches(c) == kind[c] = lab \/ {kind[c], lab} = {20, 21}

Divided(c) == kind[c] = 19 /\ command[c] = "div" /\ req[c].operand \in ByZero

(* What a client prints is the answer to the command in its buffer with    *)
(* the operand it sent, whatever the server answered to others before from *)
(* the same structure: an error for a division by 0 and for nothing else.  *)
OwnAnswer ==
    \A c \in Clients :
        Matches(c) /\ printed[c] # NoResponse =>
            IF Divided(c) THEN printed[c].status = "zero"
            ELSE printed[c] = Response("ok", command[c], req[c].operand)

(* A server ends by itself only if the client whose message it handles was *)
(* killed meanwhile, or in lab 19 for a pulse, such as lab 20's client     *)
(* sends; lab 21's server never does.                                      *)
EndsOnlyExplained ==
    spc = "exited" =>
        \/ lab \in {18, 19, 20} /\ cur.what = "message" /\ client[cur.from] = "killed"
        \/ lab = 19 /\ cur.what = "pulse"

(* When a server asks for the next message it owes a reply to nobody, but  *)
(* for lab 21's, to clients whose message it does not know.                *)
OwesOnlyUnknown ==
    spc = "receive" =>
        \A c \in Clients : client[c] = "reply" => lab = 21 /\ ~Known(req[c].type)

(* Every client that waits is answered, or ends: when it is killed, and    *)
(* when the server is.  Not so in lab 21 for a message it does not know.   *)
Released ==
    \A c \in Clients :
        client[c] \in Waiting /\ (lab # 21 \/ Known(req[c].type)) ~> client[c] \notin Waiting

(* Lab 21's server detaches the connection of every client that is over.   *)
Detached ==
    \A c \in Clients : client[c] \in Over ~> c \notin attached \/ spc \in Gone
=============================================================================
