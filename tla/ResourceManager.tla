-------------------------- MODULE ResourceManager --------------------------
(***************************************************************************)
(* Lab 30: the manager of /dev/example.  One thread receives a message     *)
(* (dispatch_block) and handles it (dispatch_handler): the library calls   *)
(* io_open, io_read or io_write, and replies itself unless the function    *)
(* returns _RESMGR_NOREPLY, having replied with MsgReply.                  *)
(***************************************************************************)
EXTENDS Naturals, Sequences, SequencesExt

CONSTANTS
    Users,          \* the clients of the device, each with one message at most
    Sizes,          \* the nbytes a client may ask for
    DataSize        \* sizeof(data)

ASSUME DeviceAssumption == Sizes \subseteq Nat /\ DataSize \in Nat

VARIABLES
    opened,         \* the users that have the device open
    queue,          \* the messages that wait: whose, what, and how many bytes
    message,        \* the message that is handled
    rmAt,           \* the place in io_read and io_write, "block" outside
    returned,       \* what the io function returned
    replies,        \* how many replies this message has had
    allocated,      \* io_write has a buffer
    flags           \* of the device's attributes

device == <<opened, flags>>
rmVars == <<opened, queue, message, rmAt, returned, replies, allocated, flags>>

ManagerInit ==
    /\ opened = {} /\ queue = <<>> /\ flags = {}
    /\ message = [user |-> "nobody", op |-> "none", nbytes |-> 0]
    /\ rmAt = "block" /\ returned = "EOK"
    /\ replies = 1 /\ allocated = FALSE

RmGoto(from, to) == rmAt = from /\ rmAt' = to

(* Blocked until the reply to its message.                                 *)
Blocked(u) ==
    \/ \E m \in ToSet(queue) : m.user = u
    \/ message.user = u /\ replies = 0

(* A client opens the device, then reads and writes it, then closes it.    *)
Ask(u) ==
    /\ ~Blocked(u)
    /\ \E op \in IF u \in opened THEN {"read", "write", "close"} ELSE {"open"},
          n \in Sizes :
            /\ op \in {"open", "close"} => n = 0
            /\ queue' = Append(queue, [user |-> u, op |-> op, nbytes |-> n])
    /\ UNCHANGED <<device, message, rmAt, returned, replies, allocated>>

dispatch_block ==
    /\ RmGoto("block", "handler")
    /\ queue # <<>>
    /\ message' = Head(queue)
    /\ queue' = Tail(queue)
    /\ replies' = 0
    /\ UNCHANGED <<device, returned, allocated>>

-----------------------------------------------------------------------------
(* io_open, io_read and io_write.  A path ends with an error, for the      *)
(* library to send, or with the function's own reply.                      *)

ReturnError ==
    /\ rmAt' = "returned" /\ returned' = "error"
    /\ UNCHANGED <<replies, flags>>

ReplyAndReturn(n, marks) ==
    /\ rmAt' = "returned" /\ returned' = "_RESMGR_NOREPLY"
    /\ replies' = replies + 1
    /\ flags' = IF n > 0 THEN flags \cup marks ELSE flags

Handling(place, ops) ==
    /\ rmAt = place /\ message.op \in ops
    /\ UNCHANGED <<queue, message>>

(* iofunc_open_default, and the default close, succeed or fail.            *)
OpenOrClose ==
    /\ Handling("handler", {"open", "close"})
    /\ rmAt' = "returned"
    /\ \/ /\ returned' = "EOK"
          /\ opened' = IF message.op = "open" THEN opened \cup {message.user}
                                              ELSE opened \ {message.user}
       \/ returned' = "error" /\ UNCHANGED opened
    /\ UNCHANGED <<replies, allocated, flags>>

(* iofunc_read_verify and iofunc_write_verify, then the message's xtype.   *)
Verify ==
    /\ Handling("handler", {"read", "write"})
    /\ \/ ReturnError
       \/ rmAt' = message.op /\ UNCHANGED <<returned, replies, flags>>
    /\ UNCHANGED <<opened, allocated>>

io_read ==
    /\ Handling("read", {"read"})
    /\ LET nb == IF message.nbytes < DataSize THEN message.nbytes ELSE DataSize
       IN  ReplyAndReturn(nb, {"ATIME"})
    /\ UNCHANGED <<opened, allocated>>

WriteNothing ==
    /\ Handling("write", {"write"}) /\ message.nbytes = 0
    /\ ReplyAndReturn(0, {})
    /\ UNCHANGED <<opened, allocated>>

Allocate ==
    /\ Handling("write", {"write"}) /\ message.nbytes > 0
    /\ \/ ReturnError /\ UNCHANGED allocated
       \/ /\ rmAt' = "get" /\ allocated' = TRUE
          /\ UNCHANGED <<returned, replies, flags>>
    /\ UNCHANGED opened

(* resmgr_msgget may find fewer bytes than nbytes.                         *)
MsgGet ==
    /\ Handling("get", {"write"})
    /\ \/ ReturnError /\ allocated' = FALSE
       \/ /\ rmAt' = "put"
          /\ UNCHANGED <<returned, replies, allocated, flags>>
    /\ UNCHANGED opened

PutAndFail ==           \* mutant: replies first, and then looks at status
    /\ Handling("put", {"write"})
    /\ allocated' = FALSE
    /\ rmAt' = "returned"
    /\ returned' \in {"error", "_RESMGR_NOREPLY"}
    /\ replies' = replies + 1
    /\ UNCHANGED flags
    /\ UNCHANGED opened

(* write to the terminal, and free.                                        *)
Put ==
    /\ Handling("put", {"write"})
    /\ allocated' = FALSE
    /\ \/ ReturnError
       \/ \E nb \in 0 .. message.nbytes : ReplyAndReturn(nb, {"MTIME", "CTIME"})
    /\ UNCHANGED opened

(* The rest of dispatch_handler.                                           *)
LibraryReply ==
    /\ RmGoto("returned", "block")
    /\ replies' = IF returned = "_RESMGR_NOREPLY" THEN replies ELSE replies + 1
    /\ UNCHANGED <<device, queue, message, returned, allocated>>

Manager ==
    \/ dispatch_block \/ LibraryReply
    \/ OpenOrClose \/ Verify \/ io_read
    \/ WriteNothing \/ Allocate \/ MsgGet \/ Put

ManagerNext == Manager \/ \E u \in Users : Ask(u)

(* dispatch_block fails.                                                   *)
BlockMayFail == rmAt = "block"

(* Whatever path a message takes, it is replied to once when the manager   *)
(* is back at dispatch_block: a second reply could reach the client's next *)
(* message, and none would leave it blocked; nor is a buffer left.         *)
AnsweredOnce ==
    /\ replies <= 1
    /\ rmAt = "block" => replies = 1
    /\ rmAt \in {"block", "returned"} => ~allocated
=============================================================================
