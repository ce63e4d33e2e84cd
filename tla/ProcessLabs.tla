---------------------------- MODULE ProcessLabs ----------------------------
(***************************************************************************)
(* The labs that start processes (02 to 05 and 28) and the one that is     *)
(* told of their deaths (06).  The process table is the kernel's.          *)
(***************************************************************************)
EXTENDS LabProcess, PulseChannel, Integers

CONSTANT ChildLimit     \* how many children the process table has room for

Children == 1 .. ChildLimit

ASSUME ChildAssumption == ChildLimit \in Nat \ {0}

VARIABLES
    child,          \* "none", "alive", "zombie" or "reaped"
    signalled,      \* the children that SIGTERM was sent to
    forked,         \* how many children there have been
    process_pid,    \* the pid the parent keeps: a child, 0, or -1
    parentAt        \* "success" and "failure" when the parent has ended

table == <<child, signalled, forked>>
procVars == <<table, process_pid, parentAt>>

ProcInit ==
    /\ child = [c \in Children |-> "none"]
    /\ signalled = {}
    /\ forked = 0
    /\ process_pid = 0
    /\ parentAt = "fork"

ParentGoto(from, to) == parentAt = from /\ parentAt' = to

StartChild ==
    /\ forked < ChildLimit
    /\ forked' = forked + 1
    /\ child' = [child EXCEPT ![forked'] = "alive"]
    /\ UNCHANGED <<signalled, channel>>

(* Lab 28 makes its channel and its timer after the first fork.            *)
AfterFork ==
    CASE lab = "spawn"                     -> "success"
      [] lab \in {"fork", "exec", "zombie"} -> "wait"
      [] OTHER -> IF forked = 0 THEN "setup" ELSE "receive"

Fork ==
    /\ ParentGoto("fork", AfterFork)
    /\ StartChild
    /\ process_pid' = forked'

ForkFailsUnchecked ==   \* mutant: lab 28 goes on with a pid of -1
    /\ ParentGoto("fork", IF lab = "process_timer" THEN "receive" ELSE "success")
    /\ process_pid' = -1
    /\ UNCHANGED <<table, channel>>

(* Labs 02 and 03 print it and return success all the same.                *)
ForkFails ==
    /\ ParentGoto("fork", IF lab \in {"fork", "exec"} THEN "success" ELSE "failure")
    /\ process_pid' = -1
    /\ UNCHANGED <<table, channel>>

(* waitpid in labs 02 and 03; wait in lab 05, after its sleeps.            *)
WaitForChild ==
    /\ ParentGoto("wait", "success")
    /\ child[process_pid] = "zombie"
    /\ child' = [child EXCEPT ![process_pid] = "reaped"]
    /\ UNCHANGED <<signalled, forked, process_pid, channel>>

(* A child of lab 28 runs until it is killed, the others end.              *)
ChildDies(c) ==
    /\ child[c] = "alive"
    /\ lab = "process_timer" => c \in signalled
    /\ child' = [child EXCEPT ![c] = "zombie"]
    /\ UNCHANGED <<signalled, forked, process_pid, parentAt, channel>>

-----------------------------------------------------------------------------
(* Lab 28: each pulse of the timer kills the child and forks the next.     *)

CreateTimer ==
    /\ \/ ParentGoto("setup", "receive")
       \/ ParentGoto("setup", "failure")
    /\ UNCHANGED <<table, process_pid, channel>>

PeriodPasses ==
    /\ lab = "process_timer" /\ parentAt \in {"receive", "kill", "fork"}
    /\ forked > 0
    /\ Deliver
    /\ UNCHANGED procVars

ReceivePeriod ==
    /\ ParentGoto("receive", "kill")
    /\ ReceivePulse
    /\ UNCHANGED <<table, process_pid>>

Kill ==
    /\ ParentGoto("kill", "fork")
    /\ signalled' = signalled \cup {process_pid}
    /\ UNCHANGED <<child, forked, process_pid, channel>>

-----------------------------------------------------------------------------
(* Lab 06: a pulse from the process manager for every process that dies.   *)

SystemDeath ==
    /\ lab = "pulse" /\ Running
    /\ Deliver
    /\ UNCHANGED procVars

ReportDeath ==
    /\ lab = "pulse" /\ Running
    /\ ReceivePulse
    /\ UNCHANGED procVars

-----------------------------------------------------------------------------
Parent ==
    /\ lab # "pulse"
    /\ \/ Fork \/ ForkFails \/ WaitForChild
       \/ CreateTimer \/ ReceivePeriod \/ Kill

ProcNext ==
    \/ Parent \/ ReportDeath
    \/ PeriodPasses \/ SystemDeath
    \/ \E c \in Children : ChildDies(c)

ProcEnded == parentAt \in {"success", "failure"}

(* The parent always knows the child it is responsible for: a kill is sent *)
(* to one process of its own, that nobody has killed before, never to -1   *)
(* (every process) or to a pid that was used again; every other child is   *)
(* dead or about to die; and a lab that waits leaves nothing behind.       *)
ChildrenAccounted ==
    /\ parentAt = "kill" => /\ process_pid \in Children \ signalled
                            /\ child[process_pid] = "alive"
    /\ \A c \in Children \ (signalled \cup {process_pid}) : child[c] # "alive"
    /\ lab \in {"fork", "exec", "zombie"} /\ parentAt = "success" =>
           \A c \in Children : child[c] \in {"none", "reaped"}
=============================================================================
