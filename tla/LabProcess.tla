---------------------------- MODULE LabProcess ----------------------------
(***************************************************************************)
(* qnx_labs[], and the process main has called one of its labs in: main    *)
(* waits for the lab's result, which is what the process ends with, unless *)
(* an exit or a signal ends it before.                                     *)
(***************************************************************************)
VARIABLES
    lab,        \* the lab main has called, or "none"
    outcome     \* "running", then "success", "failure" or "killed"

(* The names of qnx_labs[] without a run of their own: the labs that end   *)
(* by themselves, and those that serve until they are killed.              *)
ProcessNames == {"fork", "exec", "spawn", "zombie", "process_timer"}
ThreadNames == {"thread", "thread_term"}
EndingNames == ProcessNames \cup ThreadNames \cup
               {"hello", "assignment_1", "assignment_2", "condvar"}
ServingNames == {"pulse", "interrupt_handler", "timer", "resource_manager"}

Running == outcome = "running"

(* The lab, one of names, goes on.                                         *)
In(names) == Running /\ lab \in names /\ UNCHANGED <<lab, outcome>>

Ends(how) == Running /\ outcome' = how /\ UNCHANGED lab
=============================================================================
