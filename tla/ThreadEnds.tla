----------------------------- MODULE ThreadEnds -----------------------------
(***************************************************************************)
(* Labs 07 and 08: how a thread ends - by returning, by pthread_exit, by   *)
(* cancellation, and by a signal.                                          *)
(***************************************************************************)
EXTENDS LabProcess, Naturals, Sequences

VARIABLES
    thread,         \* "new", "running", "ended" or "joined"
    cancelled,      \* pthread_cancel has been called
    call            \* which of its calls main is at

endVars == <<thread, cancelled, call>>

(* main's calls, in order.  Its sleeps and prints are left out.            *)
Calls ==
    [thread |-> << <<"create", "work">>, <<"join", "work">> >>,
     thread_term |->
        << <<"create", "cancel">>, <<"create", "exit">>, <<"create", "kill">>,
           <<"cancel", "cancel">>, <<"join", "cancel">>, <<"join", "exit">>,
           <<"kill", "kill">> >>]

EndThreads == {"work", "cancel", "exit", "kill"}

EndsInit ==
    /\ thread = [t \in EndThreads |-> "new"]
    /\ cancelled = FALSE
    /\ call = 1

AtCall(op, t) == call <= Len(Calls[lab]) /\ Calls[lab][call] = <<op, t>>

MainCalls(op, t) == AtCall(op, t) /\ call' = call + 1

CreateThread(t) ==
    /\ MainCalls("create", t)
    /\ thread' = [thread EXCEPT ![t] = "running"]
    /\ UNCHANGED cancelled

CancelThread(t) ==
    /\ MainCalls("cancel", t)
    /\ cancelled' = TRUE
    /\ UNCHANGED thread

JoinThread(t) ==
    /\ MainCalls("join", t)
    /\ thread[t] = "ended"
    /\ thread' = [thread EXCEPT ![t] = "joined"]
    /\ UNCHANGED cancelled

MainThread == \E t \in EndThreads : CreateThread(t) \/ CancelThread(t) \/ JoinThread(t)

(* Two threads end by themselves; the loop of thread_func_cancel ends at a *)
(* cancellation point, and that of thread_func_kill never.                 *)
ThreadReturns(t) ==
    /\ thread[t] = "running"
    /\ \/ t \in {"work", "exit"}
       \/ t = "cancel" /\ cancelled
    /\ thread' = [thread EXCEPT ![t] = "ended"]
    /\ UNCHANGED <<cancelled, call>>

EndsNext == MainThread \/ \E t \in EndThreads : ThreadReturns(t)

CreateMayFail == \E t \in EndThreads : AtCall("create", t)

(* What ends the process: the return from lab 07, and in lab 08 SIGKILL,   *)
(* which is sent to a thread and ends all of them with main.               *)
ThreadsDone == call > Len(Calls[lab])
ThreadsKilled == \E t \in EndThreads : AtCall("kill", t)
=============================================================================
