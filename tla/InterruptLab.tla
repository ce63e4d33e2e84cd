---------------------------- MODULE InterruptLab ----------------------------
(***************************************************************************)
(* Lab 25: a process handles an interrupt in a thread (InterruptWait) or   *)
(* through a pulse.  The kernel masks the interrupt when it delivers it,   *)
(* and the handler unmasks it.                                             *)
(***************************************************************************)
EXTENDS PulseChannel

VARIABLES
    intMode,        \* the argument: "thread", "event" or something else
    attached,       \* the interrupt is attached to this process
    masked,
    stuck,          \* InterruptUnmask failed since the last delivery
    intAt           \* "attach", "wait", "unmask"; "success" and "failure" at the end

intVars == <<intMode, attached, masked, stuck, intAt>>

IntInit ==
    /\ intMode \in {"thread", "event", "other", "missing"}
    /\ attached = FALSE /\ masked = FALSE /\ stuck = FALSE
    /\ intAt = "attach"

IntGoto(from, to) == intAt = from /\ intAt' = to

Handles == intMode \in {"thread", "event"}

NoHandler ==
    /\ ~Handles
    /\ IntGoto("attach", IF intMode = "missing" THEN "failure" ELSE "success")
    /\ UNCHANGED <<intMode, attached, masked, stuck, channel>>

(* A failure ends the thread's lab; the event's goes on and waits for a    *)
(* pulse that never comes.                                                 *)
Attach ==
    /\ Handles
    /\ attached' \in BOOLEAN
    /\ IntGoto("attach", IF attached' \/ intMode = "event" THEN "wait" ELSE "failure")
    /\ UNCHANGED <<intMode, masked, stuck, channel>>

Interrupt ==
    /\ attached /\ ~masked
    /\ Deliver
    /\ masked' = TRUE
    /\ UNCHANGED <<intMode, attached, stuck, intAt>>

(* InterruptWait returns, or MsgReceive with a pulse.                      *)
Notice ==
    /\ IntGoto("wait", "unmask")
    /\ ReceivePulse
    /\ UNCHANGED <<intMode, attached, masked, stuck>>

(* Only InterruptWait's failure is looked at.                              *)
WaitFails ==
    /\ intMode = "thread"
    /\ IntGoto("wait", "failure")
    /\ UNCHANGED <<intMode, attached, masked, stuck, channel>>

UnmaskForgotten ==      \* mutant: counts the interrupt and waits for the next
    /\ IntGoto("unmask", "wait")
    /\ UNCHANGED <<intMode, attached, masked, stuck, channel>>

(* A failure is printed or not even looked at, and the loop goes on.       *)
Unmask ==
    /\ IntGoto("unmask", "wait")
    /\ \/ masked' = FALSE /\ UNCHANGED stuck
       \/ stuck' = TRUE /\ UNCHANGED masked
    /\ UNCHANGED <<intMode, attached, channel>>

IntHandler == NoHandler \/ Attach \/ Notice \/ Unmask

IntNext == IntHandler \/ WaitFails \/ Interrupt

IntEnded == intAt \in {"success", "failure"}
=============================================================================
