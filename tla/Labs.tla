-------------------------------- MODULE Labs --------------------------------
(***************************************************************************)
(* main(): it calls the lab that the first argument names, in this         *)
(* process, and the process ends with what the lab returns, or by an exit  *)
(* or a signal before that.  The labs with a module and a run of their own *)
(* (10, 12, 14 to 24, 27) are not repeated here.                           *)
(***************************************************************************)
EXTENDS PairOfVars, Handshake, ArrayParts, ThreadEnds, ProcessLabs,
        MaintenanceTimer, InterruptLab, ResourceManager

vars == <<lab, outcome, owner, waiting, pairVars, handVars, partVars, endVars,
          procVars, timerVars, intVars, rmVars, channel>>

Init ==
    /\ lab = "none" /\ outcome = "running"
    /\ PairInit /\ HandInit /\ PartInit /\ EndsInit /\ ProcInit
    /\ TimerInit /\ IntInit /\ ManagerInit /\ ChannelInit

parts == <<pairVars, handVars, owner, waiting, partVars, endVars, procVars,
           timerVars, intVars, rmVars, channel>>

(* The further argument is looked at by two of the labs.                   *)
Dispatch ==
    /\ lab = "none" /\ Running
    /\ lab' \in EndingNames \cup ServingNames
    /\ use_mutex \/ lab' = "assignment_2"
    /\ intMode = "missing" \/ lab' = "interrupt_handler"
    /\ UNCHANGED <<outcome, parts>>

(* No argument, help, or a name that qnx_labs[] does not have.             *)
NoLab ==
    /\ lab = "none"
    /\ Ends("failure")
    /\ UNCHANGED parts

-----------------------------------------------------------------------------
(* One lab runs; what belongs to the others stays as it is.                *)

Assignment1(A) ==
    /\ In({"assignment_1"}) /\ A
    /\ UNCHANGED <<pairVars, handVars, owner, waiting, endVars, procVars, timerVars, intVars, rmVars, channel>>

Assignment2(A) ==
    /\ In({"assignment_2"}) /\ A
    /\ UNCHANGED <<handVars, waiting, partVars, endVars, procVars, timerVars, intVars, rmVars, channel>>

CondvarLab(A) ==
    /\ In({"condvar"}) /\ A
    /\ UNCHANGED <<pairVars, partVars, endVars, procVars, timerVars, intVars, rmVars, channel>>

ThreadLabs(A) ==
    /\ In(ThreadNames) /\ A
    /\ UNCHANGED <<pairVars, handVars, owner, waiting, partVars, procVars, timerVars, intVars, rmVars, channel>>

(* The children live on when the parent has ended.                         *)
ProcessStep(A) ==
    /\ lab \in ProcessNames \cup {"pulse"} /\ A
    /\ UNCHANGED <<lab, outcome, pairVars, handVars, owner, waiting, partVars, endVars, timerVars, intVars, rmVars>>

TimerLab(A) ==
    /\ In({"timer"}) /\ A
    /\ UNCHANGED <<pairVars, handVars, owner, waiting, partVars, endVars, procVars, intVars, rmVars>>

InterruptHandler(A) ==
    /\ In({"interrupt_handler"}) /\ A
    /\ UNCHANGED <<pairVars, handVars, owner, waiting, partVars, endVars, procVars, timerVars, rmVars>>

ResourceLab(A) ==
    /\ In({"resource_manager"}) /\ A
    /\ UNCHANGED <<pairVars, handVars, owner, waiting, partVars, endVars, procVars, timerVars, intVars, channel>>

-----------------------------------------------------------------------------
(* The end of the process.                                                 *)

(* The lab's work is done: what it ends the process with.                  *)
Finished(how) ==
    \/ how = "success" /\ \/ lab = "hello"
                          \/ lab = "assignment_1" /\ PartsEnded
                          \/ lab = "assignment_2" /\ PairEnded
                          \/ lab = "condvar" /\ HandEnded
                          \/ lab \in ThreadNames /\ ThreadsDone
    \/ how = "killed" /\ lab \in ThreadNames /\ ThreadsKilled
    \/ how = parentAt /\ lab \in ProcessNames /\ ProcEnded
    \/ how = intAt /\ lab = "interrupt_handler" /\ IntEnded

LabEnds ==
    /\ \E how \in {"success", "failure", "killed"} : Finished(how) /\ Ends(how)
    /\ UNCHANGED parts

(* A call fails that the lab answers with exit(EXIT_FAILURE): for most,    *)
(* one that makes a thread, a channel or a timer.                          *)
CallFails ==
    /\ \/ lab = "assignment_1" /\ made < ThreadCount
       \/ lab = "assignment_2" /\ started < NumThreads
       \/ lab = "condvar" /\ mainAt = "create"
       \/ lab \in ThreadNames /\ CreateMayFail
       \/ lab = "timer" /\ timerAt = "setup"
       \/ lab = "resource_manager" /\ BlockMayFail
       \/ lab = "pulse"
    /\ Ends("failure")
    /\ UNCHANGED parts

Next ==
    \/ Dispatch \/ NoLab \/ LabEnds \/ CallFails
    \/ Assignment1(PartNext) \/ Assignment2(PairNext) \/ CondvarLab(HandNext)
    \/ ThreadLabs(EndsNext) \/ ProcessStep(ProcNext) \/ TimerLab(TimerNext)
    \/ InterruptHandler(IntNext) \/ ResourceLab(ManagerNext)

(* Every thread that can run runs, a child ends when it is told to or its  *)
(* program does, time passes, and main ends when its lab has.  In lab 13   *)
(* main's pthread_mutex_lock is strong: the caller is queued, and spurious *)
(* wakeups of the worker do not overtake it for ever.  A failure, an       *)
(* interrupt, a client or a death elsewhere is never owed.                 *)
Fairness ==
    /\ WF_vars(LabEnds)
    /\ WF_vars(Assignment1(PartMain))
    /\ \A p \in Parts : WF_vars(Assignment1(double_array(p)))
    /\ WF_vars(Assignment2(PairMain))
    /\ \A t \in PairThreads : WF_vars(Assignment2(Work(t)))
    /\ SF_vars(CondvarLab(HandMain)) /\ WF_vars(CondvarLab(Worker))
    /\ WF_vars(ThreadLabs(MainThread))
    /\ \A t \in EndThreads : WF_vars(ThreadLabs(ThreadReturns(t)))
    /\ WF_vars(ProcessStep(Parent)) /\ WF_vars(ProcessStep(ReportDeath))
    /\ WF_vars(ProcessStep(PeriodPasses))
    /\ \A c \in Children : WF_vars(ProcessStep(ChildDies(c)))
    /\ WF_vars(TimerLab(TimerNext))
    /\ WF_vars(InterruptHandler(IntHandler))
    /\ WF_vars(ResourceLab(Manager))

Spec == Init /\ [][Next]_vars /\ Fairness

-----------------------------------------------------------------------------
(* The labs that are not servers end by themselves, whatever the order in  *)
(* which their threads and children run: lab 09 with every element         *)
(* doubled, and never with success lab 08, whose SIGKILL ends main too, or *)
(* lab 28, whose zombies fill the process table.                           *)
EndsByItself ==
    lab \in EndingNames ~>
        /\ ~Running
        /\ outcome = "success" =>
             /\ lab = "assignment_1" => AllDoubled
             /\ lab \notin {"thread_term", "process_timer"}

(* The servers keep serving: every pulse is received, an interrupt is      *)
(* unmasked again unless the unmasking failed, and every client of the     *)
(* device gets its reply - for as long as the process runs.                *)
KeepsServing ==
    /\ handled < arrived ~> handled = arrived \/ ~Running
    /\ masked ~> ~masked \/ stuck \/ ~Running
    /\ \A u \in Users : Blocked(u) ~> ~Blocked(u) \/ ~Running
=============================================================================
