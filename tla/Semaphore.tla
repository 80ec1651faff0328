----------------------------- MODULE Semaphore -----------------------------
(***************************************************************************)
(* The semaphores of the kernel (Kernel/semaphores/semaphore.c) on top of  *)
(* the scheduler they call.  Every step is a step of Schedule together     *)
(* with what it does to the semaphores, or a step of the semaphores alone. *)
(*                                                                         *)
(* acquire and release do not appear: the locks are only held with         *)
(* interrupts off and never across a yield(), so nobody finds one taken.   *)
(***************************************************************************)
EXTENDS Schedule

CONSTANTS
    Sems,        \* the semaphore ids in use, below MAX_SEMAPHORES
    MaxValue,    \* bound of the model: no post beyond this value
    QueueBound,  \* bound of the model: no queue grows longer
    InitialValues,  \* the initial values passed to mySemOpen
    AnyKills,    \* FALSE: kills respect the precondition Careful
    Dangling,    \* a queued pointer to the PCB of a destroyed process
    None,        \* outside down()
    Freed        \* inside down() of a semaphore that has been closed

ASSUME SemaphoreAssumption ==
    /\ MaxValue \in Nat /\ QueueBound \in Nat
    /\ InitialValues \subseteq 0..MaxValue
    /\ Dangling \notin Pids
    /\ None \notin Sems /\ Freed \notin Sems /\ None # Freed
    /\ AnyKills \in BOOLEAN
    /\ {"sleep", "wake"} \subseteq Syscalls /\ AnyArguments

VARIABLES
    open,          \* mgr->semaphores[sem_id] is not NULL
    value,
    waitingQueue,  \* pointers to the PCBs of the processes that wait
    downOn         \* the semaphore in whose down() a process was suspended

semVars == <<open, value, waitingQueue, downOn>>
semaphoreVars == <<vars, semVars>>

SemInit ==
    /\ Init
    /\ open = [s \in Sems |-> FALSE]
    /\ value = [s \in Sems |-> 0]
    /\ waitingQueue = [s \in Sems |-> <<>>]
    /\ downOn = [p \in Pids |-> None]

-----------------------------------------------------------------------------
(* The rest of the kernel.  A process dispatched inside down() is still in *)
(* the kernel with interrupts off: nothing but SemResume happens to it.    *)

InUser == downOn[currentPid] = None

Destroyed(p) == p # Dangling /\ InTable(p) /\ status'[p] = "NONE"

\* killProcess leaves the queues alone: they keep the pointer to the dead
\* process, and to its memory once destroyZombie has freed it.
KeepSemaphores ==
    /\ waitingQueue' =
         [s \in Sems |-> [i \in 1..Len(waitingQueue[s]) |->
             IF Destroyed(waitingQueue[s][i]) THEN Dangling
                                              ELSE waitingQueue[s][i]]]
    /\ downOn' = [p \in Pids |-> IF status'[p] \in {"NONE", "ZOMBIE"}
                                 THEN None ELSE downOn[p]]
    /\ UNCHANGED <<open, value>>

Sleeping(s) == {p \in Pids : downOn[p] = s /\ status[p] = "BLOCKED"}
Woken(s)    == {p \in Pids : downOn[p] = s /\ status[p] # "BLOCKED"}

\* Nobody dies between being woken and running again, and no PCB is destroyed
\* that a queue still points to.
Careful == AnyKills \/ \A s \in Sems :
    /\ \A p \in Woken(s) : downOn'[p] = s
    /\ \A i \in 1..Len(waitingQueue[s]) : ~Destroyed(waitingQueue[s][i])

UserStep ==
    \/ TimerTick \/ CtrlC \/ StartShell \/ Exit \/ Yield
    \/ \E prio \in Levels, fg \in BOOLEAN : CreateProcess(prio, fg)
    \/ \E p \in Pids : Kill(p) \/ Block(p) \/ Unblock(p) \/ WaitPid(p)
    \/ \E p \in Pids, prio \in Levels : SetPriority(p, prio)

KernelStep == SoftTick \/ ForegroundKill \/ WaitReturn

OtherStep ==
    \/ KernelStep /\ KeepSemaphores
    \/ InUser /\ UserStep /\ KeepSemaphores /\ Careful

-----------------------------------------------------------------------------
(* mySemOpen, mySemClose                                                   *)

\* Mutant of SemOpen: a semaphore that is open already is set up again.
SemOpenAgain(s, initialValue) ==
    /\ Calls("semOpen") /\ InUser
    /\ open' = [open EXCEPT ![s] = TRUE]
    /\ value' = [value EXCEPT ![s] = initialValue]
    /\ waitingQueue' = [waitingQueue EXCEPT ![s] = <<>>]
    /\ UNCHANGED <<vars, downOn>>
\* my_sem_init; a semaphore that is open already is left as it is.
SemOpen(s, initialValue) ==
    /\ Calls("semOpen") /\ InUser
    /\ ~open[s]
    /\ open' = [open EXCEPT ![s] = TRUE]
    /\ value' = [value EXCEPT ![s] = initialValue]
    /\ waitingQueue' = [waitingQueue EXCEPT ![s] = <<>>]
    /\ UNCHANGED <<vars, downOn>>

\* The queue and the semaphore are freed whoever sleeps on them.
SemClose(s) ==
    /\ Calls("semClose") /\ InUser
    /\ open[s]
    /\ open' = [open EXCEPT ![s] = FALSE]
    /\ value' = [value EXCEPT ![s] = 0]
    /\ waitingQueue' = [waitingQueue EXCEPT ![s] = <<>>]
    /\ downOn' = [p \in Pids |-> IF downOn[p] = s THEN Freed ELSE downOn[p]]
    /\ UNCHANGED vars

-----------------------------------------------------------------------------
(* mySemWait: down                                                         *)

Decrement(s) ==
    /\ value[s] # 0
    /\ value' = [value EXCEPT ![s] = @ - 1]
    /\ downOn' = [downOn EXCEPT ![currentPid] = None]
    /\ UNCHANGED <<vars, open, waitingQueue>>

\* Mutant of Enqueue: a process that was woken in vain does not queue again.
EnqueueOnce(s) ==
    IF downOn[currentPid] = None THEN Append(waitingQueue[s], currentPid)
                                 ELSE waitingQueue[s]
Enqueue(s) == Append(waitingQueue[s], currentPid)

\* setStatus(BLOCKED), release, yield(): SemResume is what follows it.
Suspended(s) ==
    /\ value[s] = 0 /\ Len(waitingQueue[s]) < QueueBound
    /\ waitingQueue' = [waitingQueue EXCEPT ![s] = Enqueue(s)]
    /\ downOn' = [downOn EXCEPT ![currentPid] = s]
    /\ Sleep
    /\ UNCHANGED <<open, value>>

SemWait(s) ==
    /\ Calls("semWait") /\ InUser
    /\ open[s]
    /\ Decrement(s) \/ Suspended(s)

Retry(s) == Decrement(s) \/ Suspended(s)

SemResume ==
    /\ fault = "none" /\ control = "user"
    /\ \/ downOn[currentPid] \in Sems /\ Retry(downOn[currentPid])
       \/ downOn[currentPid] = Freed /\ Crash("corrupt") /\ UNCHANGED semVars

-----------------------------------------------------------------------------
(* mySemPost: up, resumeFirstAvailableProcess                              *)

\* The pid read through a queued pointer; from freed memory, any.
PidsRead(pointer) == IF pointer = Dangling THEN Pids ELSE {pointer}

MaySkip(pointer) == \E p \in PidsRead(pointer) : ~Alive(p)

\* setStatus(p, READY): nothing to do for idle and for a READY process.
SetReady(p) ==
    IF p = IDLE_PID \/ status[p] = "READY" THEN UNCHANGED vars ELSE Wake(p)

\* Mutants of ResumeFirstAvailable: only the first pointer is looked at; the
\* process is taken out of the queue and not woken.
ResumeFirst(s) ==
    LET queue == waitingQueue[s]
    IN
    \/ /\ queue # <<>>
       /\ \E p \in PidsRead(queue[1]) :
            IF Alive(p) THEN SetReady(p) ELSE UNCHANGED vars
       /\ waitingQueue' = [waitingQueue EXCEPT ![s] = Tail(queue)]
    \/ queue = <<>> /\ UNCHANGED <<vars, waitingQueue>>
ResumeNobody(s) ==
    /\ waitingQueue' = [waitingQueue EXCEPT ![s] =
                          IF @ = <<>> THEN @ ELSE Tail(@)]
    /\ UNCHANGED vars
\* Pops pointers up to the first process that is alive, and wakes it.
ResumeFirstAvailable(s) ==
    LET queue == waitingQueue[s]
    IN
    \/ \E n \in 1..Len(queue) : \E p \in PidsRead(queue[n]) :
        /\ \A i \in 1..(n - 1) : MaySkip(queue[i])
        /\ Alive(p)
        /\ SetReady(p)
        /\ waitingQueue' =
             [waitingQueue EXCEPT ![s] = SubSeq(queue, n + 1, Len(queue))]
    \/ /\ \A i \in 1..Len(queue) : MaySkip(queue[i])
       /\ waitingQueue' = [waitingQueue EXCEPT ![s] = <<>>]
       /\ UNCHANGED vars

SemPost(s) ==
    /\ Calls("semPost") /\ InUser
    /\ open[s] /\ value[s] < MaxValue
    /\ value' = [value EXCEPT ![s] = @ + 1]
    /\ ResumeFirstAvailable(s)
    /\ UNCHANGED <<open, downOn>>

-----------------------------------------------------------------------------
SemNext ==
    \/ OtherStep
    \/ \E s \in Sems, v \in InitialValues : SemOpen(s, v)
    \/ \E s \in Sems : SemClose(s) \/ SemWait(s) \/ SemPost(s)
    \/ SemResume

SemSpec == SemInit /\ [][SemNext]_semaphoreVars
-----------------------------------------------------------------------------
(* Properties                                                              *)

\* Every field of the semaphores holds a value of its type; no semaphore is
\* ever below zero, where down() would let everybody through.
SemTypeOK ==
    /\ open \in [Sems -> BOOLEAN]
    /\ value \in [Sems -> 0..MaxValue]
    /\ waitingQueue \in [Sems -> Seq(Pids \cup {Dangling})]
    /\ downOn \in [Pids -> Sems \cup {None, Freed}]

\* Who sleeps in down() of an open semaphore can be reached by a post: it is in
\* the queue, also after others were killed, freed or woken from elsewhere.
\* A close is left out: it frees the queue, and who slept there (Freed) stays
\* BLOCKED, out of reach of any post, even if the semaphore is opened again.
SleepersQueued ==
    \A s \in Sems : \A p \in Sleeping(s) : In(waitingQueue[s], p)

\* No wakeup is lost: processes sleep on a semaphore above zero only while
\* as many processes have been woken for its units and have not run yet.
NoLostWakeup ==
    \A s \in Sems : Sleeping(s) # {} => value[s] <= Cardinality(Woken(s))
=============================================================================
