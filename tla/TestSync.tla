------------------------------ MODULE TestSync ------------------------------
(***************************************************************************)
(* The user program testSync (Userland/SampleCodeModule/tests/test_sync.c) *)
(* started from the shell, on the modelled scheduler and semaphores: pairs *)
(* of processes decrement and increment one variable, with a yield()       *)
(* between the read and the write, inside a semaphore.                     *)
(***************************************************************************)
EXTENDS Semaphore

CONSTANTS
    SEM_ID,
    TOTAL_PAIR_PROCESSES,
    Rounds   \* n, the argument of the command

ASSUME TestSyncAssumption ==
    /\ SEM_ID \in Sems /\ MaxValue >= 1
    /\ TOTAL_PAIR_PROCESSES \in Nat \ {0} /\ Rounds \in Nat \ {0}
    /\ {"create", "ctrlC", "exit", "wait", "yield", "semOpen", "semClose",
        "semWait", "semPost"} \subseteq Syscalls

VARIABLES
    global,   \* the shared variable
    pc,       \* where in its program each process is
    i,        \* the loop index of each process
    aux,      \* the local copy in slowInc
    inc,      \* the third argument of my_process_inc
    pids      \* the array of test_sync; pids[0] is test_sync itself

programVars == <<global, pc, i, aux, inc, pids>>
testSyncVars == <<semaphoreVars, programVars>>

Children == 1..(2 * TOTAL_PAIR_PROCESSES)

TestSyncInit ==
    /\ SemInit
    /\ global = 0
    /\ pc = [p \in Pids |-> "command"]
    /\ i = [p \in Pids |-> 0]
    /\ aux = [p \in Pids |-> 0]
    /\ inc = [p \in Pids |-> 0]
    /\ pids = [c \in {0} \cup Children |-> IDLE_PID]

-----------------------------------------------------------------------------
At(label) == UserMode /\ InUser /\ currentPid # IDLE_PID /\ pc[currentPid] = label
Goto(label) == pc' = [pc EXCEPT ![currentPid] = label]

\* create_process: the new process reads the keyboard and starts at "label".
Spawn(prio, child, label, step) ==
    /\ CreateProcess(prio, TRUE) /\ KeepSemaphores
    /\ pids' = [pids EXCEPT ![child] = nextAvailablePid]
    /\ pc' = [pc EXCEPT ![nextAvailablePid] = label]
    /\ i' = [i EXCEPT ![nextAvailablePid] = 0, ![currentPid] = @ + 1]
    /\ inc' = [inc EXCEPT ![nextAvailablePid] = step]
    /\ UNCHANGED <<global, aux>>

\* user_sem_open: succeeds too when the semaphore is open already.
UserSemOpen ==
    \/ SemOpen(SEM_ID, 1)
    \/ open[SEM_ID] /\ UNCHANGED semaphoreVars

\* readCommand in the shell: the command runs in the foreground.
Shell ==
    \/ At("command") /\ i[currentPid] = 0 /\ Spawn(1, 0, "openTest", 0)
    \/ /\ At("command") /\ i[currentPid] = 1
       /\ WaitPid(pids[0]) /\ KeepSemaphores
       /\ i' = [i EXCEPT ![currentPid] = 2]
       /\ UNCHANGED <<global, pc, aux, inc, pids>>

TestSync ==
    \/ /\ At("openTest")
       /\ UserSemOpen
       /\ Goto("create") /\ global' = 0
       /\ UNCHANGED <<i, aux, inc, pids>>
    \/ /\ At("create") /\ i[currentPid] < 2 * TOTAL_PAIR_PROCESSES
       /\ Spawn(3, i[currentPid] + 1, "open",
                IF i[currentPid] % 2 = 0 THEN -1 ELSE 1)
    \/ /\ At("create") /\ i[currentPid] = 2 * TOTAL_PAIR_PROCESSES
       /\ Goto("join") /\ i' = [i EXCEPT ![currentPid] = 0]
       /\ UNCHANGED <<semaphoreVars, global, aux, inc, pids>>
    \/ /\ At("join") /\ i[currentPid] < 2 * TOTAL_PAIR_PROCESSES
       /\ WaitPid(pids[i[currentPid] + 1]) /\ KeepSemaphores
       /\ i' = [i EXCEPT ![currentPid] = @ + 1]
       /\ UNCHANGED <<global, pc, aux, inc, pids>>
    \/ /\ At("join") /\ i[currentPid] = 2 * TOTAL_PAIR_PROCESSES
       /\ Goto("print")
       /\ UNCHANGED <<semaphoreVars, global, i, aux, inc, pids>>
    \/ /\ At("print")
       /\ SemClose(SEM_ID)
       /\ Goto("return")
       /\ UNCHANGED <<global, i, aux, inc, pids>>

\* my_process_inc, with slowInc from "read" to "write".
MyProcessInc ==
    \/ /\ At("open")
       /\ UserSemOpen
       /\ Goto("wait")
       /\ UNCHANGED <<global, i, aux, inc, pids>>
    \/ /\ At("wait") /\ i[currentPid] < Rounds
       /\ SemWait(SEM_ID)
       /\ Goto("read")
       /\ UNCHANGED <<global, i, aux, inc, pids>>
    \/ /\ At("wait") /\ i[currentPid] = Rounds
       /\ Goto("return")
       /\ UNCHANGED <<semaphoreVars, global, i, aux, inc, pids>>
    \/ /\ At("read")
       /\ aux' = [aux EXCEPT ![currentPid] = global]
       /\ Goto("yield")
       /\ UNCHANGED <<semaphoreVars, global, i, inc, pids>>
    \/ /\ At("yield")
       /\ Yield /\ KeepSemaphores
       /\ Goto("write")
       /\ UNCHANGED <<global, i, aux, inc, pids>>
    \/ /\ At("write")
       /\ global' = aux[currentPid] + inc[currentPid]
       /\ Goto("post")
       /\ UNCHANGED <<semaphoreVars, i, aux, inc, pids>>
    \/ /\ At("post")
       /\ SemPost(SEM_ID)
       /\ Goto("wait") /\ i' = [i EXCEPT ![currentPid] = @ + 1]
       /\ UNCHANGED <<global, aux, inc, pids>>

\* The return of a process through processWrapper.
Return ==
    /\ At("return")
    /\ Exit /\ KeepSemaphores
    /\ UNCHANGED programVars

Program == Shell \/ TestSync \/ MyProcessInc \/ Return

Tick ==
    /\ InUser /\ (TimerTick \/ StartShell) /\ KeepSemaphores
    /\ UNCHANGED programVars
Kernel ==
    /\ \/ KernelStep /\ KeepSemaphores
       \/ SemResume
    /\ UNCHANGED programVars

TestSyncNext == Program \/ Tick \/ Kernel

-----------------------------------------------------------------------------
(* Properties                                                              *)

\* The semaphore, initially 1, keeps slowInc to one process at a time, however
\* the timer interleaves them and although slowInc itself yields.
OneInSlowInc ==
    \A p, q \in Pids :
        (downOn[p] = None /\ downOn[q] = None
           /\ {pc[p], pc[q]} \subseteq {"read", "yield", "write", "post"})
        => p = q

\* "Final value:" as many increments as decrements leave the variable at 0
\* once test_sync has waited for all of its processes.
FinalValueIsZero ==
    \A p \in Pids : pc[p] = "print" => global = 0

\* No update is lost on the way either: outside slowInc the variable is the
\* sum of what the processes have completed.
NoLostUpdate ==
    (\A p \in Pids : pc[p] \in {"read", "yield", "write"} => downOn[p] # None)
    => global = MapThenSumSet(
            LAMBDA p : inc[p] * (i[p] + (IF pc[p] = "post" THEN 1 ELSE 0)), Pids)
=============================================================================
