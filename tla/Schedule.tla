------------------------------ MODULE Schedule ------------------------------
(***************************************************************************)
(* The process table and the scheduler of the kernel                       *)
(* (Kernel/processes/schedule.c, Kernel/processes/process.c).              *)
(*                                                                         *)
(* System calls and interrupt handlers enter through interrupt gates, so   *)
(* the interrupt flag is clear while they run: every operation below is    *)
(* one action, except where the code itself executes int 0x20 (yield,      *)
(* forceTimerTick), which runs schedule() in the middle of it.  "control"  *)
(* says what the processor does next: "user" code, "switch" (the int 0x20  *)
(* just executed) or "kill" (the killCurrentProcess inside schedule()).    *)
(***************************************************************************)
EXTENDS Integers, Sequences, FiniteSets, FiniteSetsExt

CONSTANTS
    MaxProcesses,    \* MAX_PROCESSES, the slots of processTable
    QtyReadyLevels,  \* QTY_READY_LEVELS
    ProcessBound,    \* bound of the model: none is created beyond this many
    Syscalls,        \* the operations the processes of this workload call
    AnyArguments     \* FALSE: callers respect the preconditions in Permitted*

ASSUME SizeAssumption ==
    /\ MaxProcesses \in Nat /\ MaxProcesses >= 2
    /\ QtyReadyLevels \in Nat /\ QtyReadyLevels >= 1
    /\ ProcessBound \in Nat /\ ProcessBound <= MaxProcesses

ASSUME WorkloadAssumption == AnyArguments \in BOOLEAN

Pids         == 0..(MaxProcesses - 1)
Levels       == 0..(QtyReadyLevels - 1)
IDLE_PID     == 0
SHELL_PID    == 1
\* Mutant of MAX_PRIORITY: one past the last level.
MaxPriorityPastEnd == QtyReadyLevels
MAX_PRIORITY == QtyReadyLevels - 1
Unkillable   == {IDLE_PID, SHELL_PID}

VARIABLES
    status,         \* "NONE" when the slot of processTable is NULL
    parent,         \* parentProcessId
    priority,       \* processPriority
    foreground,     \* descriptorTable[STDIN] == STDIN
    targetWaitPid,
    zombieChildren, \* deadChildrenList of every process
    readyLevels,    \* one list of pids per level
    blocked,        \* blockedProcesses
    processCount, nextAvailablePid,
    currentPid, currentLevel, remainingQuantum,
    shouldKillForeground,
    waiting,        \* processes inside getZombieRetValue, past its yield()
    stale,          \* those whose saved zombieNode has been freed since
    control,        \* "user", "switch" or "kill"
    fault           \* "none", or the "hang" or "corrupt" memory that ended it

pcbVars   == <<status, parent, priority, foreground, targetWaitPid,
               zombieChildren>>
listVars  == <<readyLevels, blocked>>
tableVars == <<processCount, nextAvailablePid>>
cpuVars   == <<currentPid, currentLevel, remainingQuantum>>
waitVars  == <<waiting, stale>>
vars == <<pcbVars, listVars, tableVars, cpuVars, waitVars,
          shouldKillForeground, control, fault>>

Statuses == {"NONE", "READY", "RUNNING", "BLOCKED", "ZOMBIE"}
InTable(p)   == status[p] # "NONE"
Alive(p)     == status[p] \notin {"NONE", "ZOMBIE"}
Scheduled(p) == status[p] \in {"READY", "RUNNING"}

-----------------------------------------------------------------------------
(* linkedListADT.c on the lists the scheduler keeps, one node per process. *)

In(list, p) == \E i \in 1..Len(list) : list[i] = p
NoDuplicates(list) == \A i, j \in 1..Len(list) : list[i] = list[j] => i = j

AppendNode(list, p)  == Append(list, p)
PrependNode(list, p) == <<p>> \o list
RemoveNode(list, p) ==
    LET i == CHOOSE j \in 1..Len(list) : list[j] = p
    IN  [j \in 1..(Len(list) - 1) |-> IF j < i THEN list[j] ELSE list[j + 1]]

\* Undefined behaviour or an endless loop with interrupts off: nothing that
\* the source says holds from here on, so the model stops.
Crash(what) ==
    /\ fault' = what
    /\ UNCHANGED <<pcbVars, listVars, tableVars, cpuVars, waitVars,
                   shouldKillForeground, control>>

-----------------------------------------------------------------------------
(* After the first tick idle runs, alone, and has not created the shell.   *)
Init ==
    /\ status = [p \in Pids |-> IF p = IDLE_PID THEN "RUNNING" ELSE "NONE"]
    /\ parent = [p \in Pids |-> IDLE_PID]
    /\ priority = [p \in Pids |-> 0]
    /\ foreground = [p \in Pids |-> FALSE]
    /\ targetWaitPid = [p \in Pids |-> 0]
    /\ zombieChildren = [p \in Pids |-> {}]
    /\ readyLevels = [l \in Levels |-> <<>>]
    /\ blocked = {}
    /\ processCount = 1
    /\ nextAvailablePid = 1
    /\ currentPid = IDLE_PID
    /\ currentLevel = 0
    /\ remainingQuantum = 1
    /\ shouldKillForeground = FALSE
    /\ waiting = {}
    /\ stale = {}
    /\ control = "user"
    /\ fault = "none"

-----------------------------------------------------------------------------
(* getNextPid and schedule                                                 *)

LevelAt(i) == (currentLevel + i) % QtyReadyLevels
NonEmptyFrom(i) == /\ readyLevels[LevelAt(i)] # <<>>
                   /\ \A j \in 0..(i - 1) : readyLevels[LevelAt(j)] = <<>>
\* Mutant of Rotate: getNextPid forgets to move the node to the tail.
RotateNot(list) == list
Rotate(list) == AppendNode(Tail(list), Head(list))

\* getNextPid: the first process of the first non-empty level, counting from
\* currentLevel; it goes to the end of its list.  Idle when all are empty.
GetNextPid(next) ==
    \/ \E i \in Levels :
        /\ NonEmptyFrom(i)
        /\ next = Head(readyLevels[LevelAt(i)])
        /\ readyLevels' = [readyLevels EXCEPT ![LevelAt(i)] = Rotate(@)]
        /\ currentLevel' = (LevelAt(i) + 1) % QtyReadyLevels
    \/ /\ \A l \in Levels : readyLevels[l] = <<>>
       /\ next = IDLE_PID
       /\ UNCHANGED <<readyLevels, currentLevel>>

KeepRunning ==
    /\ remainingQuantum - 1 > 0
    /\ remainingQuantum' = remainingQuantum - 1
    /\ control' = "user"
    /\ UNCHANGED <<pcbVars, listVars, currentPid, currentLevel,
                   shouldKillForeground>>

\* Mutant of Preempted: schedule() forgets RUNNING -> READY.
PreemptedNot == status
Preempted == [status EXCEPT ![currentPid] = IF @ = "RUNNING" THEN "READY"
                                                             ELSE @]

\* A pending Ctrl+C is aimed at the next process if it reads the keyboard;
\* aimed at one that cannot be killed, it is lost.
SwitchTo(next) ==
    /\ remainingQuantum - 1 <= 0
    /\ GetNextPid(next)
    /\ currentPid' = next
    /\ \/ /\ shouldKillForeground /\ foreground[next]
          /\ next \notin Unkillable
          /\ status' = Preempted
          /\ remainingQuantum' = remainingQuantum - 1
          /\ control' = "kill"
       \/ /\ ~(shouldKillForeground /\ foreground[next])
             \/ next \in Unkillable
          /\ status' = [Preempted EXCEPT ![next] = "RUNNING"]
          /\ remainingQuantum' = priority[next] + 1
          /\ control' = "user"
    /\ shouldKillForeground' = (shouldKillForeground /\ ~foreground[next])
    /\ UNCHANGED <<parent, priority, foreground, targetWaitPid,
                   zombieChildren, blocked>>

DoSchedule ==
    /\ fault = "none"
    /\ KeepRunning \/ \E next \in Pids : SwitchTo(next)
    /\ UNCHANGED <<tableVars, waitVars, fault>>

UserMode == fault = "none" /\ control = "user" /\ currentPid \notin waiting

TimerTick == UserMode /\ DoSchedule
SoftTick  == control = "switch" /\ DoSchedule

-----------------------------------------------------------------------------
(* createProcess                                                           *)

\* Mutant of NextFree: the next slot, without looking whether it is NULL.
NextFreeUnchecked(free, from) == (from + 1) % MaxProcesses
\* The scan of createProcess for the next NULL slot, cyclic from "from".
NextFree(free, from) ==
    LET above == {q \in free : q >= from}
    IN  Min(IF above # {} THEN above ELSE free)

\* With the last slot taken the scan finds no NULL and never ends.  Nothing
\* checks the priority before it indexes readyLevels.
Create(prio, fg) ==
    LET pid  == nextAvailablePid
        free == {q \in Pids \ {pid} : ~InTable(q)}
    IN
    /\ processCount < ProcessBound
    /\ \/ prio \notin Levels /\ Crash("corrupt")
       \/ prio \in Levels /\ free = {} /\ Crash("hang")
       \/ /\ prio \in Levels /\ free # {}
          /\ status' = [status EXCEPT ![pid] = "READY"]
          /\ parent' = [parent EXCEPT ![pid] = currentPid]
          /\ priority' = [priority EXCEPT ![pid] = prio]
          /\ foreground' = [foreground EXCEPT ![pid] = fg]
          /\ targetWaitPid' = [targetWaitPid EXCEPT ![pid] = 0]
          /\ zombieChildren' = [zombieChildren EXCEPT ![pid] = {}]
          /\ readyLevels' = [readyLevels EXCEPT ![prio] = AppendNode(@, pid)]
          /\ processCount' = processCount + 1
          /\ nextAvailablePid' = NextFree(free, pid)
          /\ UNCHANGED <<blocked, cpuVars, waitVars, shouldKillForeground,
                         control, fault>>

StartShell ==
    /\ UserMode /\ currentPid = IDLE_PID /\ ~InTable(SHELL_PID)
    /\ Create(0, TRUE)

\* A process other than idle is about to make one of the workload's calls.
Calls(op) == UserMode /\ currentPid # IDLE_PID /\ op \in Syscalls

\* Reading the keyboard matters only to Ctrl+C.
CreateProcess(prio, fg) ==
    /\ Calls("create")
    /\ fg => "ctrlC" \in Syscalls
    /\ AnyArguments \/ prio \in Levels
    /\ Create(prio, fg)

-----------------------------------------------------------------------------
(* destroyZombie, killProcess                                              *)

\* Mutant of Clear: destroyZombie forgets to empty the slot.
ClearNot(f, dead, value) == f
Clear(f, dead, value) == [p \in Pids |-> IF p \in dead THEN value ELSE f[p]]

\* destroyZombie for every process of "dead"; the arguments are the fields as
\* the caller leaves them.  A freed slot holds canonical values.
DestroyZombies(dead, newStatus, newPriority, newZombies) ==
    /\ status' = Clear(newStatus, dead, "NONE")
    /\ parent' = Clear(parent, dead, IDLE_PID)
    /\ priority' = Clear(newPriority, dead, 0)
    /\ foreground' = Clear(foreground, dead, FALSE)
    /\ zombieChildren' = Clear(newZombies, dead, {})
    /\ processCount' = processCount - Cardinality(dead)
    /\ nextAvailablePid' = Min({nextAvailablePid} \cup dead)

\* Mutants of Inherits: a zombie inherits too; a blocked parent does not.
InheritsZombie(q, p) == q # p /\ q \notin zombieChildren[p] /\ InTable(q)
InheritsScheduled(q, p) ==
    q # p /\ q \notin zombieChildren[p] /\ Scheduled(q)
\* The parent is looked up in the table after the zombies of p are gone.
Inherits(q, p) == q # p /\ q \notin zombieChildren[p] /\ Alive(q)

\* Mutants of WakesParent: only a voluntary exit wakes the parent; any child's
\* exit does, whichever child it waits for.
WakesOnExitOnly(q, p) ==
    /\ Inherits(q, p) /\ q # IDLE_PID /\ p = currentPid
    /\ targetWaitPid[q] = p /\ status[q] = "BLOCKED"
WakesOnAnyChild(q, p) ==
    /\ Inherits(q, p) /\ q # IDLE_PID
    /\ status[q] = "BLOCKED"
\* isProcessWaitingFor, and setStatus refusing idle.
WakesParent(q, p) ==
    /\ Inherits(q, p) /\ q # IDLE_PID
    /\ targetWaitPid[q] = p /\ status[q] = "BLOCKED"

\* Mutant of WithoutReady: killProcess forgets removeNode.
WithoutReadyNot(p) == readyLevels
WithoutReady(p) ==
    IF status[p] = "BLOCKED" THEN readyLevels
    ELSE [readyLevels EXCEPT ![priority[p]] = RemoveNode(@, p)]

\* What happens to p, its zombie children and its parent.  Its own list of
\* zombies is emptied here: nobody reads the list of a dead process again.
KillProcess(p) ==
    LET q     == parent[p]
        heir  == Inherits(q, p)
        wakes == WakesParent(q, p)
        dead  == zombieChildren[p] \cup (IF heir THEN {} ELSE {p})
    IN
    /\ Alive(p) /\ p \notin Unkillable
    /\ DestroyZombies(
          dead,
          [r \in Pids |-> IF r = p THEN "ZOMBIE"
                          ELSE IF wakes /\ r = q THEN "READY" ELSE status[r]],
          [r \in Pids |-> IF wakes /\ r = q THEN MAX_PRIORITY ELSE priority[r]],
          [r \in Pids |-> IF r = p THEN {}
                          ELSE IF heir /\ r = q THEN zombieChildren[r] \cup {p}
                          ELSE zombieChildren[r]])
    /\ targetWaitPid' = Clear(targetWaitPid, dead, 0)
    /\ readyLevels' =
          IF wakes
          THEN [WithoutReady(p) EXCEPT ![MAX_PRIORITY] = PrependNode(@, q)]
          ELSE WithoutReady(p)
    /\ blocked' = blocked \ ({p} \cup (IF wakes THEN {q} ELSE {}))
    /\ waiting' = waiting \ {p}
    /\ stale' = stale \ {p}
    /\ control' = IF p = currentPid THEN "switch" ELSE "user"
    /\ remainingQuantum' = IF wakes \/ p = currentPid THEN 0
                                                      ELSE remainingQuantum
    /\ UNCHANGED <<currentPid, currentLevel, shouldKillForeground, fault>>

\* sys_kill_process, and the return of a process through processWrapper.
Kill(p) == Calls("kill") /\ KillProcess(p)
Exit    == Calls("exit") /\ KillProcess(currentPid)

\* killCurrentProcess inside schedule(), aimed at the process just chosen.
ForegroundKill == fault = "none" /\ control = "kill" /\ KillProcess(currentPid)

\* The keyboard handler: killForegroundProcess leaves the quantum alone.
CtrlC ==
    /\ UserMode /\ "ctrlC" \in Syscalls
    /\ shouldKillForeground' = TRUE
    /\ control' = "switch"
    /\ UNCHANGED <<pcbVars, listVars, tableVars, cpuVars, waitVars, fault>>

-----------------------------------------------------------------------------
(* blockProcess, unblockProcess, setPriority, setStatus                    *)

\* Mutant of Suspend: the node stays in its ready level.
SuspendInPlace(p) ==
    /\ status' = [status EXCEPT ![p] = "BLOCKED"]
    /\ blocked' = blocked \cup {p}
    /\ UNCHANGED readyLevels
\* Moving p from its ready level to the blocked list.
Suspend(p) ==
    /\ status' = [status EXCEPT ![p] = "BLOCKED"]
    /\ readyLevels' = [readyLevels EXCEPT ![priority[p]] = RemoveNode(@, p)]
    /\ blocked' = blocked \cup {p}

Block(p) ==
    /\ Calls("block")
    /\ Scheduled(p)
    /\ \/ p = IDLE_PID /\ AnyArguments /\ Crash("corrupt")
       \/ /\ p # IDLE_PID
          /\ Suspend(p)
          /\ UNCHANGED <<parent, priority, foreground, targetWaitPid,
                         zombieChildren, tableVars, cpuVars, waitVars,
                         shouldKillForeground, control, fault>>

\* p is suspended in getZombieRetValue and its child has not died yet.
AwaitsExit(p) == p \in waiting /\ status[targetWaitPid[p]] # "ZOMBIE"

PermittedWake(p) == AnyArguments \/ ~AwaitsExit(p)
PermittedUnblock(p) ==
    /\ PermittedWake(p)
    /\ AnyArguments
         \/ \A w \in waiting : AwaitsExit(w) => targetWaitPid[w] # p

\* The node of p is freed and a new one allocated, perhaps at the address of
\* the old one; getZombieRetValue may be holding the old one for p's parent.
Unblock(p) ==
    LET holders == {w \in waiting : targetWaitPid[w] = p}
    IN
    /\ Calls("unblock")
    /\ status[p] = "BLOCKED" /\ PermittedUnblock(p)
    /\ status' = [status EXCEPT ![p] = "READY"]
    /\ readyLevels' = [readyLevels EXCEPT ![priority[p]] = AppendNode(@, p)]
    /\ blocked' = blocked \ {p}
    /\ remainingQuantum' = 0
    /\ stale' \in {stale, stale \cup holders}
    /\ UNCHANGED <<parent, priority, foreground, targetWaitPid, zombieChildren,
                   tableVars, currentPid, currentLevel, waiting,
                   shouldKillForeground, control, fault>>

\* Mutant of SetPriority: accepted and not stored.
SetPriorityIgnored(p, prio) ==
    /\ Calls("nice")
    /\ InTable(p) /\ p # IDLE_PID /\ prio \in Levels
    /\ UNCHANGED vars
SetPriority(p, prio) ==
    /\ Calls("nice")
    /\ InTable(p) /\ p # IDLE_PID
    /\ priority' = [priority EXCEPT ![p] = prio]
    /\ readyLevels' =
         IF Scheduled(p)
         THEN LET rest == [readyLevels EXCEPT ![priority[p]] = RemoveNode(@, p)]
              IN  [rest EXCEPT ![prio] = AppendNode(@, p)]
         ELSE readyLevels
    /\ UNCHANGED <<status, parent, foreground, targetWaitPid, zombieChildren,
                   blocked, tableVars, cpuVars, waitVars, shouldKillForeground,
                   control, fault>>

\* setStatus(p, READY) by a semaphore or a pipe: p jumps the queue.
Wake(p) ==
    /\ Calls("wake")
    /\ p # IDLE_PID /\ status[p] \in {"BLOCKED", "RUNNING"}
    /\ PermittedWake(p)
    /\ status' = [status EXCEPT ![p] = "READY"]
    /\ \/ /\ status[p] = "BLOCKED"
          /\ blocked' = blocked \ {p}
          /\ priority' = [priority EXCEPT ![p] = MAX_PRIORITY]
          /\ readyLevels' =
               [readyLevels EXCEPT ![MAX_PRIORITY] = PrependNode(@, p)]
          /\ remainingQuantum' = 0
       \/ /\ status[p] = "RUNNING"
          /\ UNCHANGED <<blocked, priority, readyLevels, remainingQuantum>>
    /\ UNCHANGED <<parent, foreground, targetWaitPid, zombieChildren, tableVars,
                   currentPid, currentLevel, waitVars, shouldKillForeground,
                   control, fault>>

Yielding == remainingQuantum' = 0 /\ control' = "switch"

Yield ==
    /\ Calls("yield")
    /\ Yielding
    /\ UNCHANGED <<pcbVars, listVars, tableVars, currentPid, currentLevel,
                   waitVars, shouldKillForeground, fault>>

\* setStatus(own pid, BLOCKED): a no-op for a process that blocked itself.
SuspendCurrent ==
    \/ Scheduled(currentPid) /\ Suspend(currentPid)
    \/ status[currentPid] = "BLOCKED" /\ UNCHANGED <<status, listVars>>

\* A semaphore or a pipe suspends its caller: setStatus(BLOCKED), yield().
Sleep ==
    /\ Calls("sleep")
    /\ SuspendCurrent
    /\ Yielding
    /\ UNCHANGED <<parent, priority, foreground, targetWaitPid, zombieChildren,
                   tableVars, currentPid, currentLevel, waitVars,
                   shouldKillForeground, fault>>

-----------------------------------------------------------------------------
(* getZombieRetValue                                                       *)

\* removeNode(zombie children, zombieNode); destroyZombie(child)
Reap(child) ==
    /\ DestroyZombies({child}, status, priority,
          [zombieChildren EXCEPT ![currentPid] = @ \ {child}])
    /\ UNCHANGED <<listVars, cpuVars, shouldKillForeground, control, fault>>

\* Mutant of IsChild: getZombieRetValue does not compare the parent.
IsAnybody(p) == InTable(p)
IsChild(p) == InTable(p) /\ parent[p] = currentPid

WaitPid(child) ==
    /\ Calls("wait")
    /\ IsChild(child)
    /\ \/ /\ status[child] = "ZOMBIE"
          /\ targetWaitPid' = Clear([targetWaitPid EXCEPT ![currentPid] = child],
                                    {child}, 0)
          /\ Reap(child)
          /\ UNCHANGED waitVars
       \/ /\ status[child] # "ZOMBIE"
          /\ targetWaitPid' = [targetWaitPid EXCEPT ![currentPid] = child]
          /\ SuspendCurrent
          /\ Yielding
          /\ waiting' = waiting \cup {currentPid}
          /\ UNCHANGED <<parent, priority, foreground, zombieChildren,
                         tableVars, currentPid, currentLevel, stale,
                         shouldKillForeground, fault>>

\* What follows the yield() uses the child and the node read before it.
WaitReturn ==
    LET child == targetWaitPid[currentPid]
    IN
    /\ fault = "none" /\ control = "user" /\ currentPid \in waiting
    /\ \/ /\ currentPid \notin stale
          /\ child \in zombieChildren[currentPid]
          /\ targetWaitPid' = Clear(targetWaitPid, {child}, 0)
          /\ waiting' = waiting \ {currentPid}
          /\ Reap(child)
          /\ UNCHANGED stale
       \/ /\ currentPid \in stale \/ child \notin zombieChildren[currentPid]
          /\ Crash("corrupt")

-----------------------------------------------------------------------------
Next ==
    \/ TimerTick \/ SoftTick \/ ForegroundKill \/ CtrlC
    \/ StartShell
    \/ \E prio \in 0..QtyReadyLevels, fg \in BOOLEAN : CreateProcess(prio, fg)
    \/ \E p \in Pids : Kill(p) \/ Block(p) \/ Unblock(p) \/ Wake(p) \/ WaitPid(p)
    \/ \E p \in Pids, prio \in Levels : SetPriority(p, prio)
    \/ Exit \/ Yield \/ Sleep \/ WaitReturn

Spec == Init /\ [][Next]_vars

Fairness == /\ WF_vars(TimerTick) /\ WF_vars(SoftTick)
            /\ WF_vars(ForegroundKill) /\ WF_vars(WaitReturn)
FairSpec == Spec /\ Fairness

-----------------------------------------------------------------------------
(* Properties                                                              *)

\* Every field of the scheduler and of every PCB holds a value of its type.
TypeOK ==
    /\ status \in [Pids -> Statuses]
    /\ parent \in [Pids -> Pids]
    /\ priority \in [Pids -> Levels]
    /\ foreground \in [Pids -> BOOLEAN]
    /\ targetWaitPid \in [Pids -> Pids]
    /\ zombieChildren \in [Pids -> SUBSET Pids]
    /\ readyLevels \in [Levels -> Seq(Pids)]
    /\ blocked \in SUBSET Pids
    /\ processCount \in 0..MaxProcesses
    /\ nextAvailablePid \in Pids
    /\ currentPid \in Pids
    /\ currentLevel \in Levels
    /\ remainingQuantum \in -1..QtyReadyLevels
    /\ shouldKillForeground \in BOOLEAN
    /\ waiting \in SUBSET Pids
    /\ stale \in SUBSET Pids
    /\ control \in {"user", "switch", "kill"}
    /\ fault \in {"none", "hang", "corrupt"}

\* createProcess puts the new node in the slot nextAvailablePid without looking
\* at it, so that slot must be free; and it is the lowest free one, whatever
\* order processes died in.
LeastFreePid ==
    /\ ~InTable(nextAvailablePid)
    /\ \A p \in Pids : p < nextAvailablePid => InTable(p)

\* processCount counts the used slots: the limit test of createProcess and the
\* array that getProcessInfoList allocates depend on it.
CountMatchesTable == processCount = Cardinality({p \in Pids : InTable(p)})

\* removeNode is handed a list chosen from the status and the priority of the
\* process and never checks that the node is in it: every process but idle is
\* in exactly the list those two fields say, and once.
QueuesMatchStatus ==
    /\ \A l \in Levels : NoDuplicates(readyLevels[l])
    /\ \A l \in Levels, p \in Pids :
         In(readyLevels[l], p) <=> p # IDLE_PID /\ Scheduled(p) /\ priority[p] = l
    /\ blocked = {p \in Pids : status[p] = "BLOCKED"}

\* A zombie is in the list of its live parent and of nobody else: its parent
\* can reap it, and it is freed when the parent dies first.
ZombiesReachable ==
    /\ \A p \in Pids : status[p] = "ZOMBIE" =>
         Alive(parent[p]) /\ p \in zombieChildren[parent[p]]
    /\ \A q \in Pids : \A p \in zombieChildren[q] :
         status[p] = "ZOMBIE" /\ parent[p] = q

\* Only the current process is RUNNING, and user code never executes on behalf
\* of a process that is dead.
RunningIsCurrent ==
    /\ \A p \in Pids : status[p] = "RUNNING" => p = currentPid
    /\ control = "user" => Alive(currentPid)

\* What getZombieRetValue saved before its yield() is still good when a waiting
\* process runs again: the child is its own zombie and the node was not freed.
WaitersResumeSafely ==
    \A w \in waiting :
        /\ w \notin stale
        /\ InTable(targetWaitPid[w]) /\ parent[targetWaitPid[w]] = w
        /\ status[w] # "BLOCKED" => status[targetWaitPid[w]] = "ZOMBIE"

\* Under callers that respect the preconditions nothing hangs or corrupts.
NoFault == fault = "none"

\* No exit is missed: a process still blocked in getZombieRetValue has a child
\* that can still exit.  (For workloads that do not call block.)
NoLostExit ==
    \A w \in waiting : status[w] = "BLOCKED" => Alive(targetWaitPid[w])

\* The entries getProcessInfoList writes: idle, the processes of the ready
\* levels and their zombie children.  Those of blocked processes are left out.
SnapshotEntries ==
    LET perLevel(list) == MapThenSumSet(
            LAMBDA i : 1 + Cardinality(zombieChildren[list[i]]), 1..Len(list))
    IN  1 + MapThenSumSet(LAMBDA l : perLevel(readyLevels[l]), Levels)

\* "ps  list processes": every one of the "length" entries handed to the caller
\* has been filled in.
SnapshotComplete == SnapshotEntries = processCount

\* createProcess at the limit answers "Error: Too many processes": it returns.
NoHang == fault # "hang"

\* A process that gets the processor was READY: schedule() never gives it to a
\* blocked, dead or freed process, whatever was killed or moved meanwhile.
DispatchesReady ==
    [][currentPid' # currentPid => status[currentPid'] = "READY"]_vars

\* An exit value survives until the parent collects it or dies: a zombie leaves
\* the table only by its parent's wait or together with its parent.
ReapedByParent ==
    [][\A p \in Pids :
         status[p] = "ZOMBIE" /\ status'[p] = "NONE" =>
            \/ currentPid = parent[p]
            \/ status'[parent[p]] \in {"ZOMBIE", "NONE"}]_vars

\* Round robin: a READY process other than idle is dispatched, or leaves READY,
\* in the end.
\* (For workloads in which nobody jumps the queue or changes level.)
ReadyRuns ==
    \A p \in Pids \ {IDLE_PID} : status[p] = "READY" ~> status[p] # "READY"
=============================================================================
