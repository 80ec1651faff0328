# A verification of the TP2 SO G20 kernel

This directory holds a TLA+ model of the system in `src/TPE_SO`: a
single-processor x86-64 teaching kernel with preemptive multi-level round robin,
processes with zombies and `waitpid`, semaphores, pipes, two memory managers,
drivers for keyboard, timer, speaker and screen, and the programs that come with
it: a shell, test programs, philosophers, an MVar and a snake. TLC checks the model
on small instances; TLAPS proves the main invariants of the scheduler, the
semaphores, the pipes, the keyboard, the speaker, the clock, the memory of
processes, the MVar, the philosophers, the shell's line editor and the snake for
every value of the constants. Paths below are relative to `src/TPE_SO`.

## 1. The system

### Components, their state and operations

| Component | Source | State | Operations |
|---|---|---|---|
| Scheduler, process table | `Kernel/processes/schedule.c` | `processTable`, `processCount`, `nextAvailablePid`, one ready list per level, the blocked list, `currentPid`, `currentLevel`, `remainingQuantum`, `shouldKillForegroundProcess` | `schedule`, `yield`, `createProcess`, `killProcess`, `killForegroundProcess`, `blockProcess`, `unblockProcess`, `setPriority`, `setStatus`, `getZombieRetValue`, `getProcessInfoList` |
| Process control block | `Kernel/processes/process.c` | ids, status, priority, stack, arguments, descriptors, `targetWaitPid`, `deadChildrenList` | `initProcess`, `freeProcess`, `closeFileDescriptors`, accessors |
| Linked lists | `Kernel/lib/linkedListADT.c` | `first`, `last`, `len`, an iterator | append, prepend, remove, iterate, free |
| Semaphores | `Kernel/semaphores/semaphore.c` | `value`, spinlock, waiting queue of PCB pointers | open, close, `down`, `up` |
| Pipes | `Kernel/pipes/pipeManager.c` | ring buffer, reader and writer pid, `isBlocking`, `qtyPipes`, `lastFreePipe` | request, grant, revoke, transmit, retrieve |
| Memory managers | `Kernel/memory/*.c` | free lists by size (buddy), block list (heap) | alloc, free, info |
| Keyboard | `Kernel/drivers/keyboard.c`, `Kernel/asm/interrupts.asm` | ring of 128 characters, modifier flags, a second copy of Ctrl in the handler | scan code handler, `sys_read` |
| Timer, speaker, clock | `Kernel/drivers/time.c`, `sound.c`, `Kernel/asm/libasm.asm` | the tick counter; the speaker; the clock chip | `timer_master`, `sys_sleep`, `beep`, the registers |
| Screen | `Kernel/drivers/videoDriver.c` | cursor, `charSize`, what is drawn | `drawChar`, `newLine`, `backspace`, clear, sizes |
| System call and interrupt entry | `Kernel/interruptions/*`, `Kernel/asm/*` | none | `sys_master`, `_irq00handler`, `forceTimerTick` |
| Start-up | `Toolchain/ModulePacker`, `Kernel/loader.asm`, `kernel.c`, `moduleLoader.c` | the image, the addresses of `globals.h` | pack, load modules, clear .bss, create managers, idle and shell |
| Shell | `Userland/.../programs/shell.c` | the line, `last_command`, `lastc` | line editor, `readCommand` |
| Programs | `Userland/.../programs`, `snake.c` | MVar's cell, the table of `phylo`, the snake | see section 3 |
| Tests | `Userland/.../tests` | their loops | clients of the calls |
| User library | `userLibrary.c`, `string_lib.c`, `time.c` | none | numbers, `strtok`, time, one wrapper per system call |
| Exceptions, bootloader | `Kernel/interruptions/exceptions.c`, `Bootloader` | | section 7 |

### How they interact

* System calls (`int 0x80`) and IRQs enter through *interrupt* gates
  (`idtLoader.c`), so the interrupt flag is clear while the kernel runs. A call
  is atomic, except where the kernel itself executes `int 0x20`: `yield()` and
  `killForegroundProcess()` run `schedule()` in the middle of the call, and the
  rest of the call runs when the process is dispatched again.
* Semaphores and pipes suspend their caller with `setStatus(BLOCKED); yield()`
  and wake others with `setStatus(READY)`; their queues hold pointers or pids
  that the scheduler may have recycled.
* `killProcess` closes the descriptors of its victim, which calls into the
  pipes, which may call `yield()`.
* The keyboard handler sets `shouldKillForegroundProcess`; `schedule()` acts on
  it between choosing the next process and switching to it.
* idle (pid 0) creates the shell (pid 1) with interrupts enabled.
* `killProcess`, `freeProcess` and `ps` give back what `initProcess`,
  `allocArguments` and `getProcessInfoList` took from a memory manager.
* The programs talk to the kernel by system calls only; between themselves they
  share semaphores, pipes and, since they are one binary, its static variables
  (`phylo`'s table, MVar's `value`).

### What is hard

What the kernel read before a `yield()` and uses after it; the order in which
parents, children and waiters die; a PCB, list and status field that must agree
although seven calls change them; pids and nodes that are recycled; limits
(table, levels, ring, pool); wakeups that are lost or go to somebody dead. The
full list, each at its line, is under `hazards` in `PROJECT.json`.

### What makes each component correct

* **Scheduler**: every process is in exactly the list its status and priority
  say; only READY processes are dispatched; the pid slot to be used is free; the
  counter matches the table; zombies stay reachable until reaped, and are
  reaped by their parent only; a waiting parent misses no exit and resumes with
  valid data; READY processes run in the end.
* **Semaphores**: nobody stays asleep while the value is positive and no wakeup is
  under way; whoever sleeps on an open semaphore can be reached by a post. (Who
  sleeps on one that is closed stays BLOCKED for ever.)
* **Pipes**: bytes come out once and in order, then the end of file; while a pipe
  exists neither end sleeps although it could go on; a pipeline left alone comes to its
  end; the pool's scan ends. (A writer whose reader dies early stays BLOCKED on a pipe
  that is gone.)
* **Lists**: the pointers are a sequence, also during a walk.
* **Memory**: pieces in use are disjoint, inside the area and large enough; what is
  freed can be had again; every block has one owner, who frees it.
* **Start-up**: every module arrives whole where it is looked for; the heap overlaps
  nothing.
* **Keyboard**: characters come out once and in order; both copies of Ctrl agree.
* **Timer, speaker, clock, screen**: no sleep is cut short and each ends; the
  speaker does not sound on; the time is one the clock had; no character is drawn
  over another.
* **MVar, philosophers**: the cell is exclusive, nothing is lost or taken twice, and
  it is filled and emptied for ever; neighbours do not eat at once; nobody hungry
  is forgotten.
* **Shell, user library, snake**: what is shown is what is run; numbers and arguments
  arrive as they left; the snake is a path, as long as what it ate makes it, and the screen shows it.
* **Tests**: none prints its error, and each gives the prompt back.

## 2. Plan

| Modules | Abstract specification | State |
|---|---|---|
| `Schedule`, `Semaphore` with `SemaphoreProofs` | | modelled, checked, invariants proved |
| `Pipe` with `PipeProofs` | `Channel` | modelled, refinement checked and proved |
| `LinkedList` with `KernelPartsProofs` | `NodeLists` | modelled, refinement checked and proved |
| `HeapMemory` with `KernelPartsProofs` | `Arena` | modelled, refinement checked and proved |
| `BuddyMemory` with `BuddyProofs` | `Arena` | modelled, refinement checked and proved |
| `ProcessMemory` with `KernelPartsProofs` | | modelled, checked, invariant proved |
| `Keyboard` with `DeviceProofs` | `Channel` | modelled, refinement checked and proved |
| `Boot`, `Screen`, `Timer`, `Clock` with `DeviceProofs` | | modelled, checked, safety proved |
| `MVar` with `UserPartsProofs` | `Channel` | modelled, refinement checked and proved |
| `Philosophers` with `PhilosophersProofs` | | modelled, checked, invariants proved |
| `Snake`, `Shell` with `UserPartsProofs` | | modelled, checked, invariants proved |
| `Text` | | modelled, checked |
| `TestSync`, `TestScheduling` on the scheduler, `TestMemory` on `Arena`, with `UserTestsProofs` | | modelled, checked, invariants proved |
| `KernelParts`, `UserParts` with their proofs, `UserTests` | | what TLC runs of the above |

What TLC checks and no theorem states is named at the end of section 6. Two pairs of
processes in `TestSync`, the constant of the code, do not fit the time of a run; the
theorem about it is for any number of pairs.

## 3. Modules

### `Schedule`

One action per call or interrupt; a call is atomic, and what follows its
`yield()` is an action of its own. `control` says what the processor does next:

* `"user"`: user code (or, for a process in `waiting`, the rest of
  `getZombieRetValue`);
* `"switch"`: `int 0x20` was just executed, `SoftTick` runs `schedule()`;
* `"kill"`: inside `schedule()`, `ForegroundKill` is the `killCurrentProcess(-1)`
  of a pending Ctrl+C. Its nested `yield()` never comes back.

| Model | Code |
|---|---|
| `status`, `parent`, `priority`, `targetWaitPid`, `zombieChildren` | fields of `ProcessCDT`; `"NONE"` is a NULL slot of `processTable` |
| `foreground` | `descriptorTable[STDIN] == STDIN` |
| `readyLevels` | the lists, as sequences: their order decides who runs |
| `blocked`, `zombieChildren` | lists whose order nothing reads, as sets |
| `waiting` | processes between `yield()` and the end of `getZombieRetValue` |
| `stale` | those of them whose saved `zombieNode` was freed by `unblockProcess` |
| `fault` | what ended the run: an endless loop (`"hang"`) or undefined behaviour (`"corrupt"`) |
| `TimerTick`, `SoftTick` | `_irq00handler`, `forceTimerTick` with `schedule` |
| `CreateProcess`, `Kill`, `Exit`, `CtrlC`, `Block`, `Unblock`, `SetPriority`, `Yield`, `WaitPid` + `WaitReturn` | the calls of the same names |
| `Wake`, `Sleep` | `setStatus(READY)` and `setStatus(BLOCKED); yield()` as semaphores and pipes use them |

Choices a reader should know of:

* A kernel node is identified with its process. The one place where that would
  hide something is `unblockProcess`, which frees the node and allocates
  another; the allocator may return the same address or not, so `stale` changes
  nondeterministically there.
* A freed slot holds canonical values, so that freed state is not told apart.
* After undefined behaviour the model stops: the source promises nothing.
* The state starts after the first tick, when idle runs alone. The start of the
  shell is one step.
* Allocation never fails (`ProcessMemory` is about that), pids given to calls are
  below `MAX_PROCESSES`, and the pipe ends of a process are left to `Pipe`.

`Syscalls` chooses which calls the processes of a run make, so that each run
spends its states on one question. With `AnyArguments = FALSE` callers respect
what the code silently assumes: the priority is a level, idle is not blocked,
nobody wakes or unblocks a process that waits in `getZombieRetValue` before its
child died, nor unblocks the child that somebody waits for.

### `Semaphore`

`semaphore.c` on top of `Schedule`: every step is a step of the scheduler together
with what it does to the semaphores (`KeepSemaphores`), or one of the four calls.

| Model | Code |
|---|---|
| `open`, `value` | `mgr->semaphores[id]` not NULL, `sem->value` |
| `waitingQueue` | the queue of `ProcessADT` pointers. A pointer is the pid of its process until `destroyZombie` frees the PCB, then `Dangling`: what is read through it may be any pid |
| `downOn` | the semaphore in whose `down()` a process was suspended (`None` outside, `Freed` when it was closed meanwhile) |
| `SemOpen`, `SemClose`, `SemWait`, `SemPost` | `mySemOpen`, `mySemClose`, `mySemWait`/`down`, `mySemPost`/`up` |
| `SemResume` | what follows the `yield()` in `down()`, up to its return or the next `yield()` |
| `ResumeFirstAvailable` | `resumeFirstAvailableProcess`: pops entries up to the first process alive and wakes it with `setStatus` |

A process dispatched inside `down()` is still in the kernel with interrupts off,
so that only `SemResume` happens to it (`InUser` guards everything else). The
spinlocks never appear: they are held only with interrupts off and released
before every `yield()`. `MaxValue` and `QueueBound` bound the values and the
queues; the code bounds neither.

`AnyKills = FALSE` is the discipline `Careful`: nobody dies between being woken
and running again, and no PCB is destroyed while a queue points to it. The code
does not enforce it; `sem_any` runs without it.

### `TestSync`

The command `testSync` from the shell's `create_process` and `wait_pid` to its
end: pairs of processes add -1 and +1 to one variable, with a `yield()` between
reading and writing it, each turn inside a semaphore opened by all of them with
value 1 (`use_sem` is 1; the test without its semaphore, which shows that updates are
lost, is not modelled). `pc`, `i`, `aux`, `inc` and `pids` are the program counters and
variables of those processes; each of their system calls is the action of
`Semaphore` or `Schedule` for it. The `pids` array is in creation order, which is
the order the code waits in.

### `TestScheduling`, `TestMemory`

`testProcesses` and `testPrio` on `Schedule`: `label`, `rq` and `p_rqs` are the place in
the program, its loop index and its array. `testProcesses` chooses at random in the
code and by `\E` here; `testPrio` is the list of calls `Script`. The shell starts
and waits for both, and Ctrl+C comes at any moment. It kills the test, which has its
workers inherited, and in `testPrio` they run on (or stay blocked) without end. `testMemory` runs twice over on
an `Arena`: whatever manager is compiled in, it sees only what `Arena` promises.

### `Pipe` and `Channel`

A call runs in one step up to its `yield()`; `call[p]` remembers the kernel call a
process is inside of, with the slot it works on, and `ResumeTransmit` and
`ResumeRetrieve` go on from there. `Spawn` is the creation of a pipeline by the shell
(`requestNewPipeHandle`, `grantPipeAccessToProcess` for either side), `KillProcess` the
closing of the victim's descriptors (`revokePipeAccessFromProcess`, which looks up in the
pipe, not in the descriptor, whether the victim is its writer or its reader) and may itself
suspend the killer in `transmitPipeData`. A process has at most one pipe among its
descriptors, as the shell gives them; ends opened by `pipeOpen` are in no descriptor. `qtyPipes` has
16 bits, as in the code (`QtyRange`), and every grant counts, those that fail too; `MaxGrants`
bounds it. A call on a pipe that is freed meanwhile is marked `lost`: its writer stays BLOCKED
unless something else unblocks it. `taken` and `ended` record what the reader was handed. A pipe's
memory may be reused at once, so a writer that yielded may find a new pipe at the
old address; `Open` with `"reuse"` does that. Which ready process runs is any:
`Schedule` is about the order.

`Channel` is the promise: the bytes taken are a prefix of those accepted, at most
`Capacity` are under way, the end is announced after the last byte. `sent` is, in the
mapping, `taken` followed by what is in the ring.

### `LinkedList` and `NodeLists`

Nodes with `next` and `prev`, lists with `first`, `last`, `len` and the iterator's `current`.
`removeNode` does not free, a freed node keeps its pointers, and a removed node may be
appended to another list while a walk stands on it. `NodeLists` says that the lists
are sequences without repetition and each walk goes from front to back, as long as
the node under the cursor is not removed, as the comment at line 112 asks. `Walk` is the
iterator's way along a pointer, at most one round; `Contents` is what it meets.

### `BuddyMemory`, `HeapMemory` and `Arena`

The buddy manager keeps a header per block in the memory it manages and a list of
free blocks per exponent; `AllocMemory` splits down, `FreeMemory` merges up, and the
holder of a block overwrites headers inside it with anything (`Garbage`), which is
what `freeMemory` may then read at a buddy's address. The heap keeps blocks in address
order, first fit. In the mapping a piece includes its header, so that `Arena` says
that no header is overwritten either.

### `ProcessMemory`

The six blocks of a process, those it allocates, and those of a `ps`, in a heap of
equal blocks with a lowest-free allocator. `Unblock` is `unblockProcess` with its free and its
allocation of the node. What `ps` and the dead leave behind
(the `free` at `userLibrary.c` 274 is a comment) is collected in `lost`.

### `Boot`

From `buildImage` to the shell's `_start`, in cells of 64 KB and with the addresses of
`globals.h`, `kernel.c` and `kernel.ld`. `memory` says of each cell what it holds. `Counted` is the
amount of memory as `kernel.c` 60 has it, a product of 32 bits: modulo 4 GB.

### `Keyboard`

`Key` is the interrupt: the assembly looks at the scan code first (`ctrl_pressed`,
`left_shift`), then `keyboard_master` (`ctrl`, `shift`, `capsLock`) and the ring. Ctrl+C leaves
the handler suspended (`pending`) until `KeyboardContinue`. `Read` is one `sys_read`.

### `Timer`, `Screen`, `Clock`

`Timer`: `ms_elapsed` is an `int` that wraps, ticks are kept modulo its period; `Yield`
counts as a tick, as `int 0x20` does. `Beep` turns the speaker on, or off when its frequency is
0; a delay may be 0. `hlt` lets other processes sleep and beep
meanwhile. `Screen`: positions in cells of 8 by 16 pixels, `inked` the cells something
is drawn in, the frame buffer a run of scan lines of length `PITCH`. `Clock`: three
reads of BCD registers with seconds passing in between.

### `MVar` and `Philosophers`

The programs on counting semaphores as `Semaphore` provides them, one atomic step per
semaphore operation or access to a shared variable. `MVar`: four processes per run of
the command beside the command itself, kills anywhere. `Philosophers`: `sem[MUTEX]` and one
semaphore per seat, `pc` per process, `main` the place of `phylo` in its loop over keys;
the static arrays keep what they held from one run of the command to the next. `pids` has the
cells of the array; `pids[indexPids]` outside of it reads as any pid (`PidRead`), and what is
written behind its end lands in `indexPids`, where the build puts it (`PutPid`).

### `Shell`, `Text`, `Snake`

`Shell`: the line editor key by key (`lastc` swallows a key equal to the last one unless
a NUL was read in between) and what `readCommand` makes of the line. A key outside the list
of `printLine` (`Others`) is shown and not kept. `buffer` has `MAX_BUFFER` cells and the store
does not look at its end: what goes past it overwrites `last_command`, which lies behind
(`Spill`), until the next line is copied there, cut to `MAX_BUFFER` (`Remembered`). `Text`: each
conversion is one step from its input to its result; `Init` ranges over all inputs of
the bounded lengths. `Snake`: a step is a frame, keys wait in the buffer, `getChar` is
called twice per frame as in the code. The score on the screen is left out: it is static
(`snake.c` 20) and set back only when a game ends by itself, so it says nothing sure of
the game that is played; `eaten` counts the food of this one.

### `KernelParts`, `UserParts`, `UserTests`

Three modules for TLC. The components they hold share no variable with one another,
so interleaving their steps would multiply states and show nothing: `part` (or
`test`) says which one moves, `Init` chooses it, and a property of a component is
stated as `part = ... => ...`. Components that do interact are composed in their own
modules: `Semaphore` on `Schedule`, `TestSync` and `TestScheduling` on those, `TestMemory` on
`Arena`, and the drivers with the interrupts and processes around them.

### The proof modules

`SemaphoreProofs` (which begins with the scheduler), `PipeProofs`, `BuddyProofs` and
`PhilosophersProofs` hold the theorems about the module they are named after, for every
value of its constants. `DeviceProofs`, `KernelPartsProofs`, `UserPartsProofs` and
`UserTestsProofs` hold those about the properties the runs `kernel`, `user` and `tests` check.
They instantiate the proof modules of their parts with the parts' constants and variables
(`OfBuddy`, `OfPipeline`, `OfGrowing`, ...) and cite their lemmas, or prove in place: the keyboard, the
speaker, the clock, the screen, the timer and the start in `DeviceProofs`; the memory of processes,
the heap manager and the lists in `KernelPartsProofs`; MVar, the shell's line and the snake in
`UserPartsProofs`; the tests in `UserTestsProofs` (section 6).

## 4. Runs

| Run | Bounds | Shows |
|---|---|---|
| `any` | 5 slots, 2 levels; create, kill, block, unblock, nice, wake, sleep, wait with any arguments | `TypeOK`, `QueuesMatchStatus`, `ZombiesReachable`, `RunningIsCurrent`, `DispatchesReady`: the structure survives every call in every order, up to the call that corrupts memory |
| `table` | 6 slots, 1 level, at most 5 processes; create, exit, kill, wait, yield | `LeastFreePid`, `CountMatchesTable`, `NoLostExit`, `ReapedByParent` |
| `ctrlc` | 5 slots, 2 levels, at most 4 processes; create, exit, Ctrl+C, wait, block, unblock, sleep, wake under the preconditions | `NoFault`, `WaitersResumeSafely`: what was read before the `yield()` is good after it |
| `fair` | 5 slots, 2 levels, at most 4 processes; create, kill, exit, yield, Ctrl+C, block, unblock | `ReadyRuns` |
| `full` | 3 slots | finding: taking the last slot never returns |
| `ps` | 4 slots | finding: the entries of blocked processes are never filled in |
| `posts` | 5 slots, 2 levels, 3 processes besides idle, 2 semaphores with values 0 and 1; create, exit, kill, nice, open, wait, post; careful kills | `NoLostWakeup` |
| `sem_any` | 5 slots, 1 level, 3 processes besides idle, 1 semaphore, queues up to 3; create, kill, unblock, waitpid, open, close, wait, post; kills at any moment | `SleepersQueued` |
| `tests` | 7 slots, 5 levels (those of the code); `testSync` with 1 pair and 2 rounds; `testProcesses` and `testPrio` with 3 workers; 2 copies of `testMemory` on 3 bytes | `UpdatesKept`, `NoTestError`, `KeepsPriority`, `TestsReturn` |
| `pipe` | 2 slots, rings of 2 bytes, a writer, a reader and the shell; every end opened and closed by anybody, kills, stray wakeups, addresses reused | `CountCoversPool` |
| `kernel` | section below | `ServesWhenRoom`, `BlocksHaveOneOwner`, `ModulesIntact`, `CtrlCopiesAgree`, `SpeakerOwned`, `ShowsTheTime`, `ImplementsArena`, `ImplementsNodeLists`, `ImplementsChannel`, `SleepsLongEnough`, `WaitsEnd`, `OverprintsNothing` |
| `user` | section below | `CellExclusive`, `TableExclusive`, `NoForgottenHunger`, `EchoMatchesBuffer`, `ArgumentsArrive`, `SnakeIsPath`, `SleepersWait`, `ChannelsImplemented`, `DataGetsThrough` |

**Scheduler and semaphores.** Two levels and four or five processes are enough for a
process to be in the wrong one of two lists, for a rotation to pass over a level, for a
grandchild to outlive a zombie, for a pid to be reused while its old owner's
parent still has it as wait target, and for two processes to wait. `ProcessBound`
keeps the table from filling where the question is another one; `full` removes
it. With three processes on a semaphore one can sleep, one be woken and a third
take the unit in between; two semaphores show a wakeup that goes to the wrong
one.

**Tests.** One pair and two rounds make each process come back to a semaphore that the
other has used; with two pairs, the constant of the code, the state space does
not fit the time these runs are meant to take. Three workers are what `testPrio` has.
Three bytes make the two copies of `testMemory` run into each other.

**Kernel parts.** Buddy: 16 bytes with blocks from 2, so four levels split and merge, and
sizes on both sides of a power of two. Heap: 26 bytes, four sizes, room for several pieces
and both ways of coalescing. Processes: 2, on 12 blocks, exactly what two need: a creation fits only where
everything of another was given back.
Lists: 2 lists and 3 nodes, so a middle node, and one in each list. Boot: kernels and
modules of one to three cells and one that nearly fills its place, memories around the
powers of two and one above 4 GB. Keyboard: a ring of 3, so it wraps and fills with 3 keys, two letters
(of which `c` and `d` mean something with Ctrl). Timer: a counter that wraps at 10 ms
with 1.5 ms per tick, started at zero and right before the wrap, delays of 0 and 3, and two
processes of which one beeps and the other may be killed. Screen: 3 by 3 with
characters of size 1 and 2, so that 2 does not divide the width. Clock: eight times of
the day at which digits or the date change, and up to two seconds passing.

**User parts.** MVar: two runs over each other with kills, and one run left alone
(`"quiet"`), with two puts remembered. Philosophers: growing from three seats to four, and with
every key from two to three; one meal in a row and a hunger threshold of one, so that
both limits bite. At a table of at most three everybody sits beside the newcomer; the
fourth seat shows which of the others a growing table may forget. Shell: a buffer of three cells and
lines of up to four keys, with recall, erasure, an `&`, a command, a key that is shown and not
kept, and keys that come early; lines with a pipe are those of `Shell_pipe`. Text: ints of 9
bits, so that every number is tried and the smallest one is among them. Snake: a board
of 4 by 3 with one food eaten, for one and two players. Pipe: two slots of two bytes,
four bytes sent, reads of 1 and 3: less than the ring and more than it holds.

`any`, `full`, `sem_any`, `pipe`, `kernel` and `user` allow the system to stop: after a fault,
or when a part has used up its bound or come to its end.

`NoLostWakeup` does not hold for every workload, and the repository nowhere says
that it does; the run states the conditions under which it does. What breaks it:

* a woken process is killed before it runs: its wakeup goes with it;
* `block` or `unblock` is called on a process inside `down()`;
* a process that once waited for a child with pid *n* sleeps in `down()` while a
  later child that reuses *n* dies: `targetWaitPid` is never reset, so it is
  woken, finds the value 0 and queues a second time. The old entry stays in the
  queue and a later `up()` spends its wakeup on it.

A pipe is a `Channel` in the pipelines of the shell, kills, early ends and stray wakeups
included. In the run `pipe`, where programs open and close slots they were not given, it
is not (a stranger reads, and a reused address receives what was meant for the old
pipe), and no program of the repository does so; there only the pool is checked.
`ChannelsImplemented` holds for MVar's cell unless a second run of the command clears it.

### Where the code and its texts disagree

Two disagreements are runs:

* `full`: `createProcess` checks `processCount >= MAX_PROCESSES` (line 136) and prints "Too
  many processes", but the creation before that one already loops for ever looking
  for a free slot (162-164).
* `ps`: `getProcessInfoList` returns `processCount` entries and fills in only those of idle,
  the ready levels and their zombie children.

Ten more were met while modelling. Each has a property in its module that states the
text, and a configuration under which TLC shows a trace against it
(`tlc -config X.cfg M`):

| Configuration, module | Property | The text | The code |
|---|---|---|---|
| `Phylo_remove`, `Philosophers` | `RemoveRemoves` | "'r' to remove one" (`phylo.c` 259) | kills `pids[indexPids]`, one past the last (244), and then decrements |
| `Phylo_quit`, `Philosophers` | `QuitStopsAll` | "'q' to quit" (`phylo.c` 259) | `indexPids` is static and never reset, so a second start's philosophers outlive its quit (271) |
| `Boot_stack`, `Boot` | `StackIsKernels` | "Set up the stack with the returned address" (`loader.asm` 8-9) | `initializeKernelBinary` is void; `rsp` becomes what the last callee left in `rax` |
| `Snake_key`, `Snake` | `KeySteers` | "Use WASD to move" (`snake.c` 208) | `getChar` is called twice and its first answer thrown away (217) |
| `Shell_pipe`, `Shell` | `AnyTwoPipe` | "[process] \| [process] for piping 2 processes" (`builtin.c` 41) | names of two words (`snake 1`) are not found in a pipeline (246) |
| `Shell_amp`, `Shell` | `AmpersandDoesNotWait` | "&[process] for background process" (`builtin.c` 42) | the branch for pipelines never reads `background` (220-273) |
| `Screen_back`, `Screen` | `BackspaceErasesEnd` | "paso al final de la linea anterior" (`videoDriver.c` 126) | goes one column past the last, and wipes what the next scan line begins with (128-137) |
| `Clock_carry`, `Clock` | `ShowsActualTime` | "shows actual time" (`builtin.c` 13) | three reads with nothing compared (`time.c` 43-45) |
| `Text_filter`, `Text` | `FiltersOnlyVowels` | "filter vowels from input" (`builtin.c` 37) | drops doubled letters too (`process_commands.c` 146) |
| `ProcessMemory_low`, `ProcessMemory` | `CreatedWhole` | "Error: Memory allocation failed" (`schedule.c` 144) | only the PCB's allocation is checked; `initProcess` checks none of its four (152-163) |

## 5. Fairness

`FairSpec` assumes weak fairness of `TimerTick`, `SoftTick`, `ForegroundKill` and
`WaitReturn`, and of nothing a process decides to do. The timer interrupts
whatever user code runs, and it is never masked for ever: every kernel path is
finite except the endless scan, which the bound excludes. `SoftTick`,
`ForegroundKill` and `WaitReturn` are the next instructions of kernel code that
runs with interrupts off.

`ReadyRuns` excludes idle (it runs only when no level has a process) and is
stated for workloads without wakeups. `setStatus` puts a woken process in
*front* of the highest level, so processes that keep sleeping and waking each
other can keep a READY process of that level from ever reaching the head.
`AGING_THRESHOLD` is defined (line 17) and never used; nothing in the repository
promises the contrary, so this is recorded as a hazard, not as a finding.

`UserTestsFairness` assumes weak fairness of the timer and of kernel code that runs with
interrupts off, and strong fairness of the steps of each process: a process that is
given the processor again and again executes an instruction before some tick. Weak
fairness would not do, because the step is disabled whenever another process is
current. Nothing is assumed of what the scheduler chooses: that is the model's.
`TestsReturn` says that `testSync` comes to its end, `testPrio` to its own or to
that of Ctrl+C, and that Ctrl+C brings the prompt back from `testProcesses`; nothing is said of `testMemory`, two
copies of which may ask for memory for ever.

`Fairness` of `KernelParts`: readers of the keyboard poll it without end, the timer ticks,
and a sleeper is dispatched again and again before another one halts (strong, since
it is disabled while others halt). `WaitsEnd` adds `MaxLate` to it, as a guard: a sleeper
that is due looks at the counter before the counter has gone round, which takes
2^32 ms in the code.

`PartsFairness` of `UserParts`: each step of MVar's processes in the part without kills (the
scheduler comes round to every process, and all have the same priority); in a
pipeline the resumption of a call, the end of a program, the reader's next read and
the shell's creation of the two sides. That the writer writes, or how much, is
not assumed.

## 6. Proofs

Each module names what it assumes of its constants, and TLC evaluates that in the
runs. The scheduler has at least two slots and one level, and `ProcessBound` within the
table (`SizeAssumption`, `WorkloadAssumption`, `SemaphoreAssumption`). A pipe's ring has room
for a byte, nobody is called `NoPid`, the end of file is not a byte, programs have one side of
a pipeline and a read asks for at least one byte (`NamesAssumption`). The keyboard's ring
has at least two places and reads ask for a number of bytes; processes are finitely
many (`ProcessMemoryAssumption`); a run of the command `phylo` begins with a number of
philosophers between its two limits, of which the lower is at least two
(`TableAssumption`); a snake's board is at least 2 by 2, a snake at least 2 long and
never as long as its array (`SnakeAssumption`); the kernel with its .bss, the shell with its own and
the data module fit below what lies behind them, and the memory that the kernel counts, modulo 4 GB, is at least 9 MB
(`BootAssumption`; of exactly 4 or 8 GB it counts none, the difference at `kernel.c` 63 goes below
zero and the heap past the end of memory); a tick is longer than a millisecond, no delay above the bound on lateness, and
that one below the range of the counter (`TimerAssumption`). Where a theorem asks for more, its
hypothesis says so, and why is told below.

The first part of `SemaphoreProofs` proves, of `Schedule`, `Spec => []P` for `TypeOK`, `LeastFreePid`,
`CountMatchesTable`, `QueuesMatchStatus` and `ZombiesReachable`, through one
inductive invariant `IInv`, their conjunction with `IdleScheduled` (idle is never
blocked, killed or listed; `killProcess` and `setStatus` refuse it) and
`QuantumNonNegative`. They need one another:

* `removeNode` computes the right list only if the process is in it, once
  (`QueuesMatchStatus`), and whether it is depends on status and priority being
  what they were when it was put there;
* `killProcess` destroys the zombies in a list, so the count stays right only if
  everything in the list really occupies a slot (`ZombiesReachable`), and the
  parent is found by a pid that may have been reused, so a zombie can only be
  handed to a parent that is alive *after* the dead man's zombies are gone;
* `createProcess` stores into a slot that must be free (`LeastFreePid`), or all
  three break at once.

The proof has one lemma per action, under it one step per conjunct, and list
lemmas for append, prepend, remove and rotate (each keeps the sequence free of
duplicates and changes its members as named). `FS_*` facts of the library count
the slots freed and taken.

`RunningIsCurrentHolds` and `DispatchesReadyHolds` rest on `RunInv` beside `IInv`:
a process that kills itself stays current for a moment, and `RunInv` says that
this lasts no longer than the tick which replaces it (`control = "switch"` with
quantum left means that the current process is alive, because `killProcess` sets
the quantum to zero). The current process is then the only one RUNNING, whatever
`getNextPid` takes from a list is READY, and a dead process is never resumed.
`ScheduleChanges`, `KillChanges` and the other `...Changes` lemmas say once what each
part of the kernel can do to a status; the semaphores and the tests use them.

The wait protocol is proved on top of this:

* `ReapedByParentHolds`: a zombie goes only by its parent, or with its parent. The
  proof follows `killProcess`, `freeProcess` and `getZombieRetValue` through what each
  takes out of the table (`ZombiesReachable` says in whose list it was).
* `NoLostExitHolds`, if nobody calls `block`: a parent waits on a child it has looked at
  before its `yield()`; from there on the death of the child wakes it. `block` may put
  such a parent to sleep again, and nothing then wakes it.
* `WaitersResumeHolds` and `NoFaultHolds`, if callers keep to the preconditions
  (`AnyArguments = FALSE`): `WaitersOwnTarget` (who waits is alive and its target is its
  child) and `WaitersReturn` (the node it will read is the target's, and not freed)
  are inductive together. `NoFault` also needs `ProcessBound < MaxProcesses`: with the
  last slot taken the scan never ends (`full`).

The second part proves about `SemSpec`, under `SemaphoreAssumption`:

* `SemTypeCorrect` and `SemQueuesHold`: `SemTypeOK` and `QueuesMatchStatus` for every
  workload. A step of the semaphores is to the scheduler one of its own steps, a
  `setStatus` or a fault (`SchedulerStep`), so `IInv` survives it.
* `SleepersReachable`: `SleepersQueued`, if nobody calls `block`: who sleeps on an open semaphore is
  in its queue. `mySemClose` frees the queue with whoever sleeps in it; such a process (`Freed`)
  stays BLOCKED, no post reaches it, and the property does not speak of it. The invariant adds
  that a process is only inside `down()` of an open semaphore (`DownOpen`), or
  else reopening it would empty its queue. `StatusChanges` says, once for all,
  how a step of the kernel can change a status; only `WaitPid` blocks its caller,
  who is then not inside `down()`.
* `NoWakeupLost`: `NoLostWakeup`, for the workloads `PostsOnly` (careful kills; no `block`,
  `unblock`, `waitpid` or Ctrl+C). The invariant adds that user code runs in a
  scheduled process (`Quiet`) and that a queue holds each process once, every
  entry alive being asleep on that very semaphore (`QueueInv`). So the entry a post
  finds is a sleeper, and waking it adds one to the woken as the post adds one
  to the value; a decrement takes one from both, or from the value alone.

In `UserPartsProofs`, `CellExclusiveHolds` is about MVar, for any number of runs and whatever is killed:
`CellExclusive` (one process inside at a time, both semaphores down meanwhile, never both
up) is not inductive alone, because opening the second semaphore with 1 while somebody
is inside would break it. `OpenedInOrder` says that the second is opened after the
first, and that until then only the run that opens them moves.

`CellIsChannel`: the cell is a `Channel` of capacity one as long as no second run clears it;
`FirstRunInv` ties each semaphore and each place in the program to the cell being empty or
full.

`PipeProofs` proves about pipes, for rings, tables and reads of every size:

* `TableHolds` and `CountCoversPoolHolds`, whatever is opened, closed, killed and reused, the second
  as long as `qtyPipes` has not wrapped (`MaxGrants < QtyRange`): a
  suspended call refers to a slot in use unless its pipe is gone (`KeepsSlot`), so that
  what it does when it goes on changes no free slot, and `qtyPipes`, which falls with
  the slots and never below their number, ends the scan for a free one.
* `ReaderKeepsPipeHolds`, for the same workloads: nobody but the reader frees the pipe it
  reads from, also when the writer's descriptors are closed by a killer.
* `SleepersWaitHolds`, in the shell's pipelines (`ShellOnly`): `PipelineInv` says that there is one
  pipeline, that its ends are those the shell gave, and that whoever is blocked is the
  writer at a full ring or the reader, inside its call, at an empty one, and marked as such,
  or else a writer whose reader has freed the pipe: of that one the property says nothing.
  Without `ShellOnly` a stranger's write may find the mark of another.
* `NobodyStrandedHolds`, if nobody ends early, is killed or woken from outside (`Calls = {}`): no
  writer is left on a pipe that is gone, since the reader dies only after the end of the
  stream, which is the last thing its writer wrote (`StrandedInv`).
* `PipeNoFaultHolds`, if nobody is killed or woken from outside (`Calls = {}`): the end that
  is reached for exists, since the mark is only left by somebody who still sleeps.
* `ImplementsChannelHolds`, unless a freed address is used again: the bytes of a ring are a
  sequence (`PipeRing`), a store appends to it and a fetch takes its head; after the end
  of file nothing is stored (`StillOpen`), because whoever was still sending has lost
  its pipe or is the one that closes it. So every step of the pool is a step of the
  `Channel` of each slot.

`PhilosophersProofs`, for any number of seats, processes, meals and runs over each other:

* `MutexHolds` and `NotAllWaitHolds`, whatever keys are pressed. `MUTEX` is down while anybody
  is between its wait and its post (`Alone`), removals and a quit included, because the
  command takes it before it removes. When all are hungry somebody has had its
  meals: the last to become hungry found no neighbour eating, and only its meals can have
  kept it from eating.
* `NeighboursHold` and `HungerHolds`, while philosophers only come. `GrowingInv` says which seat
  each process has (`Seated`), which state and private semaphore go with each place in its
  program (`Matched`), and, as long as `MUTEX` is free, that neighbours do not eat and the
  hungry are fed (`Apart`, `Fed`), `test` being the only way to begin. A table that grows
  gives two philosophers a new neighbour. Who waits for the former one is not tested
  when that one puts down its forks, which is why `NoForgottenHunger` excepts who sits
  beside a newcomer. With `r`, seats change hands between two looks at them, and
  neither theorem holds.

`SnakeIsPathHolds`, for one player or two: a body is a path of distinct neighbouring points and a
snake never turns into its neck. `GameInv` adds that the segment behind the head is where the
direction came from (`Behind`), that what was eaten tells the lengths, and, for one
player, that the screen is the board.

`UserPartsProofs` proves what the run `user` checks of these, and `EchoMatches`: what the shell shows
is its line, which it runs if it fits in the buffer. With keys that are shown and not kept the screen
has exactly that many more. It needs `RecallRepeats`: the line that is recalled is the one
`last_command` holds, so the erased characters are the shown ones. A line that filled the buffer, which
`copy_command` may have cut, and one that was typed over since (`spilled`) may repeat something else.

`DeviceProofs`:

* `CtrlCopiesAgreeHolds` and `KeyboardIsChannel`: the ring's contents are a sequence for rings of
  every size (`Wrapped` does the arithmetic of its indices), a key appends to it or, when
  it is full, changes nothing, and a short read takes a prefix.
* `SpeakerOwnedHolds`, for any number of beepers that nobody kills (one that is killed leaves the
  speaker on, and so the run's `Killable` are others): off when the last beeper is back, whatever
  frequencies, 0 among them, they asked for.
* `ShowsTheTimeHolds`, at every time of the day: the conversion from BCD, the three hours'
  shift and midnight. It asks that the three reads do not take a whole day less a
  minute (`MaxTicks <= 86340`), or the same minute would be another day's.
* `OverprintsNothingHolds`: what is drawn lies in a row above the cursor's or to its left in it
  (`Before` in `ScreenInv`), and where a character goes, nothing does. Erasing takes away the end of
  that, a new row and a larger letter keep it. The hypothesis `ScreenHolds` says that a letter of
  the largest size fits the screen, whose size with two letters more fits the 16 bits of the
  cursor in pixels.
* `SleepsLongEnoughHolds`, for every rate of ticks and width of the counters: the difference of two
  readings of `ms_elapsed`, as an int, is the time that passed, whatever wrapped in between, as
  long as that is below half the range (the lemmas about quotients and remainders by what is
  not a literal), and a sleeper leaves as soon as it is not below the delay. The hypothesis
  that no delay is above `Half` is needed: `sys_sleep` compares with a signed difference
  (`irqDispatcher.c` 168-171), and a delay beyond 2^31 ms is cut short.
* `ModulesIntactHolds`, for every size of kernel and modules and every amount of memory of which the
  kernel counts more than is loaded: until it is unpacked the image is
  what was packed (`BootInv`), so `loadModules` reads each size where it stands; what it copies to lies
  behind what is still to be read; and then the two .bss, the managers and the stack lie
  where no module does. `PowerBelow` has a value because what is counted is below 4 GB: the least power
  whose double is larger. The heap then ends before the memory that is counted, and so before
  the memory there is.

`KernelPartsProofs`:

* `BlocksHaveOneOwnerHolds`: `MemoryInv` says that the blocks in use are those of the
  processes, of a `ps` under way and of `lost`, all apart from one another, and that a free
  slot holds none.
* `HeapImplementsArena` and `HeapServesWhenRoom`, for every size of memory, header, block and
  request. `HeapInv` says that the blocks lie one after another from the first byte to the last,
  linked both ways (`Chain`), that each piece has a block in use and each block in use its piece
  (`Owned`), and that no two free blocks lie side by side (`Twins`). A split and a join of
  neighbours keep the chain (`SplitChain`, `JoinChain`). `freeMemory` looks at the next block and
  then at the previous one, which is enough because at most those two were free. Without `Twins`
  the room between two pieces might be two blocks, each too small for what fits both.
* `ImplementsNodeListsHolds`, for any number of lists and any finite number of nodes. `ListInv`
  says that each list's pointers link a sequence without repetition (`Linked`), that `len` counts
  it, that no node is in two lists, that a listed node is allocated, and that a walk stands on a
  node of its list. `Contents` walks the pointers recursively; `AlongMeets` shows what it
  meets by giving the walk's result, checking that it satisfies the recursion, and taking a
  least place where a solution could differ, so no induction is needed. `AppendLinks`,
  `PrependLinks` and `RemoveLinks` are the three relinkings, about one list's pointers alone; the
  other lists keep theirs because the nodes written are in no other list (`RelinkedKeeps`).
  Nothing is claimed of the pointers of a node in no list, which the code leaves stale.

`BuddyProofs` proves `BuddyImplementsArena` and `BuddyServesWhenRoom`, for every size of memory,
smallest block and header; `KernelPartsProofs` draws `ImplementsArenaHolds` from the first and
from the heap's theorem. The argument:

* `Tiling`: the blocks in use and in the lists (`Starts`) cover the memory once, each aligned to
  its size. Of two aligned blocks with a byte in common one contains the other (`Inside`), so
  a split and a merge replace blocks by others that cover the same bytes (`Replaced`).
* `Kept`: the header of a block in use says so, that of a listed one says which list, and every
  piece has a block that holds it. Headers elsewhere may say anything: their holders write there.
* `BuddyIsFree`: at the address where `freeMemory` looks for a buddy some block starts: one that
  began before it would be larger and cover the block that is freed too. So the header read there
  is a current one, and a buddy that it calls free and of this size is in the list of this size.
* `NoTwins`: no two halves of a block are both free. Hence, where a block could lie and no piece
  does, one free block covers all of it: take a smallest block there; its buddy is not cut
  further, and would be free as well.

Three hypotheses: `BuddyAssumption` says of `^` what the provers do not know of it, that 2^e is
positive and 2^(e+1) its double up to the largest exponent (TLC evaluates it in the run `kernel`);
that a smallest block has room for its header (24 bytes in 32); and `Requests`, that no request is
larger than the memory. The last is stated in each theorem because the code does not ensure it: the
loop of `allocMemory` stops at the largest block, fit or not (line 101), and so the test `exp >
maxExp` behind it refuses nothing. The run `kernel` takes requests that fit.

`UserTestsProofs` is about the tests as programs on the scheduler, for any number of workers:

* `UpdatesKeptHolds`: the unit of the semaphore is in it or with the one process in `slowInc`, from its
  wait to its post; so what that process read of the global is still what it holds, and the sum is
  that of the rounds done (`the change of one element changes the sum by as much`, shown of
  the folds of the community modules by their definition). Half of the workers add 1 and half take 1
  away, and the command prints when `waitpid` has returned for every one: the sum is then 0, as
  the test wants.
* `NoTestErrorHolds`: what a copy of `testMemory` holds is apart from what the other holds, so what it
  wrote is there when it looks. The calls of `testProcesses` and `testPrio` succeed because the family of
  processes (idle, the shell, the command and its workers) is what the test's own record says,
  and a table with room for one more always has a slot; hence `TOTAL_PROCESSES + 3 < MaxProcesses`,
  since the creation that takes the last slot never returns (`full`).
* `KeepsPriorityHolds`, for `TOTAL_PROCESSES <= QtyReadyLevels` (three workers on five levels in the
  code, so that each priority `test_prio.c` asks for exists): from its creation to its kill each worker
  is blocked or scheduled, and has the priority, as the last calls on it say (`LastNice`); no dispatch in
  between changes that, nor does a Ctrl+C, after which the workers are left as they were.
* `TestsDoNoHarm`: under the same hypotheses no call of the two tests reaches undefined behaviour and what the
  command read before it waited is good when it goes on. They block, unblock and kill while
  somebody waits, which `NoFaultHolds` excludes in general; here the only ones they do it to are
  their own workers, who never wait.

**Only model-checked:** liveness (`ReadyRuns`, `TestsReturn`, `WaitsEnd`, `DataGetsThrough`), which
is out of the prover's reach; `InfoExact` of both memory managers, and with it the whole of
`ServesWhenRoom`, of which `HeapServesWhenRoom` and `BuddyServesWhenRoom` are the rest; and `ArgumentsArrive`,
which is about numbers and texts that recursive definitions write and read digit by digit
(induction over data). `SemTypeOK` is proved and checked by no run.

## 7. Not modelled

* **Exceptions** (`exceptions.c`, `interrupts.asm` 299-323): the handler prints the registers
  and rewrites the interrupted frame, so that the faulting process goes on at the
  first instruction of the shell's module, on the stack at `getStackBase`, after clearing
  the .bss that the shell uses. It is a matter of registers and stacks, of which no
  line of the repository states anything; listed under hazards.
* **Bootloader** (`Bootloader`): third-party (Pure64, BMFS). What it does for the kernel, a copy
  of the image, is external in `Boot`.
* **Font** (`bitMap.c`): data. Shapes and colours of pixels, register dumps and the kernel's
  debug listing of the scheduler (`schedule.c` 449-573) only print.
* **A `qtyPipes` that has wrapped**, after 65536 grants: the scan of `requestNewPipeHandle` may then find
  no free slot. A hazard, and outside what is checked and proved of the pool.
* **`testSync` without its semaphore** (`use_sem` 0), the shell's extra two bytes between `buffer` and
  `last_command`, and what `pids[-1]` overwrites in `phylo`.
* **ModulePacker's command line**, and the commands of the shell that only print (`help`,
  `time` apart from `Clock`, `loop`, `cat`, `wc`, `mem`).
* The few instructions at boot in which idle creates the shell with interrupts enabled,
  and `main`'s last `cli; hlt`: one step in the model, listed under hazards.
