----------------------------- MODULE KernelParts ----------------------------
(***************************************************************************)
(* The parts of the kernel beside the scheduler: the two memory managers,  *)
(* what the process table takes from them, the linked lists, the start-up, *)
(* the keyboard, the timer, the screen and the clock.  They share no       *)
(* variable, so nothing is lost when only one of them moves: Init chooses  *)
(* which, and each has its own module.                                     *)
(***************************************************************************)
EXTENDS Integers, Sequences

CONSTANTS MIN_EXP, MaxExp, HeaderSize, BuddySizes           \* BuddyMemory
CONSTANTS memAmount, BLOCK_SIZE, HEADER_SIZE, HeapSizes     \* HeapMemory
CONSTANTS Pids, HeapSize, MaxMine, MaxLost                  \* ProcessMemory
CONSTANTS Lists, Nodes, NoNode                                \* LinkedList
CONSTANTS KernelSizes, CodeSizes, DataSizes,                \* Boot
          KernelBss, UserBss, Amounts
CONSTANTS KEYBOARD_BUFFER_SIZE, Keys, Lens,                 \* Keyboard
          MaxKeys, MaxPending
CONSTANTS Procs, Killable, Beepers, Delays,                 \* Timer
          MsNum, MsDen, Half, MaxLate
CONSTANTS WIDTH, HEIGHT, PITCH, MaxSize                     \* Screen
CONSTANTS Starts, MaxTicks                                  \* Clock

VARIABLE part    \* the one that moves
VARIABLES header, free, handed
VARIABLES block, heapHanded
VARIABLES used, pcb, alive, mine, snapshot, lost
VARIABLES first, last, current, len, next, prev, allocated
VARIABLES files, memory, stage, currentModule, loaded, heap, rax, rsp
VARIABLES keyboardBuffer, bufferHead, bufferTail, shift, capsLock, ctrl,
          left_shift, ctrl_pressed, hasInforeg, shouldKill, pending, taken
VARIABLES ticks, phase, start, ms, slept, speaker, beeping
VARIABLES cursorX, cursorY, charSize, inked, above
VARIABLES chip, began, pc, hours, minutes, seconds

BuddyManager == INSTANCE BuddyMemory WITH Sizes <- BuddySizes
HeapManager == INSTANCE HeapMemory WITH Sizes <- HeapSizes, handed <- heapHanded
OfProcesses == INSTANCE ProcessMemory
TheLists == INSTANCE LinkedList
TheBoot == INSTANCE Boot
TheKeyboard == INSTANCE Keyboard
TheTimer == INSTANCE Timer
TheScreen == INSTANCE Screen
TheClock == INSTANCE Clock

ASSUME PartsAssumption ==
  /\ BuddyManager!BuddyAssumption /\ HeapManager!HeapAssumption
  /\ OfProcesses!ProcessMemoryAssumption /\ TheLists!ListAssumption /\ TheBoot!BootAssumption
  /\ TheKeyboard!KeyboardAssumption /\ TheTimer!TimerAssumption
  /\ TheScreen!ScreenAssumption /\ TheClock!ClockAssumption

Parts == {"buddy", "heap", "processes", "lists", "boot", "keyboard", "timer",
          "screen", "clock"}
buddyVars == <<header, free, handed>>
heapVars == <<block, heapHanded>>
processVars == <<used, pcb, alive, mine, snapshot, lost>>
listVars == <<first, last, current, len, next, prev, allocated>>
bootVars == <<files, memory, stage, currentModule, loaded, heap, rax, rsp>>
keyboardVars == <<keyboardBuffer, bufferHead, bufferTail, shift, capsLock,
  ctrl, left_shift, ctrl_pressed, hasInforeg, shouldKill, pending, taken>>
timerVars == <<ticks, phase, start, ms, slept, speaker, beeping>>
screenVars == <<cursorX, cursorY, charSize, inked, above>>
clockVars == <<chip, began, pc, hours, minutes, seconds>>
vars == <<part, buddyVars, heapVars, processVars, listVars, bootVars, keyboardVars,
          timerVars, screenVars, clockVars>>

(* Of the parts that do not move, those with many initial states are in    *)
(* one of them, and there is no memory for a kernel that does not start.   *)
NotStarted ==
  /\ files = <<>> /\ memory = <<>> /\ stage = "off" /\ currentModule = 0 /\ loaded = 0
  /\ heap = <<>> /\ rax = 0 /\ rsp = 0
Init ==
  /\ part \in Parts
  /\ BuddyManager!Init /\ HeapManager!Init /\ OfProcesses!Init /\ TheLists!Init
  /\ IF part = "boot" THEN TheBoot!Init ELSE NotStarted
  /\ TheKeyboard!Init
  /\ TheTimer!Init /\ (part # "timer" => ticks = 0)
  /\ TheScreen!Init
  /\ TheClock!Init /\ (part # "clock" => chip = CHOOSE s \in Starts : TRUE)

(* A step of p: the others stay as they are.                               *)
Moves(p, Step) ==
  /\ part = p /\ Step /\ UNCHANGED part
  /\ IF p = "buddy" THEN TRUE ELSE UNCHANGED buddyVars
  /\ IF p = "heap" THEN TRUE ELSE UNCHANGED heapVars
  /\ IF p = "processes" THEN TRUE ELSE UNCHANGED processVars
  /\ IF p = "lists" THEN TRUE ELSE UNCHANGED listVars
  /\ IF p = "boot" THEN TRUE ELSE UNCHANGED bootVars
  /\ IF p = "keyboard" THEN TRUE ELSE UNCHANGED keyboardVars
  /\ IF p = "timer" THEN TRUE ELSE UNCHANGED timerVars
  /\ IF p = "screen" THEN TRUE ELSE UNCHANGED screenVars
  /\ IF p = "clock" THEN TRUE ELSE UNCHANGED clockVars
Next ==
  \/ Moves("buddy", BuddyManager!Next) \/ Moves("heap", HeapManager!Next)
  \/ Moves("processes", OfProcesses!Next) \/ Moves("lists", TheLists!Next)
  \/ Moves("boot", TheBoot!Next) \/ Moves("keyboard", TheKeyboard!Next)
  \/ Moves("timer", TheTimer!Next) \/ Moves("screen", TheScreen!Next)
  \/ Moves("clock", TheClock!Next)

(* The shell and the programs that read STDIN poll it without end.  The    *)
(* timer ticks, and the scheduler comes round to a sleeper again and again *)
(* before another one halts.                                               *)
Fairness ==
  /\ WF_keyboardVars(part = "keyboard" /\ TheKeyboard!SysRead)
  /\ WF_timerVars(part = "timer" /\ TheTimer!TimerMaster)
  /\ \A p \in Procs : SF_timerVars(part = "timer" /\ TheTimer!Run(p))
Spec == Init /\ [][Next]_vars /\ Fairness

-----------------------------------------------------------------------------
(* malloc and free of either manager, with every split, merge and shift of *)
(* theirs, hand out pieces as the abstract arena does: inside the memory,  *)
(* no two of them overlapping, until they are freed.                       *)
ImplementsArena ==
  /\ BuddyManager!AsArena!Init /\ HeapManager!AsArena!Init
  /\ [][/\ part = "buddy" => [BuddyManager!AsArena!Next]_(BuddyManager!Mapped)
        /\ part = "heap" => [HeapManager!AsArena!Next]_(HeapManager!Mapped)]_vars
(* Either manager serves a request whenever its way of cutting and joining *)
(* leaves room for it: what has been freed is not lost.  Its lists are in  *)
(* order, and what `mem` reports free is what no piece takes.              *)
ServesWhenRoom ==
  /\ part = "buddy" =>
       BuddyManager!BuddyTypeOK /\ BuddyManager!ServesWhenRoom /\ BuddyManager!InfoExact
  /\ part = "heap" =>
       HeapManager!HeapTypeOK /\ HeapManager!ServesWhenRoom /\ HeapManager!InfoExact
(* The linked lists are sequences of nodes, and a walk along one is safe   *)
(* against what is added and removed around it (LinkedList).               *)
ImplementsNodeLists ==
  /\ TheLists!AsSequences!Init
  /\ [][part = "lists" => [TheLists!AsSequences!Next]_(TheLists!AsSequences!vars)]_vars
  /\ [](part = "lists" => TheLists!BothDirections)
(* What is typed is read in order, each character once, whatever mixture   *)
(* of overflow, end of file and short reads (Keyboard).                    *)
ImplementsChannel ==
  /\ TheKeyboard!AsChannel!Init
  /\ [][part = "keyboard" =>
          [TheKeyboard!AsChannel!Next]_(TheKeyboard!AsChannel!channelVars)]_vars
(* Every block in use belongs to one process, once, or is lost as          *)
(* ProcessMemory says: none is freed twice or while another has it.        *)
BlocksHaveOneOwner == part = "processes" => OfProcesses!BlocksHaveOneOwner
(* When the shell starts, every module lies where it is looked for, whole, *)
(* the kernel's variables are zero, and the heap is above all of it (Boot).*)
ModulesIntact == part = "boot" => TheBoot!ModulesIntact /\ TheBoot!HeapIsFree
(* Ctrl is remembered twice, in assembly and in C, and the two agree; and  *)
(* the indices of the buffer stay in it (Keyboard).                        *)
CtrlCopiesAgree ==
  part = "keyboard" => TheKeyboard!CtrlCopiesAgree /\ TheKeyboard!KeyboardTypeOK
(* A sleeper comes back after the ms it asked for, to the tick (Timer).    *)
SleepsLongEnough == TheTimer!SleepsLongEnough
(* Whoever sleeps comes back, and whoever types is read.                   *)
WaitsEnd == TheTimer!SleepEnds /\ TheKeyboard!KeysDelivered
(* The speaker does not sound on when every process that beeped is back    *)
(* from it, although they cut each other off (Timer).                      *)
SpeakerOwned == part = "timer" => TheTimer!SpeakerOwned
(* No character is drawn over another, whatever is printed, erased and     *)
(* resized in whatever order, where Screen says so.                        *)
OverprintsNothing == TheScreen!OverprintsNothing
(* Unless a minute ends while it runs, `time` shows a time the clock had   *)
(* meanwhile, at any time of the day (Clock).                              *)
ShowsTheTime == part = "clock" => TheClock!ShowsTheTime
=============================================================================
