-------------------------------- MODULE Boot --------------------------------
(***************************************************************************)
(* From the packed image to the shell: ModulePacker appends the userland   *)
(* modules to the kernel binary, the bootloader copies the image to the    *)
(* kernel's address (external), and loader.asm calls                       *)
(* initializeKernelBinary and main.  Memory is counted in cells of 64 KB,  *)
(* addresses are those of globals.h, kernel.c and kernel.ld in cells; a    *)
(* uint32_t of the image takes a cell of its own.                          *)
(*                                                                         *)
(* The linker puts the kernel's .bss right behind the binary, where the    *)
(* modules arrive: they are read before it is cleared.                     *)
(***************************************************************************)
EXTENDS Integers, Sequences

CONSTANTS KernelSizes, CodeSizes, DataSizes,   \* of the files, in cells
          KernelBss, UserBss,                  \* the .bss of kernel and shell
          Amounts                              \* of memory: *memAmount

(* kernel.ld and globals.h: what the fixed addresses leave room for.       *)
KernelAddress == 16           \* 0x100000
MEMORY_MANAGER_ADDRESS == 5
SCHEDULER_ADDRESS == 21
SEMAPHORE_MANAGER_ADDRESS == 37
PIPE_MANAGER_ADDRESS == 53
sampleCodeModuleAddress == 64
sampleDataModuleAddress == 80
StackCells == 1               \* PageSize * 8, rounded up
AmountRange == 2 ^ 16         \* 4 GB: what *memAmount * (1 << 20) is counted in
EndOfCells == sampleDataModuleAddress + 21    \* bound: of the modelled memory

(* The product of 32 bits wraps: of 5 GB the kernel counts one.            *)
Counted(amount) == amount % AmountRange

(* What the constants must satisfy; assumed where they are given values.   *)
(* Of 4 or 8 GB the kernel counts less than what it has loaded: the        *)
(* difference is then below zero, and the heap past the end of any memory. *)
BootAssumption ==
  /\ KernelSizes \cup CodeSizes \cup DataSizes \cup Amounts \subseteq Nat \ {0}
  /\ KernelBss \in Nat /\ UserBss \in Nat
  /\ \A k \in KernelSizes :
       KernelAddress + k + KernelBss + StackCells <= SCHEDULER_ADDRESS
  /\ \A c \in CodeSizes : sampleCodeModuleAddress + c + UserBss <= sampleDataModuleAddress
  /\ \A d \in DataSizes : sampleDataModuleAddress + d <= EndOfCells
  /\ \A a \in Amounts : Counted(a) > sampleDataModuleAddress + 64
  /\ 2 ^ 0 = 1                  \* what the proofs use of ^
  /\ \A k \in 0 .. 16 : 2 ^ k \in Nat /\ 2 ^ (k + 1) = 2 * 2 ^ k

VARIABLES files,      \* the sizes of kernel, code and data
          memory,
          stage,
          currentModule, loaded,     \* of loadModules
          heap,       \* start, size and the end of memory, for createMemoryManager
          rax, rsp

vars == <<files, memory, stage, currentModule, loaded, heap, rax, rsp>>

Cells == 0 .. EndOfCells - 1
(* What a cell holds: a part of a file, a number, or somebody's data.      *)
File(name, size) == [k \in 1 .. size |-> <<name, k>>]
Number(n) == <<"number", n>>
Data(name) == <<name, 0>>
Modules == <<File("code", files[2]), File("data", files[3])>>
Targets == <<sampleCodeModuleAddress, sampleDataModuleAddress>>
Area(start, size) == start .. start + size - 1

(* write_size, write_file, buildImage                                      *)
Sized(file) == <<Number(Len(file))>> \o file
BuildImage(kernel, modules) ==
  kernel \o <<Number(Len(modules))>> \o Sized(modules[1]) \o Sized(modules[2])

endOfKernelBinary == KernelAddress + files[1]
bss == Area(endOfKernelBinary, KernelBss)
GetStackBase == endOfKernelBinary + KernelBss + StackCells

Init ==
  /\ files \in KernelSizes \X CodeSizes \X DataSizes
  /\ memory = [c \in Cells |->
       LET image == BuildImage(File("kernel", files[1]), Modules)
           k == c - KernelAddress + 1
       IN IF k \in DOMAIN image THEN image[k] ELSE Data("garbage")]
  /\ stage = "load" /\ currentModule = endOfKernelBinary + 1 /\ loaded = 0
  /\ heap = [start |-> 0, size |-> 0, end |-> 0] /\ rax = 0 /\ rsp = 0

MemCpy(target, source, length) ==
  [c \in Cells |-> IF c \in Area(target, length) THEN memory[source + c - target]
                   ELSE memory[c]]
MemSet(area, value) == [c \in Cells |-> IF c \in area THEN value ELSE memory[c]]
ReadUint32(address) == memory[address][2]

LoadModuleUnskipped ==    \* mutant: the size read is not stepped over
  /\ stage = "load" /\ loaded < ReadUint32(endOfKernelBinary)
  /\ LET moduleSize == ReadUint32(currentModule)
     IN /\ memory' = MemCpy(Targets[loaded + 1], currentModule, moduleSize)
        /\ currentModule' = currentModule + moduleSize + 1
  /\ loaded' = loaded + 1 /\ UNCHANGED <<files, stage, heap, rax, rsp>>
LoadModule ==
  /\ stage = "load" /\ loaded < ReadUint32(endOfKernelBinary)
  /\ LET moduleSize == ReadUint32(currentModule)
     IN /\ memory' = MemCpy(Targets[loaded + 1], currentModule + 1, moduleSize)
        /\ currentModule' = currentModule + moduleSize + 1
  /\ loaded' = loaded + 1 /\ UNCHANGED <<files, stage, heap, rax, rsp>>
ClearBSS ==
  /\ stage = "load" /\ loaded = ReadUint32(endOfKernelBinary) /\ stage' = "bss"
  /\ memory' = MemSet(bss, Number(0)) /\ UNCHANGED <<files, currentModule, loaded, heap, rax, rsp>>

(* log(n, 2): how often n can be halved.                                   *)
PowerBelow(n) == CHOOSE p \in {2 ^ k : k \in 0 .. 16} : p <= n /\ n < 2 * p
CreateMemoryManager ==
  /\ stage = "bss" /\ stage' = "managers"
  /\ LET start == sampleDataModuleAddress + (currentModule - endOfKernelBinary)
     IN \E amount \in Amounts :
          heap' = [start |-> start, size |-> PowerBelow(Counted(amount) - start), end |-> amount]
  /\ memory' = MemSet({MEMORY_MANAGER_ADDRESS}, Data("manager"))
  /\ UNCHANGED <<files, currentModule, loaded, rax, rsp>>
(* createScheduler, initSemaphores, setupPipeManager; the address the last *)
(* one returns is still in rax when initializeKernelBinary does.           *)
CreateManagers ==
  /\ stage = "managers" /\ stage' = "stack" /\ rax' = PIPE_MANAGER_ADDRESS
  /\ memory' = MemSet({SCHEDULER_ADDRESS, SEMAPHORE_MANAGER_ADDRESS, PIPE_MANAGER_ADDRESS},
                      Data("manager"))
  /\ UNCHANGED <<files, currentModule, loaded, heap, rsp>>
(* loader: "mov rsp, rax", then main and the first tick, which never       *)
(* comes back to this stack.                                               *)
SetStack ==
  /\ stage = "stack" /\ stage' = "main" /\ rsp' = rax
  /\ memory' = MemSet({rsp' - 1}, Data("stack"))
  /\ UNCHANGED <<files, currentModule, loaded, heap, rax>>
(* idle creates the shell, whose _start clears its own .bss.               *)
StartShell ==
  /\ stage = "main" /\ stage' = "shell"
  /\ memory' = MemSet(Area(sampleCodeModuleAddress + files[2], UserBss), Number(0))
  /\ UNCHANGED <<files, currentModule, loaded, heap, rax, rsp>>

Next ==
  \/ LoadModule \/ ClearBSS \/ CreateMemoryManager \/ CreateManagers \/ SetStack
  \/ StartShell
Spec == Init /\ [][Next]_vars

-----------------------------------------------------------------------------
(* Kernel and modules are whole when the shell runs: neither the .bss they *)
(* were unpacked from, nor the shell's own, nor the managers at their      *)
(* fixed addresses, nor the stack overwrites them, whatever their sizes.   *)
InPlace(target, file) == \A k \in DOMAIN file : memory[target + k - 1] = file[k]
ModulesIntact ==
  stage = "shell" =>
    /\ InPlace(KernelAddress, File("kernel", files[1]))
    /\ \A m \in 1 .. 2 : InPlace(Targets[m], Modules[m])
    /\ \A c \in bss : memory[c] = Number(0)
(* The heap lies above everything that was loaded, ends before memory does *)
(* and takes more than half of what the kernel counts as free.             *)
HeapIsFree ==
  stage \notin {"load", "bss"} =>
    /\ heap.start > sampleDataModuleAddress + files[3] - 1
    /\ heap.start + heap.size <= heap.end /\ Counted(heap.end) < heap.start + 2 * heap.size
(* "Set up the kernel binary, and get thet stack address": the kernel      *)
(* starts on the stack getStackBase reserves behind its .bss.              *)
StackIsKernels == stage \in {"main", "shell"} => rsp = GetStackBase
=============================================================================
