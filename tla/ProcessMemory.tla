--------------------------- MODULE ProcessMemory ----------------------------
(***************************************************************************)
(* The memory a process takes and gives back: the six blocks createProcess *)
(* and initProcess allocate, what the process itself allocates, what ps    *)
(* allocates for its listing, and freeProcess.  The heap is a set of       *)
(* blocks of one size; when none is left, allocMemory answers NULL.        *)
(***************************************************************************)
EXTENDS Integers, FiniteSets

CONSTANTS Pids,       \* processes
          HeapSize,   \* blocks in the heap
          MaxMine,    \* bound: blocks a process allocates itself
          MaxLost     \* bound: no listing or death once this many are lost

(* What the constants must satisfy; assumed where they are given values.  *)
ProcessMemoryAssumption ==
  {HeapSize, MaxMine, MaxLost} \subseteq Nat /\ IsFiniteSet(Pids)

VARIABLES used,       \* the blocks in use
          pcb,        \* the blocks of each process, by what they are for
          alive,      \* processes that are not zombies
          mine,       \* what each process has allocated itself
          snapshot,   \* what ps got from the kernel and has not freed
          lost        \* history: blocks nobody can free any more
vars == <<used, pcb, alive, mine, snapshot, lost>>

NULL == 0
Blocks == 1 .. HeapSize
Parts == {"pcb", "stack", "args", "name", "list", "node"}
NoProcess == [part \in Parts |-> NULL]
Owned(p) == {pcb[p][part] : part \in Parts} \ {NULL}
Exists(p) == pcb[p].pcb # NULL

Init ==
  /\ used = {} /\ pcb = [p \in Pids |-> NoProcess] /\ alive = {}
  /\ mine = [p \in Pids |-> {}] /\ snapshot = [p \in Pids |-> {}] /\ lost = {}

-----------------------------------------------------------------------------
(* allocMemory, k times in a row: the k-th block, or NULL.                 *)
Free == Blocks \ used
Nth(k) ==
  IF Cardinality(Free) < k THEN NULL
  ELSE CHOOSE b \in Free : Cardinality({c \in Free : c < b}) = k - 1
FirstFree(k) == {Nth(j) : j \in 1 .. k} \ {NULL}

(* createProcess gives up when there is no PCB; initProcess looks at none  *)
(* of the other blocks.                                                    *)
CreateProcess(p) ==
  /\ ~Exists(p) /\ Free # {}
  /\ pcb' = [pcb EXCEPT ![p] = [pcb |-> Nth(1), stack |-> Nth(2), args |-> Nth(3),
                                name |-> Nth(4), list |-> Nth(5), node |-> Nth(6)]]
  /\ used' = used \cup FirstFree(6)
  /\ alive' = alive \cup {p}
  /\ UNCHANGED <<mine, snapshot, lost>>

(* A process without its list or its node breaks the kernel's structures   *)
(* (hasNext(NULL) is true, its slot in the table stays NULL).              *)
Sound == \A p \in Pids : Exists(p) => pcb[p].list # NULL /\ pcb[p].node # NULL

(* sys_malloc and sys_free by the process itself                           *)
Malloc(p) ==
  /\ Sound /\ p \in alive /\ Free # {} /\ Cardinality(mine[p]) < MaxMine
  /\ used' = used \cup FirstFree(1) /\ mine' = [mine EXCEPT ![p] = @ \cup FirstFree(1)]
  /\ UNCHANGED <<pcb, alive, snapshot, lost>>
FreeOne(p) ==
  /\ Sound /\ p \in alive
  /\ \E b \in mine[p] : used' = used \ {b} /\ mine' = [mine EXCEPT ![p] = @ \ {b}]
  /\ UNCHANGED <<pcb, alive, snapshot, lost>>

(* ps: the list and the array of the listing, and a copy of the name of    *)
(* each process it finds (blocked ones are not found), which the program   *)
(* does not free.  Without memory for list and array, nothing is kept.     *)
Ps(p) ==
  /\ Sound /\ p \in alive /\ snapshot[p] = {} /\ Cardinality(Free) >= 2
  /\ Cardinality(lost) < MaxLost
  /\ snapshot' = [snapshot EXCEPT ![p] = FirstFree(2)]
  /\ \E listed \in 1 .. Cardinality({q \in Pids : Exists(q)}) :
       /\ used' = used \cup FirstFree(2 + listed)
       /\ lost' = lost \cup (FirstFree(2 + listed) \ FirstFree(2))
  /\ UNCHANGED <<pcb, alive, mine>>
PsDone(p) ==
  /\ Sound /\ p \in alive /\ snapshot[p] # {}
  /\ used' = used \ snapshot[p] /\ snapshot' = [snapshot EXCEPT ![p] = {}]
  /\ UNCHANGED <<pcb, alive, mine, lost>>

(* killProcess: what the process allocated is not looked at.               *)
Kill(p) ==
  /\ Sound /\ p \in alive /\ Cardinality(lost) < MaxLost
  /\ alive' = alive \ {p}
  /\ lost' = lost \cup mine[p] \cup snapshot[p]
  /\ mine' = [mine EXCEPT ![p] = {}] /\ snapshot' = [snapshot EXCEPT ![p] = {}]
  /\ UNCHANGED <<used, pcb>>
(* unblockProcess of a blocked process frees its node of the blocked list  *)
(* and allocates one for the ready list: the first block that is now free. *)
NewNode(p) == IF Nth(1) \in 1 .. pcb[p].node THEN Nth(1) ELSE pcb[p].node
Unblock(p) ==
  /\ Sound /\ Exists(p) /\ p \in alive
  /\ pcb' = [pcb EXCEPT ![p] = [@ EXCEPT !.node = NewNode(p)]]
  /\ used' = (used \ {pcb[p].node}) \cup {NewNode(p)}
  /\ UNCHANGED <<alive, mine, snapshot, lost>>
(* destroyZombie, freeProcess                                              *)
FreedLeaky(p) == Owned(p) \ {pcb[p].args}    \* mutant: the arguments stay
Freed(p) == Owned(p)
DestroyZombie(p) ==
  /\ Sound /\ Exists(p) /\ p \notin alive
  /\ used' = used \ Freed(p) /\ pcb' = [pcb EXCEPT ![p] = NoProcess]
  /\ UNCHANGED <<alive, mine, snapshot, lost>>

Next ==
  \E p \in Pids :
    \/ CreateProcess(p) \/ Malloc(p) \/ FreeOne(p) \/ Ps(p) \/ PsDone(p)
    \/ Kill(p) \/ Unblock(p) \/ DestroyZombie(p)
Spec == Init /\ [][Next]_vars

-----------------------------------------------------------------------------
(* Every block in use has one owner who will free it, whatever allocations *)
(* failed: a process's PCB, the process itself, a listing under way; or it *)
(* is one of the names ps copied, or belonged to a process when it was     *)
(* killed.                                                                 *)
Held(p) == Owned(p) \cup mine[p] \cup snapshot[p]
BlocksHaveOneOwner ==
  /\ used = (UNION {Held(p) : p \in Pids}) \cup lost
  /\ \A p \in Pids :
       /\ \A part, other \in Parts :
            pcb[p][part] = pcb[p][other] => part = other \/ pcb[p][part] = NULL
       /\ Owned(p) \cap mine[p] = {} /\ Owned(p) \cap snapshot[p] = {}
       /\ mine[p] \cap snapshot[p] = {} /\ Held(p) \cap lost = {}
       /\ \A q \in Pids \ {p} : Held(p) \cap Held(q) = {}

(* "Error: Memory allocation failed": a process for which the memory does  *)
(* not suffice is not created.                                             *)
CreatedWhole == \A p \in Pids : Exists(p) => NULL \notin {pcb[p][part] : part \in Parts}
=============================================================================
