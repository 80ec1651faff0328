--------------------------- MODULE UserTestsProofs ---------------------------
(***************************************************************************)
(* Proofs about the test programs as UserTests composes them.              *)
(***************************************************************************)
EXTENDS UserTests, SemaphoreProofs

-----------------------------------------------------------------------------
(* Sums over the process table: what a fold gives does not depend on the   *)
(* order in which it takes the elements as far as a change of one goes.    *)
Picked(s) == CHOOSE x \in s : TRUE
Sums(S, f, g) ==
  g = [s \in SUBSET S |-> IF s = {} THEN 0 ELSE f[Picked(s)] + g[s \ {Picked(s)}]]
SumOver(f) == MapThenSumSet(LAMBDA p : f[p], Pids)

LEMMA PickedIn == \A s : s # {} => Picked(s) \in s
BY DEF Picked

LEMMA SubsetSizes ==
  ASSUME NEW S, IsFiniteSet(S)
  PROVE  \A s \in SUBSET S :
           /\ Cardinality(s) \in Nat
           /\ s # {} => /\ s \ {Picked(s)} \in SUBSET S
                        /\ Cardinality(s \ {Picked(s)}) = Cardinality(s) - 1
BY FS_Subset, FS_CardinalityType, FS_RemoveElement, PickedIn

(* The recursion has one solution at most: take a smallest set where two   *)
(* of them differ.                                                         *)
LEMMA SumsUnique ==
  ASSUME NEW S, IsFiniteSet(S), NEW f, NEW g, NEW h, Sums(S, f, g), Sums(S, f, h)
  PROVE  g = h
<1>. DEFINE bad == {s \in SUBSET S : g[s] # h[s]}
            sizes == {Cardinality(s) : s \in bad}
<1>1. CASE bad # {}
  <2>1. sizes \subseteq Nat /\ sizes # {}
    <3>1. \A s \in bad : Cardinality(s) \in Nat
      BY SubsetSizes
    <3>2. PICK s \in bad : TRUE
      BY <1>1
    <3>3. Cardinality(s) \in sizes
      OBVIOUS
    <3>. HIDE DEF bad
    <3>. QED  BY <3>1, <3>3
  <2>2. Min(sizes) \in sizes /\ \A m \in sizes : Min(sizes) <= m
    BY <2>1, MinOfNaturals
  <2>3. PICK s \in bad : Cardinality(s) = Min(sizes)
    BY <2>2
  <2>4. s # {}
    BY <2>3 DEF Sums
  <2>5. /\ Cardinality(s \ {Picked(s)}) = Cardinality(s) - 1
        /\ s \ {Picked(s)} \in SUBSET S /\ Cardinality(s) \in Nat
    BY <2>3, <2>4, SubsetSizes
  <2>. HIDE DEF sizes
  <2>6. s \ {Picked(s)} \notin bad
    <3>1. ASSUME s \ {Picked(s)} \in bad PROVE FALSE
      <4>1. Cardinality(s \ {Picked(s)}) \in sizes
        BY <3>1 DEF sizes
      <4>2. Cardinality(s) <= Cardinality(s) - 1
        BY <2>2, <2>3, <2>5, <4>1
      <4>. QED  BY <2>5, <4>2
    <3>. QED  BY <3>1
  <2>7. g[s \ {Picked(s)}] = h[s \ {Picked(s)}]
    BY <2>5, <2>6
  <2>. QED  BY <2>3, <2>7 DEF Sums
<1>2. CASE bad = {}
  <2>1. \A s \in SUBSET S : g[s] = h[s]
    BY <1>2
  <2>2. g = [s \in SUBSET S |-> g[s]] /\ h = [s \in SUBSET S |-> h[s]]
    BY DEF Sums
  <2>. QED  BY <2>1, <2>2
<1>. QED  BY <1>1, <1>2

(* It has one: up to sets of size n, for a least n that would fail.        *)
LEMMA SumsExist ==
  ASSUME NEW S, IsFiniteSet(S), NEW f \in [S -> Int]
  PROVE  \E g \in [SUBSET S -> Int] : Sums(S, f, g)
<1>. DEFINE next(g) == [s \in SUBSET S |->
                          IF s = {} THEN 0 ELSE f[Picked(s)] + g[s \ {Picked(s)}]]
            upTo(n) == \E g \in [SUBSET S -> Int] : \A s \in SUBSET S :
                         Cardinality(s) <= n => g[s] = next(g)[s]
            fails == {n \in Nat : ~upTo(n)}
<1>1. \A g \in [SUBSET S -> Int] : next(g) \in [SUBSET S -> Int]
  <2>1. \A s \in SUBSET S : s # {} => f[Picked(s)] \in Int /\ s \ {Picked(s)} \in SUBSET S
    BY PickedIn
  <2>. QED  BY <2>1
<1>2. upTo(0)
  <2>. DEFINE zero == [s \in SUBSET S |-> 0]
  <2>1. ASSUME NEW s \in SUBSET S, s # {} PROVE ~(Cardinality(s) <= 0)
    <3>1. /\ s \ {Picked(s)} \in SUBSET S /\ Cardinality(s) \in Nat
          /\ Cardinality(s \ {Picked(s)}) = Cardinality(s) - 1
      BY <2>1, SubsetSizes
    <3>2. Cardinality(s \ {Picked(s)}) \in Nat
      BY <3>1, SubsetSizes
    <3>. QED  BY <3>1, <3>2
  <2>2. zero \in [SUBSET S -> Int] /\ \A s \in SUBSET S : Cardinality(s) <= 0 =>
          zero[s] = next(zero)[s]
    BY <2>1
  <2>. HIDE DEF zero, next
  <2>. QED  BY <2>2
<1>3. ASSUME NEW n \in Nat, upTo(n) PROVE upTo(n + 1)
  <2>1. PICK g \in [SUBSET S -> Int] : \A s \in SUBSET S :
          Cardinality(s) <= n => g[s] = next(g)[s]
    BY <1>3
  <2>2. ASSUME NEW s \in SUBSET S, Cardinality(s) <= n + 1
        PROVE  next(g)[s] = next(next(g))[s]
    <3>1. CASE s = {}
      BY <3>1
    <3>2. CASE s # {}
      <4>1. s \ {Picked(s)} \in SUBSET S /\ Cardinality(s \ {Picked(s)}) <= n
        BY <2>2, <3>2, SubsetSizes
      <4>2. g[s \ {Picked(s)}] = next(g)[s \ {Picked(s)}]
        BY <2>1, <4>1
      <4>. QED  BY <3>2, <4>2
    <3>. QED  BY <3>1, <3>2
  <2>3. next(g) \in [SUBSET S -> Int]
    BY <1>1
  <2>. HIDE DEF next
  <2>. QED  BY <2>2, <2>3
<1>4. \A n \in Nat : upTo(n)
  <2>1. CASE fails # {}
    <3>. HIDE DEF upTo
    <3>1. fails \subseteq Nat
      OBVIOUS
    <3>2. Min(fails) \in fails /\ \A m \in fails : Min(fails) <= m
      BY <2>1, <3>1, MinOfNaturals
    <3>3. Min(fails) \in Nat \ {0}
      BY <1>2, <3>2
    <3>4. Min(fails) - 1 \in Nat /\ Min(fails) - 1 \notin fails
      BY <3>2, <3>3
    <3>5. upTo((Min(fails) - 1) + 1) /\ (Min(fails) - 1) + 1 = Min(fails)
      BY <1>3, <3>3, <3>4
    <3>. QED  BY <3>2, <3>5
  <2>2. CASE fails = {}
    <3>. HIDE DEF upTo
    <3>. QED  BY <2>2
  <2>. QED  BY <2>1, <2>2
<1>5. Cardinality(S) \in Nat /\ \A s \in SUBSET S : Cardinality(s) <= Cardinality(S)
  BY FS_CardinalityType, FS_Subset
<1>6. PICK g \in [SUBSET S -> Int] : \A s \in SUBSET S :
        Cardinality(s) <= Cardinality(S) => g[s] = next(g)[s]
  BY <1>4, <1>5
<1>7. \A s \in SUBSET S : g[s] = next(g)[s]
  BY <1>5, <1>6
<1>8. g = next(g)
  <2>1. next(g) \in [SUBSET S -> Int]
    BY <1>1
  <2>. HIDE DEF next
  <2>. QED  BY <1>7, <2>1
<1>. QED  BY <1>6, <1>8 DEF Sums

LEMMA SumOverIs ==
  ASSUME NEW f \in [Pids -> Int], NEW g, Sums(Pids, f, g)
  PROVE  SumOver(f) = g[Pids]
<1>. DEFINE w == CHOOSE h : Sums(Pids, f, h)
<1>1. SumOver(f) = w[Pids]
  BY DEF SumOver, MapThenSumSet, MapThenFoldSet, Picked, Sums
<1>2. Sums(Pids, f, w)
  OBVIOUS
<1>. HIDE DEF w
<1>. QED  BY <1>1, <1>2, SumsUnique, PidsFinite

LEMMA SumChanges ==
  ASSUME NEW f \in [Pids -> Int], NEW f2 \in [Pids -> Int], NEW a \in Pids,
         \A p \in Pids : p # a => f2[p] = f[p]
  PROVE  SumOver(f) \in Int /\ SumOver(f2) = SumOver(f) + (f2[a] - f[a])
<1>1. PICK g \in [SUBSET Pids -> Int] : Sums(Pids, f, g)
  BY SumsExist, PidsFinite
<1>. DEFINE h == [s \in SUBSET Pids |-> g[s] + IF a \in s THEN f2[a] - f[a] ELSE 0]
<1>2. Sums(Pids, f2, h)
  <2>1. ASSUME NEW s \in SUBSET Pids
        PROVE  h[s] = IF s = {} THEN 0 ELSE f2[Picked(s)] + h[s \ {Picked(s)}]
    <3>1. CASE s = {}
      BY <1>1, <3>1 DEF Sums
    <3>2. CASE s # {}
      <4>. DEFINE x == Picked(s)
                  r == s \ {Picked(s)}
      <4>1. x \in s /\ x \in Pids /\ r \in SUBSET Pids
        BY <3>2, PickedIn
      <4>2. g[s] = f[x] + g[r] /\ g[r] \in Int /\ f[x] \in Int /\ f2[x] \in Int
            /\ f2[a] \in Int /\ f[a] \in Int
        BY <1>1, <3>2, <4>1 DEF Sums
      <4>3. a \in r <=> a \in s /\ a # x
        OBVIOUS
      <4>4. h[s] = g[s] + (IF a \in s THEN f2[a] - f[a] ELSE 0)
            /\ h[r] = g[r] + (IF a \in r THEN f2[a] - f[a] ELSE 0)
        BY <4>1
      <4>5. x # a => f2[x] = f[x]
        BY <4>1
      <4>. HIDE DEF x, r, h
      <4>6. h[s] = f2[x] + h[r]
        BY <4>1, <4>2, <4>3, <4>4, <4>5
      <4>. QED  BY <3>2, <4>6 DEF x, r
    <3>. QED  BY <3>1, <3>2
  <2>2. h = [s \in SUBSET Pids |-> h[s]]
    OBVIOUS
  <2>. HIDE DEF h
  <2>. QED  BY <2>1, <2>2 DEF Sums
<1>3. h[Pids] = g[Pids] + (f2[a] - f[a])
  OBVIOUS
<1>. HIDE DEF h
<1>. QED  BY <1>1, <1>2, <1>3, SumOverIs

LEMMA SumOfNothing ==
  ASSUME NEW f \in [Pids -> Int], \A p \in Pids : f[p] = 0
  PROVE  SumOver(f) = 0
<1>. DEFINE zero == [s \in SUBSET Pids |-> 0]
<1>1. Sums(Pids, f, zero)
  BY PickedIn DEF Sums
<1>. HIDE DEF zero
<1>. QED  BY <1>1, SumOverIs DEF zero

-----------------------------------------------------------------------------
(* testSync.  Its worker processes, of which inc is what each adds.        *)
Critical == {"read", "yield", "write", "post"}
WorkerLabels == Critical \cup {"open", "wait", "return"}
Testing == {"openTest", "create", "join", "print"}
Worker(p) == inc[p] # 0
Holds(p) == pc[p] \in Critical /\ downOn[p] = None
Tester == pids[0]

(* What each has added so far, and what it will have added when it returns.*)
Done == [p \in Pids |-> inc[p] * (i[p] + (IF pc[p] = "post" THEN 1 ELSE 0))]
Due == [p \in Pids |-> inc[p] * Rounds]

SyncTypeOK ==
  /\ global \in Int /\ aux \in [Pids -> Int]
  /\ pc \in [Pids -> WorkerLabels \cup Testing \cup {"command"}]
  /\ i \in [Pids -> Nat] /\ inc \in [Pids -> {-1, 0, 1}]
  /\ pids \in [{0} \cup Children -> Pids]

(* Who is where in which program.                                          *)
Named ==
  /\ pc[IDLE_PID] = "command" /\ pc[SHELL_PID] = "command"
  /\ \A p \in Pids :
       /\ pc[p] = "command" => ~Worker(p) /\ (p # SHELL_PID => i[p] = 0)
       /\ pc[p] # "command" /\ ~Worker(p) => p = Tester
       /\ Worker(p) => \E c \in Children :
            pids[c] = p /\ (pc[Tester] = "create" => c <= i[Tester])
  /\ i[SHELL_PID] = 0 => \A p \in Pids : pc[p] = "command"
  /\ i[SHELL_PID] # 0 => ~Worker(Tester) /\ pc[Tester] \in Testing \cup {"return"}
  /\ pc[Tester] = "openTest" => i[Tester] = 0 /\ \A p \in Pids : ~Worker(p)
  /\ pc[Tester] \in {"create", "join"} => i[Tester] <= 2 * TOTAL_PAIR_PROCESSES

InRounds ==
  \A p \in Pids :
    /\ pc[p] \in Critical \cup {"open", "wait"} => Worker(p)
    /\ Worker(p) => /\ pc[p] \in WorkerLabels /\ i[p] <= Rounds
                    /\ pc[p] \in Critical \cup {"open"} => i[p] < Rounds
                    /\ pc[p] = "return" => i[p] = Rounds
    /\ downOn[p] # None => downOn[p] = SEM_ID /\ pc[p] = "read"

(* The semaphore is open while there are workers, and its unit is in it or *)
(* with the one that is in slowInc.                                        *)
OneUnit ==
  /\ i[SHELL_PID] = 0 \/ pc[Tester] = "openTest" => ~open[SEM_ID]
  /\ pc[Tester] \in {"create", "join"} => open[SEM_ID]
  /\ value[SEM_ID] <= 1
  /\ \A p \in Pids : Holds(p) => value[SEM_ID] = 0
  /\ \A p, q \in Pids : Holds(p) /\ Holds(q) => p = q

SumsKept ==
  /\ global = SumOver(Done)
  /\ \A p \in Pids : pc[p] \in {"yield", "write"} => aux[p] = global
  /\ SumOver(Due) = IF pc[Tester] = "create" /\ i[Tester] % 2 = 1 THEN -Rounds ELSE 0
  /\ \A p \in Pids : pc[p] = "print" => global = 0

(* Whoever has not returned lives, and is a child of the one that started  *)
(* it; nothing is reaped while processes are still created.                *)
Life ==
  /\ ~shouldKillForeground /\ control # "kill"
  /\ \A p \in Pids :
       /\ InTable(p) /\ pc[p] = "command" => p \in {IDLE_PID, SHELL_PID}
       /\ Worker(p) => /\ InTable(p) => parent[p] = Tester
                       /\ Alive(p) => pc[Tester] \in {"create", "join"}
                       /\ ~Alive(p) => pc[p] = "return"
  /\ i[SHELL_PID] # 0 =>
       /\ Alive(SHELL_PID)
       /\ InTable(Tester) => parent[Tester] = SHELL_PID
       /\ pc[Tester] # "return" => Alive(Tester)
  /\ pc[Tester] \in {"openTest", "create"} =>
       \A p \in Pids : pc[p] # "command" => InTable(p)

(* Of the workers testSync has waited for, one may live: the last.         *)
Joining ==
  /\ pc[Tester] = "join" => \A c \in 1..i[Tester] :
       Alive(pids[c]) => c = i[Tester] /\ Tester \in waiting
  /\ Tester \in waiting /\ i[SHELL_PID] # 0 =>
       /\ pc[Tester] = "join" /\ i[Tester] # 0
       /\ targetWaitPid[Tester] = pids[i[Tester]]

SyncParts == SyncTypeOK /\ Named /\ InRounds /\ OneUnit /\ SumsKept
SyncBase == IInv /\ RunInv /\ WaitersOwnTarget /\ SemTypeOK
SyncInv == SyncBase /\ SyncParts /\ (fault = "none" => Life /\ Joining)

LEMMA SumsPrimed == SumOver(Done)' = SumOver(Done') /\ SumOver(Due)' = SumOver(Due')
BY DEF SumOver, MapThenSumSet, MapThenFoldSet

-----------------------------------------------------------------------------
(* The steps of testSync are steps of the scheduler.                       *)
LEMMA CreatedAnywhere ==
  ASSUME NEW prio \in Nat, CreateProcess(prio, TRUE)
  PROVE  Next
<1>1. CASE prio \in 0..QtyReadyLevels
  BY <1>1 DEF Next
<1>2. CASE prio \notin 0..QtyReadyLevels
  <2>1. prio \notin Levels /\ QtyReadyLevels \notin Levels
        /\ QtyReadyLevels \in 0..QtyReadyLevels
    BY <1>2, SizeAssumption DEF Levels
  <2>2. CreateProcess(QtyReadyLevels, TRUE)
    BY <2>1, SemaphoreAssumption DEF CreateProcess, Create
  <2>. QED  BY <2>1, <2>2 DEF Next
<1>. QED  BY <1>1, <1>2

LEMMA PostMoves ==
  ASSUME SemTypeOK, NEW s \in Sems, SemPost(s)
  PROVE  UNCHANGED vars \/ \E p \in Pids : Wake(p)
BY SchedulerStep, PostCases DEF SemPost, SetReady

LEMMA SyncSchedules ==
  ASSUME IInv, SemTypeOK, SyncTypeOK, TestSyncNext
  PROVE  Next \/ UNCHANGED vars \/ Crash("corrupt")
<1>0. SEM_ID \in Sems /\ currentPid \in Pids
  BY TestSyncAssumption DEF IInv, TypeOK
<1>1. ASSUME NEW prio \in Nat, NEW child, NEW l, NEW step, Spawn(prio, child, l, step)
      PROVE  Next
  BY <1>1, CreatedAnywhere DEF Spawn
<1>2. ASSUME NEW p \in Pids, WaitPid(p) PROVE Next
  BY <1>2 DEF Next
<1>3. CASE Shell
  <2>1. pids[0] \in Pids
    BY DEF SyncTypeOK
  <2>2. Spawn(1, 0, "openTest", 0) => Next
    BY <1>1
  <2>. QED  BY <1>2, <1>3, <2>1, <2>2 DEF Shell
<1>4. UserSemOpen \/ SemClose(SEM_ID) \/ UNCHANGED semaphoreVars => UNCHANGED vars
  BY DEF UserSemOpen, SemOpen, SemClose, semaphoreVars
<1>5. CASE TestSync
  <2>1. i[currentPid] \in Nat
    BY <1>0 DEF SyncTypeOK
  <2>2. i[currentPid] < 2 * TOTAL_PAIR_PROCESSES => pids[i[currentPid] + 1] \in Pids
    BY <2>1, TestSyncAssumption DEF SyncTypeOK, Children
  <2>3. \/ UserSemOpen \/ SemClose(SEM_ID) \/ UNCHANGED semaphoreVars
        \/ \E child, l, step : Spawn(3, child, l, step)
        \/ /\ i[currentPid] < 2 * TOTAL_PAIR_PROCESSES
           /\ WaitPid(pids[i[currentPid] + 1])
    BY <1>5, Zenon DEF TestSync
  <2>4. (\E child, l, step : Spawn(3, child, l, step)) => Next
    BY <1>1
  <2>. QED  BY <1>2, <1>4, <2>2, <2>3, <2>4
<1>6. SemWait(SEM_ID) => UNCHANGED vars \/ Sleep
  BY DEF SemWait, Decrement, Suspended
<1>7. CASE MyProcessInc
  <2>1. UNCHANGED vars \/ Sleep \/ Yield \/ SemPost(SEM_ID)
    BY <1>4, <1>6, <1>7 DEF MyProcessInc
  <2>. QED  BY <1>0, <2>1, PostMoves DEF Next
<1>8. CASE Return
  BY <1>8 DEF Return, Next
<1>9. CASE Tick
  BY <1>9 DEF Tick, Next
<1>10. CASE Kernel
  <2>1. SemResume => UNCHANGED vars \/ Sleep \/ Crash("corrupt")
    BY DEF SemResume, Retry, Decrement, Suspended
  <2>. QED  BY <1>10, <2>1 DEF Kernel, KernelStep, Next
<1>. QED  BY <1>3, <1>5, <1>7, <1>8, <1>9, <1>10 DEF TestSyncNext, Program

LEMMA SyncBaseStep ==
  ASSUME SyncBase, SyncTypeOK, TestSyncNext
  PROVE  SyncBase'
<1>1. IInv' /\ RunInv' /\ WaitersOwnTarget'
  <2>1. CASE Next \/ UNCHANGED vars
    BY <2>1, NextIInv, RunningStep, WaitersOwnStep DEF SyncBase
  <2>2. CASE Crash("corrupt")
    <3>1. IInv'
      BY <2>2, CrashStep DEF SyncBase
    <3>2. UNCHANGED <<status, currentPid, control, remainingQuantum>>
          /\ UNCHANGED <<parent, waiting, targetWaitPid>>
      BY <2>2 DEF Crash, pcbVars, cpuVars, waitVars
    <3>. QED  BY <3>1, <3>2 DEF SyncBase, RunInv, RunningIsCurrent, Alive,
                                WaitersOwnTarget, OwnsTarget, InTable
  <2>. QED  BY <2>1, <2>2, SyncSchedules DEF SyncBase
<1>2. SEM_ID \in Sems /\ currentPid \in Pids /\ IInv /\ SemTypeOK
  BY TestSyncAssumption DEF SyncBase, IInv, TypeOK
<1>3. SemWait(SEM_ID) \/ SemPost(SEM_ID) \/ SemClose(SEM_ID) \/ SemResume
        => SemTypeOK'
  <2>1. SemWait(SEM_ID) \/ SemPost(SEM_ID) \/ SemClose(SEM_ID) \/ SemResume => SemNext
    BY <1>2 DEF SemNext
  <2>. QED  BY <1>2, <2>1, SemTypeStep
<1>4. KeepSemaphores => SemTypeOK'
  BY <1>2, KeepSemaphoresType
<1>5. UNCHANGED semaphoreVars => SemTypeOK'
  BY <1>2 DEF SemTypeOK, semaphoreVars, semVars
<1>6. UserSemOpen => SemTypeOK'
  <2>1. SemOpen(SEM_ID, 1) => SemTypeOK'
    BY <1>2, SemaphoreAssumption, TestSyncAssumption DEF SemTypeOK, SemOpen
  <2>. QED  BY <1>5, <2>1 DEF UserSemOpen
<1>7. Shell \/ Return \/ Tick \/ Kernel => SemTypeOK'
  BY <1>3, <1>4, Zenon DEF Shell, Return, Tick, Kernel, Spawn
<1>8. TestSync => SemTypeOK'
  BY <1>3, <1>4, <1>5, <1>6, Zenon DEF TestSync, Spawn
<1>9. MyProcessInc => SemTypeOK'
  BY <1>3, <1>4, <1>5, <1>6, Zenon DEF MyProcessInc
<1>10. SemTypeOK'
  BY <1>7, <1>8, <1>9 DEF TestSyncNext, Program
<1>. QED  BY <1>1, <1>10 DEF SyncBase

-----------------------------------------------------------------------------
(* Who runs, and what the rest of the kernel leaves alone.                 *)
Alone == SyncInv /\ fault = "none"

LEMMA SyncPids ==
  ASSUME SyncTypeOK, IInv
  PROVE  /\ IDLE_PID \in Pids /\ SHELL_PID \in Pids /\ IDLE_PID # SHELL_PID
         /\ Tester \in Pids /\ currentPid \in Pids
         /\ SEM_ID \in Sems /\ SEM_ID # None /\ None # Freed
         /\ \A c \in Children : c \in Nat /\ pids[c] \in Pids
BY PidsFinite, TestSyncAssumption, SemaphoreAssumption
DEF SyncTypeOK, Tester, IInv, TypeOK, IDLE_PID, SHELL_PID, Children

LEMMA TesterIs ==
  ASSUME Alone, i[SHELL_PID] # 0
  PROVE  /\ ~Worker(Tester) /\ pc[Tester] \in Testing \cup {"return"}
         /\ Tester \notin {IDLE_PID, SHELL_PID}
BY DEF Alone, SyncInv, SyncParts, Named, Testing

LEMMA WhoRuns ==
  ASSUME Alone, UserMode, currentPid # IDLE_PID
  PROVE  /\ Alive(currentPid) /\ InTable(currentPid)
         /\ pc[currentPid] = "command" => currentPid = SHELL_PID
         /\ pc[currentPid] # "command" => i[SHELL_PID] # 0 /\ currentPid # SHELL_PID
         /\ pc[currentPid] \in Testing => currentPid = Tester
         /\ pc[currentPid] \in WorkerLabels /\ currentPid # Tester
              => Worker(currentPid) /\ pc[Tester] \in {"create", "join"}
         /\ pc[currentPid] \in WorkerLabels \ {"return"} => currentPid # Tester
<1>1. Alive(currentPid) /\ InTable(currentPid) /\ currentPid \in Pids
  BY DEF Alone, SyncInv, SyncBase, RunInv, RunningIsCurrent, UserMode, IInv, TypeOK,
         Alive, InTable
<1>2. pc[currentPid] = "command" => currentPid = SHELL_PID
  BY <1>1 DEF Alone, SyncInv, Life
<1>3. pc[currentPid] # "command" => i[SHELL_PID] # 0 /\ currentPid # SHELL_PID
  BY <1>1 DEF Alone, SyncInv, SyncParts, Named
<1>4. pc[currentPid] \in Testing => currentPid = Tester
  BY <1>1 DEF Alone, SyncInv, SyncParts, Named, InRounds, Testing, WorkerLabels, Critical
<1>5. pc[currentPid] \in WorkerLabels /\ currentPid # Tester
        => Worker(currentPid) /\ pc[Tester] \in {"create", "join"}
  BY <1>1 DEF Alone, SyncInv, SyncParts, Named, WorkerLabels, Critical, Life
<1>6. pc[currentPid] \in WorkerLabels \ {"return"} => currentPid # Tester
  BY <1>3, TesterIs DEF Testing, WorkerLabels, Critical
<1>. QED  BY <1>1, <1>2, <1>3, <1>4, <1>5, <1>6

(* Nobody dies who is inside slowInc, so nobody is taken out of down().    *)
LEMMA DownKept ==
  ASSUME Alone, KeepSemaphores,
         \A p \in Pids : pc[p] = "read" => status'[p] \notin {"NONE", "ZOMBIE"}
  PROVE  UNCHANGED <<open, value, downOn>>
<1>1. \A p \in Pids : downOn[p] # None => pc[p] = "read"
  BY DEF Alone, SyncInv, SyncParts, InRounds
<1>2. downOn = [p \in Pids |-> downOn[p]]
  BY DEF Alone, SyncInv, SyncBase, SemTypeOK
<1>. QED  BY <1>1, <1>2 DEF KeepSemaphores

(* A step in which nobody is created, dies or comes to wait for a child.   *)
NobodyLeaves ==
  /\ \A p \in Pids : /\ status'[p] = "NONE" <=> status[p] = "NONE"
                     /\ status'[p] = "ZOMBIE" <=> status[p] = "ZOMBIE"
  /\ UNCHANGED <<parent, waiting, targetWaitPid>>
  /\ ~shouldKillForeground' /\ control' # "kill"

LEMMA InsideLives ==
  ASSUME Alone, NEW p \in Pids, pc[p] # "return", Worker(p)
  PROVE  Alive(p)
BY DEF Alone, SyncInv, Life

LEMMA NobodyLeavesDown ==
  ASSUME Alone, NobodyLeaves, KeepSemaphores
  PROVE  UNCHANGED <<open, value, downOn>>
<1>1. ASSUME NEW p \in Pids, pc[p] = "read" PROVE Alive(p)
  BY <1>1, InsideLives DEF Alone, SyncInv, SyncParts, InRounds, Critical
<1>2. \A p \in Pids : pc[p] = "read" => status'[p] \notin {"NONE", "ZOMBIE"}
  BY <1>1 DEF NobodyLeaves, Alive
<1>. QED  BY <1>2, DownKept

LEMMA LifeKept ==
  ASSUME Alone, NobodyLeaves, UNCHANGED <<pc, i, inc, pids>>
  PROVE  Life' /\ Joining'
<1>1. \A p \in Pids : (InTable(p)' <=> InTable(p)) /\ (Alive(p)' <=> Alive(p))
  BY DEF NobodyLeaves, InTable, Alive
<1>2. SyncTypeOK /\ IInv /\ Life /\ Joining
  BY DEF Alone, SyncInv, SyncParts, SyncBase
<1>3. Tester \in Pids /\ SHELL_PID \in Pids
  BY <1>2, SyncPids
<1>4. Life'
  BY <1>1, <1>2, <1>3 DEF NobodyLeaves, Life, Tester, Worker
<1>5. i[Tester] \in Nat /\ (pc[Tester] = "join" => i[Tester] <= 2 * TOTAL_PAIR_PROCESSES)
  BY <1>2, <1>3 DEF Alone, SyncInv, SyncParts, SyncTypeOK, Named
<1>6. pc[Tester] = "join" => \A c \in 1..i[Tester] : pids[c] \in Pids
  <2>1. pc[Tester] = "join" => 1..i[Tester] \subseteq Children
    BY <1>5, TestSyncAssumption DEF Children
  <2>. QED  BY <2>1, <1>2, SyncPids
<1>7. Joining'
  BY <1>1, <1>2, <1>3, <1>6 DEF NobodyLeaves, Joining, Tester
<1>. QED  BY <1>4, <1>7

LEMMA SchedulesLeave ==
  ASSUME Alone, DoSchedule
  PROVE  NobodyLeaves
<1>1. IInv /\ ~shouldKillForeground /\ control # "kill"
  BY DEF Alone, SyncInv, SyncBase, Life
<1>2. \A p \in Pids : /\ status'[p] = "NONE" <=> status[p] = "NONE"
                      /\ status'[p] = "ZOMBIE" <=> status[p] = "ZOMBIE"
  BY <1>1, ScheduleChanges DEF Scheduled
<1>3. UNCHANGED <<parent, waiting, targetWaitPid>>
  BY DEF DoSchedule, KeepRunning, SwitchTo, pcbVars, waitVars
<1>4. ~shouldKillForeground' /\ control' # "kill"
  <2>1. KeepRunning => ~shouldKillForeground' /\ control' = "user"
    BY <1>1 DEF KeepRunning
  <2>2. ASSUME NEW next \in Pids, SwitchTo(next)
        PROVE  ~shouldKillForeground' /\ control' = "user"
    BY <1>1, <2>2, Zenon DEF SwitchTo
  <2>. QED  BY <2>1, <2>2 DEF DoSchedule
<1>. QED  BY <1>2, <1>3, <1>4 DEF NobodyLeaves

LEMMA SuspendLeaves ==
  ASSUME Alone, Yield \/ Sleep
  PROVE  NobodyLeaves
<1>1. IInv /\ ~shouldKillForeground
  BY DEF Alone, SyncInv, SyncBase, Life
<1>2. Alive(currentPid) /\ currentPid \in Pids
  BY WhoRuns DEF Yield, Sleep, Calls, Alone, SyncInv, SyncBase, IInv, TypeOK
<1>3. CASE Yield
  BY <1>1, <1>3 DEF Yield, Yielding, NobodyLeaves, pcbVars, waitVars
<1>4. CASE Sleep
  <2>1. \A p \in Pids : /\ status'[p] = "NONE" <=> status[p] = "NONE"
                        /\ status'[p] = "ZOMBIE" <=> status[p] = "ZOMBIE"
    BY <1>1, <1>2, <1>4, SleepChanges DEF Alive
  <2>. QED  BY <1>1, <1>4, <2>1 DEF Sleep, Yielding, NobodyLeaves, waitVars
<1>. QED  BY <1>3, <1>4

LEMMA WakeLeaves ==
  ASSUME Alone, UNCHANGED vars \/ \E p \in Pids : Wake(p)
  PROVE  NobodyLeaves
<1>1. IInv /\ ~shouldKillForeground /\ control # "kill"
  BY DEF Alone, SyncInv, SyncBase, Life
<1>2. CASE UNCHANGED vars
  BY <1>1, <1>2 DEF vars, pcbVars, waitVars, NobodyLeaves
<1>3. ASSUME NEW r \in Pids, Wake(r) PROVE NobodyLeaves
  BY <1>1, <1>3 DEF Wake, NobodyLeaves, waitVars, IInv, TypeOK
<1>. QED  BY <1>2, <1>3

LEMMA PartsKept ==
  ASSUME SyncParts, UNCHANGED programVars, UNCHANGED <<open, value, downOn>>
  PROVE  SyncParts'
BY DEF SyncParts, programVars, SyncTypeOK, Named, InRounds, OneUnit, SumsKept,
       Tester, Worker, Holds, Done, Due

(* Processes leave the table, or return, and none is created.              *)
LEMMA LifeLeft ==
  ASSUME Alone, UNCHANGED <<pc, inc, pids>>, i'[SHELL_PID] # 0 => i[SHELL_PID] # 0,
         \A p \in Pids :
           /\ InTable(p)' => InTable(p) /\ parent'[p] = parent[p]
           /\ Alive(p)' => Alive(p)
           /\ Alive(p) /\ ~Alive(p)' => pc[p] = "return"
           /\ InTable(p) /\ ~InTable(p)'
                => pc[p] = "command" \/ pc[Tester] \notin {"openTest", "create"},
         ~shouldKillForeground', control' # "kill"
  PROVE  Life'
<1>1. SyncTypeOK /\ IInv /\ Life /\ Named
  BY DEF Alone, SyncInv, SyncParts, SyncBase
<1>2. Tester \in Pids /\ SHELL_PID \in Pids /\ pc[SHELL_PID] = "command"
  BY <1>1, SyncPids DEF Named
<1>3. Tester' = Tester /\ \A p \in Pids : Worker(p)' <=> Worker(p)
  BY DEF Tester, Worker
<1>4. /\ ~shouldKillForeground' /\ control' # "kill"
      /\ \A p \in Pids :
           /\ InTable(p)' /\ pc'[p] = "command" => p \in {IDLE_PID, SHELL_PID}
           /\ Worker(p)' => /\ InTable(p)' => parent'[p] = Tester'
                            /\ Alive(p)' => pc'[Tester'] \in {"create", "join"}
                            /\ ~Alive(p)' => pc'[p] = "return"
  BY <1>1, <1>2, <1>3 DEF Life
<1>5. i'[SHELL_PID] # 0 =>
       /\ Alive(SHELL_PID)'
       /\ InTable(Tester)' => parent'[Tester'] = SHELL_PID
       /\ pc'[Tester'] # "return" => Alive(Tester)'
  BY <1>1, <1>2, <1>3 DEF Life, Alive, InTable
<1>6. pc'[Tester'] \in {"openTest", "create"} =>
       \A p \in Pids : pc'[p] # "command" => InTable(p)'
  BY <1>1, <1>2, <1>3 DEF Life
<1>. QED  BY <1>4, <1>5, <1>6 DEF Life

LEMMA JoinLeft ==
  ASSUME Alone, UNCHANGED <<pc, pids>>, i'[Tester] = i[Tester],
         i'[SHELL_PID] # 0 => i[SHELL_PID] # 0,
         \A p \in Pids : Alive(p)' => Alive(p),
         Tester \in waiting' => /\ Tester \in waiting
                                /\ targetWaitPid'[Tester] = targetWaitPid[Tester],
         pc[Tester] = "join" /\ i[Tester] # 0 /\ Tester \in waiting /\ Tester \notin waiting'
           => ~Alive(pids[i[Tester]])'
  PROVE  Joining'
<1>1. SyncTypeOK /\ IInv /\ Named /\ Joining
  BY DEF Alone, SyncInv, SyncParts, SyncBase
<1>2. Tester \in Pids /\ i[Tester] \in Nat /\ Tester' = Tester
  BY <1>1, SyncPids DEF SyncTypeOK, Tester
<1>3. ASSUME pc[Tester] = "join", NEW c \in 1..i[Tester], Alive(pids[c])'
      PROVE  c = i[Tester] /\ Tester \in waiting'
  <2>1. 1..i[Tester] \subseteq Children
    BY <1>1, <1>2, <1>3, TestSyncAssumption DEF Named, Children
  <2>2. pids[c] \in Pids
    BY <1>1, <2>1, SyncPids
  <2>3. c = i[Tester] /\ Tester \in waiting
    BY <1>1, <1>3, <2>2 DEF Joining
  <2>. QED  BY <1>2, <1>3, <2>3
<1>4. Tester \in waiting' /\ i'[SHELL_PID] # 0 =>
        pc[Tester] = "join" /\ i[Tester] # 0 /\ targetWaitPid'[Tester] = pids[i[Tester]]
  BY <1>1 DEF Joining
<1>. QED  BY <1>2, <1>3, <1>4 DEF Joining

-----------------------------------------------------------------------------
(* The timer and the kernel                                                *)
Kept == SyncParts' /\ (fault' = "none" => Life' /\ Joining')

LEMMA QuietKept ==
  ASSUME Alone, NobodyLeaves, KeepSemaphores, UNCHANGED programVars
  PROVE  Kept
<1>1. UNCHANGED <<open, value, downOn>>
  BY NobodyLeavesDown
<1>2. SyncParts'
  BY <1>1, PartsKept DEF Alone, SyncInv
<1>3. Life' /\ Joining'
  BY LifeKept DEF programVars
<1>. QED  BY <1>2, <1>3 DEF Kept

(* The shell starts before anything else does.                             *)
LEMMA StartShellKept ==
  ASSUME Alone, StartShell, KeepSemaphores, UNCHANGED programVars
  PROVE  Kept
<1>1. IInv /\ SyncTypeOK /\ Named /\ Life /\ Joining /\ ~InTable(SHELL_PID)
  BY DEF Alone, SyncInv, SyncBase, SyncParts, StartShell
<1>2. SHELL_PID \in Pids /\ Tester \in Pids /\ IDLE_PID \in Pids
  BY <1>1, SyncPids
<1>3. i[SHELL_PID] = 0 /\ \A p \in Pids : pc[p] = "command" /\ ~Worker(p)
  BY <1>1, <1>2 DEF Life, Named, Alive, InTable
<1>4. UNCHANGED <<open, value, downOn>>
  BY <1>3, DownKept
<1>5. SyncParts'
  BY <1>4, PartsKept DEF Alone, SyncInv
<1>6. UNCHANGED <<pc, i, inc, pids>>
  BY DEF programVars
<1>7. ~shouldKillForeground' /\ control' # "kill"
  BY <1>1 DEF StartShell, Create, Crash, Life
<1>8. ASSUME NEW p \in Pids, InTable(p)' PROVE p \in {IDLE_PID, SHELL_PID}
  <2>1. nextAvailablePid = SHELL_PID
    BY <1>1, <1>2 DEF IInv, LeastFreePid, IdleScheduled, Scheduled, InTable, TypeOK, Pids,
                      SHELL_PID, IDLE_PID
  <2>2. p # SHELL_PID => status'[p] = status[p]
    BY <1>1, <2>1 DEF StartShell, Create, Crash, pcbVars, IInv, TypeOK
  <2>. QED  BY <1>1, <1>3, <1>8, <2>2 DEF Life, InTable
<1>9. Life'
  BY <1>2, <1>3, <1>6, <1>7, <1>8 DEF Life, Worker, Tester
<1>10. Joining'
  BY <1>2, <1>3, <1>6 DEF Joining, Tester
<1>. QED  BY <1>5, <1>9, <1>10 DEF Kept

LEMMA TickKept ==
  ASSUME Alone, Tick
  PROVE  Kept
BY SchedulesLeave, QuietKept, StartShellKept DEF Tick, TimerTick

LEMMA WaitReturnKept ==
  ASSUME Alone, WaitReturn, KeepSemaphores, UNCHANGED programVars
  PROVE  Kept
<1>. DEFINE child == targetWaitPid[currentPid]
<1>1. /\ IInv /\ SyncTypeOK /\ Named /\ Life /\ Joining /\ WaitersOwnTarget
      /\ currentPid \in waiting /\ currentPid \in Pids
  BY DEF Alone, SyncInv, SyncBase, SyncParts, WaitReturn, IInv, TypeOK
<1>2. /\ Tester \in Pids /\ SHELL_PID \in Pids /\ IDLE_PID \in Pids
      /\ UNCHANGED <<pc, i, inc, pids>>
  BY <1>1, SyncPids DEF programVars
<1>3. CASE Crash("corrupt")
  <2>1. UNCHANGED status /\ fault' # "none"
    BY <1>3 DEF Crash, pcbVars
  <2>2. \A p \in Pids : pc[p] = "read" => Alive(p)
    BY InsideLives DEF Alone, SyncInv, SyncParts, InRounds, Critical
  <2>3. UNCHANGED <<open, value, downOn>>
    BY <2>1, <2>2, DownKept DEF Alive
  <2>. QED  BY <2>1, <2>3, PartsKept DEF Alone, SyncInv, Kept
<1>4. CASE /\ child \in zombieChildren[currentPid]
           /\ targetWaitPid' = Clear(targetWaitPid, {child}, 0)
           /\ waiting' = waiting \ {currentPid}
           /\ Reap(child)
  <2>1. child \in Pids /\ status[child] = "ZOMBIE" /\ parent[child] = currentPid
    BY <1>1, <1>4 DEF IInv, TypeOK, ZombiesReachable
  <2>2. /\ \A p \in Pids : status'[p] = IF p = child THEN "NONE" ELSE status[p]
        /\ \A p \in Pids : parent'[p] = IF p = child THEN IDLE_PID ELSE parent[p]
        /\ \A p \in Pids : targetWaitPid'[p] = IF p = child THEN 0 ELSE targetWaitPid[p]
        /\ UNCHANGED <<shouldKillForeground, control>>
    BY <1>1, <1>4, ReapChanges DEF Reap, DestroyZombies, Clear
  <2>3. \A p \in Pids : pc[p] = "read" => Alive(p)
    BY InsideLives DEF Alone, SyncInv, SyncParts, InRounds, Critical
  <2>4. UNCHANGED <<open, value, downOn>>
    BY <2>1, <2>2, <2>3, DownKept DEF Alive
  <2>5. SyncParts'
    BY <2>4, PartsKept DEF Alone, SyncInv
  <2>6. pc[child] = "command" \/ pc[Tester] \notin {"openTest", "create"}
    <3>1. CASE currentPid = Tester
      BY <1>1, <1>2, <3>1 DEF Joining, Named
    <3>2. CASE currentPid # Tester
      <4>1. ~Worker(child)
        BY <1>1, <2>1, <3>2 DEF Life, InTable
      <4>2. child = Tester => pc[Tester] = "return" \/ i[SHELL_PID] = 0
        BY <1>1, <2>1 DEF Life, Alive
      <4>. QED  BY <1>1, <1>2, <2>1, <4>1, <4>2 DEF Named
    <3>. QED  BY <3>1, <3>2
  <2>. HIDE DEF child
  <2>7. /\ \A p \in Pids :
             /\ InTable(p)' => InTable(p) /\ parent'[p] = parent[p]
             /\ Alive(p)' <=> Alive(p)
             /\ InTable(p) /\ ~InTable(p)' => p = child
        /\ ~shouldKillForeground' /\ control' # "kill"
    BY <1>1, <2>1, <2>2 DEF InTable, Alive, Life
  <2>8. Life'
    BY <1>2, <2>6, <2>7, LifeLeft
  <2>9. Tester \in waiting' => /\ Tester \in waiting
                               /\ targetWaitPid'[Tester] = targetWaitPid[Tester]
    BY <1>1, <1>2, <1>4, <2>1, <2>2 DEF WaitersOwnTarget, OwnsTarget, Alive
  <2>10. pc[Tester] = "join" /\ i[Tester] # 0 /\ Tester \in waiting
           /\ Tester \notin waiting' => ~Alive(pids[i[Tester]])'
    <3>1. SUFFICES ASSUME pc[Tester] = "join", Tester = currentPid
                   PROVE  ~Alive(pids[i[Tester]])'
      BY <1>4
    <3>2. child = pids[i[Tester]]
      BY <1>1, <1>2, <3>1 DEF Joining, Named, child
    <3>3. status'[child] = "NONE" /\ pids' = pids /\ i' = i /\ Tester' = Tester
      BY <1>2, <2>1, <2>2 DEF Tester
    <3>4. status'[pids'[i'[Tester']]] = "NONE"
      BY <3>2, <3>3
    <3>. QED  BY <3>4 DEF Alive
  <2>11. Joining'
    BY <1>2, <2>7, <2>9, <2>10, JoinLeft
  <2>. QED  BY <2>5, <2>8, <2>11 DEF Kept
<1>. QED  BY <1>3, <1>4 DEF WaitReturn

(* What a process that is suspended in down() does when it runs again, and *)
(* one that comes to down().                                               *)
LEMMA DownTakes ==
  ASSUME Alone, Decrement(SEM_ID), UNCHANGED <<global, i, aux, inc, pids>>,
         pc' = [pc EXCEPT ![currentPid] = "read"], currentPid # Tester,
         \/ pc[currentPid] = "wait" /\ i[currentPid] < Rounds
         \/ pc[currentPid] = "read"
  PROVE  SyncParts'
<1>1. /\ SyncTypeOK /\ Named /\ InRounds /\ OneUnit /\ SumsKept /\ SemTypeOK
      /\ IDLE_PID \in Pids /\ SHELL_PID \in Pids /\ Tester \in Pids /\ currentPid \in Pids
      /\ SEM_ID \in Sems
  BY SyncPids DEF Alone, SyncInv, SyncBase, SyncParts
<1>2. /\ \A p \in Pids : pc'[p] = IF p = currentPid THEN "read" ELSE pc[p]
      /\ \A p \in Pids : downOn'[p] = IF p = currentPid THEN None ELSE downOn[p]
      /\ Tester' = Tester /\ \A p \in Pids : Worker(p)' <=> Worker(p)
  BY <1>1 DEF SyncTypeOK, SemTypeOK, Decrement, Tester, Worker
<1>3. Worker(currentPid)
  BY <1>1 DEF InRounds, Critical
<1>4. SyncTypeOK'
  BY <1>1 DEF SyncTypeOK, WorkerLabels, Critical
<1>5. Named'
  BY <1>1, <1>2, <1>3 DEF Named, WorkerLabels, Critical
<1>6. InRounds'
  BY <1>1, <1>2, <1>3 DEF InRounds, WorkerLabels, Critical
<1>7. OneUnit'
  <2>1. value[SEM_ID] = 1 /\ value'[SEM_ID] = 0 /\ UNCHANGED open
    BY <1>1 DEF Decrement, OneUnit, SemTypeOK
  <2>2. \A p \in Pids : Holds(p)' => p = currentPid
    BY <1>1, <1>2, <2>1 DEF Holds, OneUnit
  <2>. QED  BY <1>1, <1>2, <2>1, <2>2 DEF OneUnit, Testing
<1>8. SumsKept'
  <2>1. Done' = Done /\ Due' = Due
    BY <1>1, <1>2 DEF Done, Due
  <2>2. SumOver(Done)' = SumOver(Done) /\ SumOver(Due)' = SumOver(Due)
    BY <2>1, SumsPrimed
  <2>. QED  BY <1>1, <1>2, <2>2 DEF SumsKept
<1>. QED  BY <1>4, <1>5, <1>6, <1>7, <1>8 DEF SyncParts

LEMMA DownSleeps ==
  ASSUME Alone, Suspended(SEM_ID), UNCHANGED <<global, i, aux, inc, pids>>,
         pc' = [pc EXCEPT ![currentPid] = "read"], currentPid # Tester,
         \/ pc[currentPid] = "wait" /\ i[currentPid] < Rounds
         \/ pc[currentPid] = "read"
  PROVE  SyncParts'
<1>1. /\ SyncTypeOK /\ Named /\ InRounds /\ OneUnit /\ SumsKept /\ SemTypeOK
      /\ IDLE_PID \in Pids /\ SHELL_PID \in Pids /\ Tester \in Pids /\ currentPid \in Pids
      /\ SEM_ID \in Sems /\ SEM_ID # None
  BY SyncPids DEF Alone, SyncInv, SyncBase, SyncParts
<1>2. /\ \A p \in Pids : pc'[p] = IF p = currentPid THEN "read" ELSE pc[p]
      /\ \A p \in Pids : downOn'[p] = IF p = currentPid THEN SEM_ID ELSE downOn[p]
      /\ Tester' = Tester /\ \A p \in Pids : Worker(p)' <=> Worker(p)
  BY <1>1 DEF SyncTypeOK, SemTypeOK, Suspended, Tester, Worker
<1>3. Worker(currentPid)
  BY <1>1 DEF InRounds, Critical
<1>4. SyncTypeOK'
  BY <1>1 DEF SyncTypeOK, WorkerLabels, Critical
<1>5. Named'
  BY <1>1, <1>2, <1>3 DEF Named, WorkerLabels, Critical
<1>6. InRounds'
  BY <1>1, <1>2, <1>3 DEF InRounds, WorkerLabels, Critical
<1>7. OneUnit'
  <2>1. UNCHANGED <<open, value>>
    BY DEF Suspended
  <2>2. \A p \in Pids : Holds(p)' => Holds(p)
    BY <1>1, <1>2 DEF Holds
  <2>. QED  BY <1>1, <1>2, <2>1, <2>2 DEF OneUnit, Testing
<1>8. SumsKept'
  <2>1. Done' = Done /\ Due' = Due
    BY <1>1, <1>2 DEF Done, Due
  <2>2. SumOver(Done)' = SumOver(Done) /\ SumOver(Due)' = SumOver(Due)
    BY <2>1, SumsPrimed
  <2>. QED  BY <1>1, <1>2, <2>2 DEF SumsKept
<1>. QED  BY <1>4, <1>5, <1>6, <1>7, <1>8 DEF SyncParts

(* A worker that runs goes on in its program.                              *)
LEMMA WorkerLife ==
  ASSUME Alone, NobodyLeaves, UNCHANGED <<inc, pids>>, NEW l \in WorkerLabels,
         pc' = [pc EXCEPT ![currentPid] = l], Worker(currentPid), Alive(currentPid),
         \A p \in Pids : p # currentPid => i'[p] = i[p]
  PROVE  Life' /\ Joining'
<1>1. SyncTypeOK /\ IInv /\ Life /\ Joining /\ Named
  BY DEF Alone, SyncInv, SyncParts, SyncBase
<1>2. Tester \in Pids /\ SHELL_PID \in Pids /\ currentPid \in Pids /\ Tester' = Tester
  BY <1>1, SyncPids DEF Tester
<1>3. currentPid # SHELL_PID /\ i[SHELL_PID] # 0 /\ currentPid # Tester
  BY <1>1, <1>2, TesterIs DEF Named
<1>4. /\ \A p \in Pids : pc'[p] = IF p = currentPid THEN l ELSE pc[p]
      /\ \A p \in Pids : Worker(p)' <=> Worker(p)
      /\ pc[currentPid] # "command" /\ l # "command"
  BY <1>1, <1>2 DEF SyncTypeOK, Worker, Named, WorkerLabels, Critical
<1>5. \A p \in Pids : (InTable(p)' <=> InTable(p)) /\ (Alive(p)' <=> Alive(p))
  BY DEF NobodyLeaves, InTable, Alive
<1>6. Life'
  BY <1>1, <1>2, <1>3, <1>4, <1>5 DEF NobodyLeaves, Life
<1>7. ASSUME pc[Tester] = "join", NEW c \in 1..i[Tester], Alive(pids[c])'
      PROVE  c = i[Tester] /\ Tester \in waiting
  <2>1. i[Tester] \in Nat /\ 1..i[Tester] \subseteq Children
    BY <1>1, <1>2, <1>7, TestSyncAssumption DEF SyncTypeOK, Named, Children
  <2>2. Alive(pids[c])
    <3>1. pids[c] \in Pids /\ pids'[c] = pids[c]
      BY <1>1, <2>1, SyncPids
    <3>. QED  BY <1>5, <1>7, <3>1
  <2>. QED  BY <1>1, <1>7, <2>2 DEF Joining
<1>8. Joining'
  <2>1. i'[Tester] = i[Tester] /\ pc'[Tester] = pc[Tester] /\ i'[SHELL_PID] = i[SHELL_PID]
    BY <1>2, <1>3, <1>4
  <2>. QED  BY <1>1, <1>2, <1>7, <2>1 DEF NobodyLeaves, Joining
<1>. QED  BY <1>6, <1>8

LEMMA DownKeeps ==
  ASSUME Alone, UserMode \/ control = "user", Decrement(SEM_ID) \/ Suspended(SEM_ID),
         UNCHANGED <<global, i, aux, inc, pids>>,
         pc' = [pc EXCEPT ![currentPid] = "read"],
         currentPid # Tester, Worker(currentPid), Alive(currentPid),
         \/ pc[currentPid] = "wait" /\ i[currentPid] < Rounds
         \/ pc[currentPid] = "read"
  PROVE  Kept
<1>1. SyncParts'
  BY DownTakes, DownSleeps
<1>2. NobodyLeaves
  BY WakeLeaves, SuspendLeaves DEF Decrement, Suspended
<1>3. Life' /\ Joining'
  BY <1>2, WorkerLife DEF WorkerLabels, Critical
<1>. QED  BY <1>1, <1>3 DEF Kept

LEMMA KernelKept ==
  ASSUME Alone, Kernel
  PROVE  Kept
<1>1. CASE SoftTick /\ KeepSemaphores /\ UNCHANGED programVars
  BY <1>1, SchedulesLeave, QuietKept DEF SoftTick
<1>2. ~ForegroundKill
  BY DEF Alone, SyncInv, Life, ForegroundKill
<1>3. CASE WaitReturn /\ KeepSemaphores /\ UNCHANGED programVars
  BY <1>3, WaitReturnKept
<1>4. CASE SemResume /\ UNCHANGED programVars
  <2>1. SyncTypeOK /\ InRounds /\ Named /\ IInv /\ RunInv
    BY DEF Alone, SyncInv, SyncParts, SyncBase
  <2>2. /\ currentPid \in Pids /\ SEM_ID \in Sems /\ None # Freed
        /\ SEM_ID # Freed /\ SEM_ID # None /\ None \notin Sems
    BY <2>1, SyncPids, SemaphoreAssumption
  <2>3. downOn[currentPid] # None
    BY <1>4, <2>2 DEF SemResume
  <2>4. downOn[currentPid] = SEM_ID /\ pc[currentPid] = "read" /\ Worker(currentPid)
    BY <2>1, <2>2, <2>3 DEF InRounds, Critical
  <2>5. i[SHELL_PID] # 0 /\ currentPid # Tester
    BY <2>1, <2>2, <2>4, TesterIs DEF Named
  <2>6. Alive(currentPid) /\ control = "user"
    BY <1>4, <2>1 DEF SemResume, RunInv, RunningIsCurrent
  <2>7. Decrement(SEM_ID) \/ Suspended(SEM_ID)
    BY <1>4, <2>2, <2>4 DEF SemResume, Retry
  <2>8. pc' = [pc EXCEPT ![currentPid] = "read"]
    BY <1>4, <2>1, <2>2, <2>4 DEF programVars, SyncTypeOK
  <2>. QED  BY <1>4, <2>4, <2>5, <2>6, <2>7, <2>8, DownKeeps DEF programVars
<1>. QED  BY <1>1, <1>2, <1>3, <1>4 DEF Kernel, KernelStep

-----------------------------------------------------------------------------
(* my_process_inc                                                          *)
LEMMA WorkerRuns ==
  ASSUME Alone, NEW l \in WorkerLabels \ {"return"}, At(l)
  PROVE  /\ UserMode /\ currentPid # IDLE_PID /\ downOn[currentPid] = None
         /\ pc[currentPid] = l /\ Worker(currentPid) /\ Alive(currentPid)
         /\ currentPid # Tester /\ currentPid # SHELL_PID /\ i[SHELL_PID] # 0
         /\ pc[Tester] \in {"create", "join"} /\ open[SEM_ID]
         /\ SyncTypeOK /\ Named /\ InRounds /\ OneUnit /\ SumsKept /\ SemTypeOK
         /\ IDLE_PID \in Pids /\ SHELL_PID \in Pids /\ Tester \in Pids /\ currentPid \in Pids
         /\ SEM_ID \in Sems /\ SEM_ID # None
<1>1. /\ SyncTypeOK /\ Named /\ InRounds /\ OneUnit /\ SumsKept /\ SemTypeOK
      /\ IDLE_PID \in Pids /\ SHELL_PID \in Pids /\ Tester \in Pids /\ currentPid \in Pids
      /\ SEM_ID \in Sems /\ SEM_ID # None
  BY SyncPids DEF Alone, SyncInv, SyncBase, SyncParts
<1>2. /\ UserMode /\ currentPid # IDLE_PID /\ downOn[currentPid] = None
      /\ pc[currentPid] = l
  BY DEF At, InUser
<1>3. l # "command" /\ l \in WorkerLabels
  BY DEF WorkerLabels, Critical
<1>. QED  BY <1>1, <1>2, <1>3, WhoRuns DEF OneUnit

(* The variables of the program after a step of a worker.                  *)
LEMMA WorkerNames ==
  ASSUME Alone, Worker(currentPid), currentPid \in Pids, currentPid # Tester,
         currentPid # SHELL_PID, NEW l \in WorkerLabels, UNCHANGED <<inc, pids>>,
         pc' = [pc EXCEPT ![currentPid] = l], global' \in Int, aux' \in [Pids -> Int],
         i' \in [Pids -> Nat], \A p \in Pids : p # currentPid => i'[p] = i[p],
         i'[currentPid] <= Rounds,
         l \in Critical \cup {"open"} => i'[currentPid] < Rounds,
         l = "return" => i'[currentPid] = Rounds, UNCHANGED downOn,
         downOn[currentPid] = None
  PROVE  /\ SyncTypeOK' /\ Named' /\ InRounds' /\ Tester' = Tester
         /\ \A p \in Pids : pc'[p] = IF p = currentPid THEN l ELSE pc[p]
         /\ pc'[Tester'] = pc[Tester] /\ i'[Tester'] = i[Tester]
<1>1. /\ SyncTypeOK /\ Named /\ InRounds
      /\ IDLE_PID \in Pids /\ SHELL_PID \in Pids /\ Tester \in Pids
  BY SyncPids DEF Alone, SyncInv, SyncBase, SyncParts
<1>2. /\ \A p \in Pids : pc'[p] = IF p = currentPid THEN l ELSE pc[p]
      /\ Tester' = Tester /\ \A p \in Pids : Worker(p)' <=> Worker(p)
  BY <1>1 DEF SyncTypeOK, Tester, Worker
<1>3. l # "command" /\ l \notin {"openTest", "create", "join", "print"}
  BY DEF WorkerLabels, Critical
<1>4. SyncTypeOK'
  BY <1>1 DEF SyncTypeOK
<1>5. Named'
  BY <1>1, <1>2, <1>3 DEF Named
<1>6. InRounds'
  BY <1>1, <1>2, <1>3 DEF InRounds
<1>. QED  BY <1>1, <1>2, <1>4, <1>5, <1>6

LEMMA VarsLeave ==
  ASSUME Alone, UNCHANGED semaphoreVars
  PROVE  NobodyLeaves /\ UNCHANGED <<open, value, downOn>>
BY WakeLeaves DEF semaphoreVars, semVars

(* Steps that add nothing to the variable.                                 *)
LEMMA WorkerKept ==
  ASSUME Alone, NobodyLeaves, UNCHANGED <<open, value, downOn>>,
         NEW l \in WorkerLabels, NEW m \in WorkerLabels \ {"return"}, At(m),
         pc' = [pc EXCEPT ![currentPid] = l], UNCHANGED <<global, i, aux, inc, pids>>,
         \/ m = "open" /\ l = "wait"
         \/ m = "wait" /\ l = "return" /\ i[currentPid] = Rounds
         \/ m = "yield" /\ l = "write"
  PROVE  Kept
<1>1. /\ pc[currentPid] = m /\ Worker(currentPid) /\ Alive(currentPid)
      /\ currentPid # Tester /\ currentPid # SHELL_PID
      /\ downOn[currentPid] = None /\ i[SHELL_PID] # 0 /\ pc[Tester] \in {"create", "join"}
      /\ SyncTypeOK /\ Named /\ InRounds /\ OneUnit /\ SumsKept
      /\ Tester \in Pids /\ currentPid \in Pids /\ SHELL_PID \in Pids
  BY WorkerRuns
<1>2. Life' /\ Joining'
  BY <1>1, WorkerLife
<1>3. i[currentPid] <= Rounds /\ i[currentPid] \in Nat
      /\ (m = "yield" => i[currentPid] < Rounds)
  BY <1>1 DEF InRounds, SyncTypeOK, Critical
<1>4. /\ SyncTypeOK' /\ Named' /\ InRounds' /\ Tester' = Tester
      /\ \A p \in Pids : pc'[p] = IF p = currentPid THEN l ELSE pc[p]
      /\ pc'[Tester'] = pc[Tester] /\ i'[Tester'] = i[Tester]
  BY <1>1, <1>3, WorkerNames DEF SyncTypeOK, Critical
<1>5. OneUnit'
  <2>1. \A p \in Pids : Holds(p)' => Holds(p)
    BY <1>1, <1>4 DEF Holds, Critical
  <2>. QED  BY <1>1, <1>4, <2>1 DEF OneUnit
<1>6. SumsKept'
  <2>1. Done' = Done /\ Due' = Due
    BY <1>1, <1>4 DEF Done, Due
  <2>2. SumOver(Done)' = SumOver(Done) /\ SumOver(Due)' = SumOver(Due)
    BY <2>1, SumsPrimed
  <2>3. \A p \in Pids : pc'[p] \in {"yield", "write"} => pc[p] \in {"yield", "write"}
    BY <1>1, <1>4
  <2>4. l # "print"
    BY DEF WorkerLabels, Critical
  <2>. QED  BY <1>1, <1>4, <2>2, <2>3, <2>4 DEF SumsKept
<1>. QED  BY <1>2, <1>4, <1>5, <1>6 DEF Kept, SyncParts

LEMMA ReadKept ==
  ASSUME Alone, At("read"), aux' = [aux EXCEPT ![currentPid] = global], Goto("yield"),
         UNCHANGED <<semaphoreVars, global, i, inc, pids>>
  PROVE  Kept
<1>1. /\ pc[currentPid] = "read" /\ Worker(currentPid) /\ Alive(currentPid)
      /\ currentPid # Tester /\ currentPid # SHELL_PID
      /\ downOn[currentPid] = None /\ i[SHELL_PID] # 0 /\ pc[Tester] \in {"create", "join"}
      /\ SyncTypeOK /\ Named /\ InRounds /\ OneUnit /\ SumsKept
      /\ Tester \in Pids /\ currentPid \in Pids /\ SHELL_PID \in Pids
  BY WorkerRuns DEF WorkerLabels, Critical
<1>2. NobodyLeaves /\ UNCHANGED <<open, value, downOn>> /\ "yield" \in WorkerLabels
      /\ pc' = [pc EXCEPT ![currentPid] = "yield"]
  BY VarsLeave DEF WorkerLabels, Critical, Goto
<1>3. Life' /\ Joining'
  BY <1>1, <1>2, WorkerLife
<1>4. i[currentPid] < Rounds /\ i[currentPid] \in Nat /\ Rounds \in Nat
  BY <1>1, TestSyncAssumption DEF InRounds, SyncTypeOK, Critical
<1>5. /\ SyncTypeOK' /\ Named' /\ InRounds' /\ Tester' = Tester
      /\ \A p \in Pids : pc'[p] = IF p = currentPid THEN "yield" ELSE pc[p]
      /\ pc'[Tester'] = pc[Tester] /\ i'[Tester'] = i[Tester]
  <2>1. global' \in Int /\ aux' \in [Pids -> Int] /\ i' \in [Pids -> Nat]
    BY <1>1 DEF SyncTypeOK
  <2>2. /\ i'[currentPid] <= Rounds /\ i'[currentPid] < Rounds
        /\ \A p \in Pids : p # currentPid => i'[p] = i[p]
    BY <1>4
  <2>. QED  BY <1>1, <1>2, <2>1, <2>2, WorkerNames
<1>6. OneUnit'
  <2>1. \A p \in Pids : Holds(p)' => Holds(p)
    BY <1>1, <1>2, <1>5 DEF Holds, Critical
  <2>. QED  BY <1>1, <1>2, <1>5, <2>1 DEF OneUnit
<1>7. SumsKept'
  <2>1. Done' = Done /\ Due' = Due
    BY <1>1, <1>5 DEF Done, Due
  <2>2. SumOver(Done)' = SumOver(Done) /\ SumOver(Due)' = SumOver(Due)
    BY <2>1, SumsPrimed
  <2>3. \A p \in Pids : aux'[p] = IF p = currentPid THEN global ELSE aux[p]
    BY <1>1 DEF SyncTypeOK
  <2>. QED  BY <1>1, <1>5, <2>2, <2>3 DEF SumsKept
<1>. QED  BY <1>3, <1>5, <1>6, <1>7 DEF Kept, SyncParts

(* slowInc stores what it read plus its own step: nobody else has stored   *)
(* anything meanwhile, for its copy is the variable as it is.              *)
LEMMA WriteKept ==
  ASSUME Alone, At("write"), global' = aux[currentPid] + inc[currentPid], Goto("post"),
         UNCHANGED <<semaphoreVars, i, aux, inc, pids>>
  PROVE  Kept
<1>1. /\ pc[currentPid] = "write" /\ Worker(currentPid) /\ Alive(currentPid)
      /\ currentPid # Tester /\ currentPid # SHELL_PID
      /\ downOn[currentPid] = None /\ i[SHELL_PID] # 0 /\ pc[Tester] \in {"create", "join"}
      /\ SyncTypeOK /\ Named /\ InRounds /\ OneUnit /\ SumsKept
      /\ Tester \in Pids /\ currentPid \in Pids /\ SHELL_PID \in Pids
  BY WorkerRuns DEF WorkerLabels, Critical
<1>2. NobodyLeaves /\ UNCHANGED <<open, value, downOn>> /\ "post" \in WorkerLabels
      /\ pc' = [pc EXCEPT ![currentPid] = "post"]
  BY VarsLeave DEF WorkerLabels, Critical, Goto
<1>3. Life' /\ Joining'
  BY <1>1, <1>2, WorkerLife
<1>4. i[currentPid] < Rounds /\ i[currentPid] \in Nat /\ Rounds \in Nat
  BY <1>1, TestSyncAssumption DEF InRounds, SyncTypeOK, Critical
<1>5. /\ SyncTypeOK' /\ Named' /\ InRounds' /\ Tester' = Tester
      /\ \A p \in Pids : pc'[p] = IF p = currentPid THEN "post" ELSE pc[p]
      /\ pc'[Tester'] = pc[Tester] /\ i'[Tester'] = i[Tester]
  <2>1. global' \in Int /\ aux' \in [Pids -> Int] /\ i' \in [Pids -> Nat]
    BY <1>1 DEF SyncTypeOK
  <2>2. /\ i'[currentPid] <= Rounds /\ i'[currentPid] < Rounds
        /\ \A p \in Pids : p # currentPid => i'[p] = i[p]
    BY <1>4
  <2>. QED  BY <1>1, <1>2, <2>1, <2>2, WorkerNames
<1>6. OneUnit'
  <2>1. \A p \in Pids : Holds(p)' => Holds(p)
    BY <1>1, <1>2, <1>5 DEF Holds, Critical
  <2>. QED  BY <1>1, <1>2, <1>5, <2>1 DEF OneUnit
<1>7. SumsKept'
  <2>1. Due' = Due
    BY <1>1, <1>5 DEF Due
  <2>2. Done \in [Pids -> Int] /\ Done' \in [Pids -> Int]
    BY <1>1, <1>5 DEF Done, SyncTypeOK
  <2>3. \A p \in Pids : p # currentPid => Done'[p] = Done[p]
    BY <1>5 DEF Done
  <2>4. Done'[currentPid] - Done[currentPid] = inc[currentPid]
    <3>1. /\ Done'[currentPid] = inc[currentPid] * (i[currentPid] + 1)
          /\ Done[currentPid] = inc[currentPid] * (i[currentPid] + 0)
      BY <1>1, <1>5 DEF Done
    <3>2. inc[currentPid] \in {-1, 0, 1}
      BY <1>1 DEF SyncTypeOK
    <3>. QED  BY <1>4, <3>1, <3>2
  <2>5. SumOver(Done) \in Int
        /\ SumOver(Done') = SumOver(Done) + (Done'[currentPid] - Done[currentPid])
    BY <1>1, <2>2, <2>3, SumChanges
  <2>6. SumOver(Done)' = SumOver(Done) + inc[currentPid] /\ SumOver(Due)' = SumOver(Due)
    BY <2>1, <2>4, <2>5, SumsPrimed
  <2>7. global' = SumOver(Done)'
    BY <1>1, <2>6 DEF SumsKept
  <2>8. ASSUME NEW p \in Pids PROVE pc'[p] \notin {"yield", "write"}
    <3>1. CASE pc[p] \in {"yield", "write"}
      <4>1. Holds(p) /\ Holds(currentPid)
        BY <1>1, <3>1 DEF Holds, InRounds, Critical
      <4>. QED  BY <1>1, <1>5, <4>1 DEF OneUnit
    <3>. QED  BY <1>5, <3>1
  <2>9. ASSUME NEW p \in Pids PROVE pc'[p] # "print"
    <3>1. pc[p] = "print" => ~Worker(p)
      BY <1>1 DEF InRounds, WorkerLabels, Critical
    <3>2. pc[p] = "print" => p = Tester
      BY <1>1, <3>1 DEF Named
    <3>. QED  BY <1>1, <1>5, <3>2
  <2>. HIDE DEF Done, Due
  <2>. QED  BY <1>1, <1>5, <2>6, <2>7, <2>8, <2>9 DEF SumsKept
<1>. QED  BY <1>3, <1>5, <1>6, <1>7 DEF Kept, SyncParts

LEMMA PostKept ==
  ASSUME Alone, At("post"), SemPost(SEM_ID), Goto("wait"),
         i' = [i EXCEPT ![currentPid] = @ + 1], UNCHANGED <<global, aux, inc, pids>>
  PROVE  Kept
<1>1. /\ pc[currentPid] = "post" /\ Worker(currentPid) /\ Alive(currentPid)
      /\ currentPid # Tester /\ currentPid # SHELL_PID
      /\ downOn[currentPid] = None /\ i[SHELL_PID] # 0 /\ pc[Tester] \in {"create", "join"}
      /\ SyncTypeOK /\ Named /\ InRounds /\ OneUnit /\ SumsKept /\ SemTypeOK
      /\ Tester \in Pids /\ currentPid \in Pids /\ SHELL_PID \in Pids /\ SEM_ID \in Sems
  BY WorkerRuns DEF WorkerLabels, Critical
<1>2. NobodyLeaves /\ UNCHANGED <<open, downOn>> /\ "wait" \in WorkerLabels
      /\ value'[SEM_ID] = value[SEM_ID] + 1
      /\ pc' = [pc EXCEPT ![currentPid] = "wait"]
  BY <1>1, PostMoves, WakeLeaves DEF WorkerLabels, Critical, Goto, SemPost, SemTypeOK
<1>3. \A p \in Pids : i'[p] = IF p = currentPid THEN i[p] + 1 ELSE i[p]
  BY <1>1 DEF SyncTypeOK
<1>4. Life' /\ Joining'
  BY <1>1, <1>2, <1>3, WorkerLife
<1>5. i[currentPid] < Rounds /\ i[currentPid] \in Nat /\ Rounds \in Nat
  BY <1>1, TestSyncAssumption DEF InRounds, SyncTypeOK, Critical
<1>6. /\ SyncTypeOK' /\ Named' /\ InRounds' /\ Tester' = Tester
      /\ \A p \in Pids : pc'[p] = IF p = currentPid THEN "wait" ELSE pc[p]
      /\ pc'[Tester'] = pc[Tester] /\ i'[Tester'] = i[Tester]
  <2>1. global' \in Int /\ aux' \in [Pids -> Int] /\ i' \in [Pids -> Nat]
    BY <1>1, <1>5 DEF SyncTypeOK
  <2>2. i'[currentPid] <= Rounds
    BY <1>1, <1>3, <1>5
  <2>. QED  BY <1>1, <1>2, <1>3, <2>1, <2>2, WorkerNames DEF Critical
<1>7. OneUnit'
  <2>1. value[SEM_ID] = 0 /\ value'[SEM_ID] = 1
    BY <1>1, <1>2 DEF OneUnit, Holds, Critical
  <2>2. \A p \in Pids : ~Holds(p)'
    BY <1>1, <1>2, <1>6 DEF Holds, Critical, OneUnit
  <2>. QED  BY <1>1, <1>2, <1>3, <1>6, <2>1, <2>2 DEF OneUnit
<1>8. SumsKept'
  <2>1. ASSUME NEW p \in Pids
        PROVE  i[p] \in Nat /\ i'[p] + (IF pc'[p] = "post" THEN 1 ELSE 0)
                                = i[p] + (IF pc[p] = "post" THEN 1 ELSE 0)
    BY <1>1, <1>3, <1>6 DEF SyncTypeOK
  <2>2. Done' = Done /\ Due' = Due
    BY <1>1, <2>1 DEF Done, Due
  <2>3. SumOver(Done)' = SumOver(Done) /\ SumOver(Due)' = SumOver(Due)
    BY <2>2, SumsPrimed
  <2>. QED  BY <1>1, <1>6, <2>3 DEF SumsKept
<1>. QED  BY <1>4, <1>6, <1>7, <1>8 DEF Kept, SyncParts

LEMMA WaitKept ==
  ASSUME Alone, At("wait"), i[currentPid] < Rounds, SemWait(SEM_ID), Goto("read"),
         UNCHANGED <<global, i, aux, inc, pids>>
  PROVE  Kept
<1>1. /\ pc[currentPid] = "wait" /\ Worker(currentPid) /\ Alive(currentPid)
      /\ currentPid # Tester /\ UserMode
  BY WorkerRuns DEF WorkerLabels
<1>2. Decrement(SEM_ID) \/ Suspended(SEM_ID)
  BY DEF SemWait
<1>. QED  BY <1>1, <1>2, DownKeeps DEF Goto

LEMMA WorkerStepKept ==
  ASSUME Alone, MyProcessInc
  PROVE  Kept
<1>. USE DEF WorkerLabels, Critical
<1>1. CASE At("open") /\ UserSemOpen /\ Goto("wait") /\ UNCHANGED <<global, i, aux, inc,
      pids>>
  <2>1. UNCHANGED semaphoreVars
    BY <1>1, WorkerRuns DEF UserSemOpen, SemOpen
  <2>. QED  BY <1>1, <2>1, VarsLeave, WorkerKept DEF Goto
<1>2. CASE /\ At("wait") /\ i[currentPid] < Rounds /\ SemWait(SEM_ID) /\ Goto("read")
           /\ UNCHANGED <<global, i, aux, inc, pids>>
  BY <1>2, WaitKept
<1>3. CASE /\ At("wait") /\ i[currentPid] = Rounds /\ Goto("return")
           /\ UNCHANGED <<semaphoreVars, global, i, aux, inc, pids>>
  BY <1>3, VarsLeave, WorkerKept DEF Goto
<1>4. CASE /\ At("read") /\ aux' = [aux EXCEPT ![currentPid] = global] /\ Goto("yield")
           /\ UNCHANGED <<semaphoreVars, global, i, inc, pids>>
  BY <1>4, ReadKept
<1>5. CASE /\ At("yield") /\ Yield /\ KeepSemaphores /\ Goto("write")
           /\ UNCHANGED <<global, i, aux, inc, pids>>
  BY <1>5, SuspendLeaves, NobodyLeavesDown, WorkerKept DEF Goto
<1>6. CASE /\ At("write") /\ global' = aux[currentPid] + inc[currentPid] /\ Goto("post")
           /\ UNCHANGED <<semaphoreVars, i, aux, inc, pids>>
  BY <1>6, WriteKept
<1>7. CASE /\ At("post") /\ SemPost(SEM_ID) /\ Goto("wait")
           /\ i' = [i EXCEPT ![currentPid] = @ + 1] /\ UNCHANGED <<global, aux, inc, pids>>
  BY <1>7, PostKept
<1>. QED  BY <1>1, <1>2, <1>3, <1>4, <1>5, <1>6, <1>7 DEF MyProcessInc

-----------------------------------------------------------------------------
(* The shell, test_sync and the return of a process                        *)
LEMMA NewProcess ==
  ASSUME Alone, NEW prio, Create(prio, TRUE)
  PROVE  /\ nextAvailablePid \in Pids /\ ~InTable(nextAvailablePid)
         /\ nextAvailablePid \notin waiting /\ nextAvailablePid # IDLE_PID
         /\ UNCHANGED <<waiting, shouldKillForeground, control>>
         /\ \A p \in Pids : p # nextAvailablePid => status'[p] = status[p]
         /\ status'[nextAvailablePid] \in {"NONE", "READY"}
         /\ fault' = "none" => /\ parent' = [parent EXCEPT ![nextAvailablePid] = currentPid]
                               /\ status'[nextAvailablePid] = "READY"
                               /\ \A p \in Pids : p # nextAvailablePid =>
                                    targetWaitPid'[p] = targetWaitPid[p]
<1>1. IInv /\ WaitersOwnTarget
  BY DEF Alone, SyncInv, SyncBase
<1>2. /\ nextAvailablePid \in Pids /\ ~InTable(nextAvailablePid)
      /\ nextAvailablePid # IDLE_PID /\ nextAvailablePid \notin waiting
  BY <1>1 DEF IInv, TypeOK, LeastFreePid, IdleScheduled, Scheduled, InTable, Alive,
              WaitersOwnTarget, OwnsTarget
<1>3. UNCHANGED <<waiting, shouldKillForeground, control>>
  BY DEF Create, Crash, waitVars
<1>4. CASE fault' # "none"
  BY <1>1, <1>2, <1>3, <1>4 DEF Create, Crash, pcbVars, Alone, InTable, IInv, TypeOK
<1>5. CASE fault' = "none"
  <2>1. /\ status' = [status EXCEPT ![nextAvailablePid] = "READY"]
        /\ parent' = [parent EXCEPT ![nextAvailablePid] = currentPid]
        /\ targetWaitPid' = [targetWaitPid EXCEPT ![nextAvailablePid] = 0]
    BY <1>5 DEF Create, Crash
  <2>. QED  BY <1>1, <1>2, <1>3, <2>1 DEF IInv, TypeOK
<1>. QED  BY <1>4, <1>5

(* The call that starts testSync.                                          *)
LEMMA StartKept ==
  ASSUME Alone, At("command"), i[currentPid] = 0, Spawn(1, 0, "openTest", 0)
  PROVE  Kept
<1>. DEFINE n == nextAvailablePid
<1>1. /\ SyncTypeOK /\ Named /\ InRounds /\ OneUnit /\ SumsKept /\ IInv /\ Life
      /\ Tester \in Pids /\ currentPid \in Pids /\ SHELL_PID \in Pids /\ IDLE_PID \in Pids
      /\ IDLE_PID # SHELL_PID
  BY SyncPids DEF Alone, SyncInv, SyncBase, SyncParts
<1>2. currentPid = SHELL_PID /\ Alive(SHELL_PID)
  BY WhoRuns DEF At
<1>3. \A p \in Pids : pc[p] = "command" /\ ~Worker(p)
  BY <1>1, <1>2 DEF Named
<1>4. Create(1, TRUE) /\ KeepSemaphores
  BY DEF Spawn, CreateProcess
<1>5. UNCHANGED <<open, value, downOn>>
  BY <1>3, <1>4, DownKept
<1>6. /\ n \in Pids /\ ~InTable(n) /\ n \notin waiting' /\ n # IDLE_PID /\ n # SHELL_PID
      /\ UNCHANGED <<waiting, shouldKillForeground, control>>
      /\ \A p \in Pids : p # n => status'[p] = status[p]
      /\ status'[n] \in {"NONE", "READY"}
      /\ fault' = "none" => /\ parent'[n] = currentPid /\ status'[n] = "READY"
                            /\ \A p \in Pids : p # n => parent'[p] = parent[p]
  BY <1>1, <1>2, <1>4, NewProcess DEF Alive, InTable, IInv, TypeOK
<1>. HIDE DEF n
<1>7. /\ pids' = [pids EXCEPT ![0] = n] /\ pc' = [pc EXCEPT ![n] = "openTest"]
      /\ i' = [i EXCEPT ![n] = 0, ![currentPid] = @ + 1]
      /\ inc' = [inc EXCEPT ![n] = 0] /\ UNCHANGED <<global, aux>>
  BY DEF Spawn, n
<1>8. /\ SyncTypeOK' /\ Tester' = n
      /\ \A p \in Pids : pc'[p] = IF p = n THEN "openTest" ELSE "command"
      /\ \A p \in Pids : inc'[p] = 0 /\ inc[p] = 0
      /\ i'[SHELL_PID] = 1 /\ i'[n] = 0 /\ \A p \in Pids : p # SHELL_PID => i'[p] = 0
  BY <1>1, <1>2, <1>3, <1>6, <1>7 DEF SyncTypeOK, Tester, Testing, Named, Worker, Children
<1>9. Named'
  BY <1>1, <1>2, <1>6, <1>8 DEF Named, Worker, Testing
<1>10. InRounds'
  BY <1>1, <1>3, <1>5, <1>8 DEF InRounds, Worker, Critical
<1>11. OneUnit'
  BY <1>1, <1>2, <1>5, <1>6, <1>8 DEF OneUnit, Holds, Critical
<1>12. SumsKept'
  <2>1. Done \in [Pids -> Int] /\ \A p \in Pids : Done[p] = 0
    BY <1>1, <1>8 DEF Done, SyncTypeOK
  <2>2. Due \in [Pids -> Int] /\ \A p \in Pids : Due[p] = 0
    BY <1>1, <1>8, TestSyncAssumption DEF Due, SyncTypeOK
  <2>3. Done' \in [Pids -> Int] /\ \A p \in Pids : Done'[p] = 0
    BY <1>8 DEF Done, SyncTypeOK
  <2>4. Due' \in [Pids -> Int] /\ \A p \in Pids : Due'[p] = 0
    BY <1>8, TestSyncAssumption DEF Due, SyncTypeOK
  <2>. HIDE DEF Done, Due
  <2>5. SumOver(Done) = 0 /\ SumOver(Done)' = 0 /\ SumOver(Due)' = 0
    BY <2>1, <2>3, <2>4, SumOfNothing, SumsPrimed
  <2>. QED  BY <1>1, <1>7, <1>8, <1>6, <2>5 DEF SumsKept
<1>13. ASSUME fault' = "none" PROVE Life' /\ Joining'
  <2>1. Life'
    BY <1>1, <1>2, <1>3, <1>6, <1>8, <1>13 DEF Life, Worker, InTable, Alive
  <2>2. Joining'
    BY <1>6, <1>8 DEF Joining
  <2>. QED  BY <2>1, <2>2
<1>. QED  BY <1>8, <1>9, <1>10, <1>11, <1>12, <1>13 DEF Kept, SyncParts

(* A process that waits for a child of its own and goes on, or is          *)
(* suspended.                                                              *)
LEMMA WaitPidDoes ==
  ASSUME Alone, NEW child \in Pids, WaitPid(child), KeepSemaphores
  PROVE  /\ parent[child] = currentPid /\ InTable(child) /\ currentPid \in Pids
         /\ currentPid \notin waiting /\ fault' = "none"
         /\ UNCHANGED <<open, value, downOn>>
         /\ ~shouldKillForeground' /\ control' # "kill"
         /\ \A p \in Pids : Alive(p)' <=> Alive(p)
         /\ \A p \in Pids : InTable(p)' => InTable(p) /\ parent'[p] = parent[p]
         /\ \/ /\ status[child] = "ZOMBIE" /\ UNCHANGED waiting
               /\ \A p \in Pids : InTable(p) /\ ~InTable(p)' => p = child
               /\ \A p \in Pids : p # child /\ p # currentPid =>
                    targetWaitPid'[p] = targetWaitPid[p]
            \/ /\ waiting' = waiting \cup {currentPid}
               /\ targetWaitPid' = [targetWaitPid EXCEPT ![currentPid] = child]
               /\ \A p \in Pids : InTable(p)' <=> InTable(p)
<1>1. /\ IInv /\ Life /\ parent[child] = currentPid /\ InTable(child)
      /\ currentPid \in Pids /\ currentPid \notin waiting /\ fault = "none"
      /\ control = "user" /\ currentPid # IDLE_PID
  BY DEF Alone, SyncInv, SyncBase, WaitPid, IsChild, Calls, UserMode, IInv, TypeOK
<1>2. Alive(currentPid)
  BY <1>1, WhoRuns DEF UserMode
<1>3. \A p \in Pids : pc[p] = "read" => Alive(p)
  BY InsideLives DEF Alone, SyncInv, SyncParts, InRounds, Critical
<1>4. CASE /\ status[child] = "ZOMBIE" /\ Reap(child) /\ UNCHANGED waitVars
           /\ targetWaitPid' = Clear([targetWaitPid EXCEPT ![currentPid] = child],
                                     {child}, 0)
  <2>1. /\ \A p \in Pids : status'[p] = IF p = child THEN "NONE" ELSE status[p]
        /\ \A p \in Pids : parent'[p] = IF p = child THEN IDLE_PID ELSE parent[p]
        /\ \A p \in Pids : p # child /\ p # currentPid =>
             targetWaitPid'[p] = targetWaitPid[p]
        /\ UNCHANGED <<shouldKillForeground, control, fault, waiting>>
    BY <1>1, <1>4, ReapChanges DEF Reap, DestroyZombies, Clear, waitVars, IInv, TypeOK
  <2>2. UNCHANGED <<open, value, downOn>>
    BY <1>3, <1>4, <2>1, DownKept DEF Alive
  <2>. QED  BY <1>1, <1>4, <2>1, <2>2 DEF InTable, Alive, Life
<1>5. CASE /\ SuspendCurrent /\ Yielding /\ waiting' = waiting \cup {currentPid}
           /\ targetWaitPid' = [targetWaitPid EXCEPT ![currentPid] = child]
           /\ UNCHANGED <<parent, shouldKillForeground, fault>>
  <2>1. \A p \in Pids : \/ status'[p] = status[p]
                        \/ p = currentPid /\ status'[p] = "BLOCKED"
    BY <1>1, <1>5, SuspendChanges
  <2>2. \A p \in Pids : (InTable(p)' <=> InTable(p)) /\ (Alive(p)' <=> Alive(p))
    BY <1>2, <2>1 DEF InTable, Alive
  <2>3. UNCHANGED <<open, value, downOn>>
    BY <1>3, <2>2, DownKept DEF Alive
  <2>. QED  BY <1>1, <1>5, <2>2, <2>3 DEF Life, Yielding
<1>. QED  BY <1>4, <1>5 DEF WaitPid

LEMMA ShellWaitKept ==
  ASSUME Alone, At("command"), i[currentPid] = 1, WaitPid(pids[0]), KeepSemaphores,
         i' = [i EXCEPT ![currentPid] = 2], UNCHANGED <<global, pc, aux, inc, pids>>
  PROVE  Kept
<1>1. /\ SyncTypeOK /\ Named /\ InRounds /\ OneUnit /\ SumsKept /\ IInv /\ Life
      /\ WaitersOwnTarget
      /\ Tester \in Pids /\ currentPid \in Pids /\ SHELL_PID \in Pids /\ IDLE_PID \in Pids
  BY SyncPids DEF Alone, SyncInv, SyncBase, SyncParts
<1>2. currentPid = SHELL_PID /\ i[SHELL_PID] # 0 /\ Tester # SHELL_PID /\ Tester = pids[0]
  BY WhoRuns, TesterIs DEF At, Tester
<1>3. /\ i'[SHELL_PID] = 2 /\ \A p \in Pids : p # SHELL_PID => i'[p] = i[p]
      /\ Tester' = Tester
  BY <1>1, <1>2 DEF SyncTypeOK, Tester
<1>4. /\ parent[Tester] = SHELL_PID /\ currentPid \notin waiting
      /\ UNCHANGED <<open, value, downOn>>
      /\ ~shouldKillForeground' /\ control' # "kill"
      /\ \A p \in Pids : Alive(p)' <=> Alive(p)
      /\ \A p \in Pids : InTable(p)' => InTable(p) /\ parent'[p] = parent[p]
      /\ \/ /\ status[Tester] = "ZOMBIE" /\ UNCHANGED waiting
            /\ \A p \in Pids : InTable(p) /\ ~InTable(p)' => p = Tester
            /\ \A p \in Pids : p # Tester /\ p # currentPid =>
                 targetWaitPid'[p] = targetWaitPid[p]
         \/ /\ waiting' = waiting \cup {currentPid}
            /\ targetWaitPid' = [targetWaitPid EXCEPT ![currentPid] = Tester]
            /\ \A p \in Pids : InTable(p)' <=> InTable(p)
  BY <1>1, <1>2, WaitPidDoes
<1>5. SyncTypeOK'
  BY <1>1, <1>2 DEF SyncTypeOK
<1>6. Named'
  BY <1>1, <1>2, <1>3 DEF Named, Worker
<1>7. InRounds'
  BY <1>1, <1>2, <1>3, <1>4 DEF InRounds, Worker, Named
<1>8. OneUnit'
  BY <1>1, <1>2, <1>3, <1>4 DEF OneUnit, Holds
<1>9. SumsKept'
  <2>1. inc[SHELL_PID] = 0 /\ pc[SHELL_PID] = "command"
    BY <1>1 DEF Named, Worker
  <2>2. ASSUME NEW p \in Pids
        PROVE  inc'[p] * (i'[p] + (IF pc'[p] = "post" THEN 1 ELSE 0))
                 = inc[p] * (i[p] + (IF pc[p] = "post" THEN 1 ELSE 0))
    BY <1>1, <1>3, <2>1 DEF SyncTypeOK
  <2>3. Done' = Done /\ Due' = Due
    BY <2>2 DEF Done, Due
  <2>4. SumOver(Done)' = SumOver(Done) /\ SumOver(Due)' = SumOver(Due)
    BY <2>3, SumsPrimed
  <2>. QED  BY <1>1, <1>2, <1>3, <2>4 DEF SumsKept
<1>10. Life'
  <2>1. \A p \in Pids : InTable(p) /\ ~InTable(p)' =>
          pc[p] = "command" \/ pc[Tester] \notin {"openTest", "create"}
    BY <1>1, <1>2, <1>4 DEF Life, Alive
  <2>. QED  BY <1>1, <1>2, <1>4, <2>1, LifeLeft
<1>11. Joining'
  <2>1. Tester \in waiting' => Tester \in waiting
                                 /\ targetWaitPid'[Tester] = targetWaitPid[Tester]
    BY <1>1, <1>2, <1>4 DEF WaitersOwnTarget, OwnsTarget, Alive, IInv, TypeOK
  <2>2. Tester \in waiting => Tester \in waiting'
    BY <1>4
  <2>. QED  BY <1>1, <1>2, <1>3, <1>4, <2>1, <2>2, JoinLeft
<1>. QED  BY <1>5, <1>6, <1>7, <1>8, <1>9, <1>10, <1>11 DEF Kept, SyncParts

LEMMA ShellKept ==
  ASSUME Alone, Shell
  PROVE  Kept
BY StartKept, ShellWaitKept DEF Shell

LEMMA TesterRuns ==
  ASSUME Alone, NEW l \in Testing, At(l)
  PROVE  /\ UserMode /\ currentPid # IDLE_PID /\ pc[Tester] = l /\ currentPid = Tester
         /\ Tester # SHELL_PID /\ Tester # IDLE_PID /\ i[SHELL_PID] # 0 /\ ~Worker(Tester)
         /\ Alive(Tester) /\ i[Tester] \in Nat /\ Tester \notin waiting
         /\ SyncTypeOK /\ Named /\ InRounds /\ OneUnit /\ SumsKept /\ SemTypeOK
         /\ IInv /\ Life /\ Joining /\ WaitersOwnTarget
         /\ IDLE_PID \in Pids /\ SHELL_PID \in Pids /\ Tester \in Pids
         /\ SEM_ID \in Sems /\ SEM_ID # None
<1>1. /\ SyncTypeOK /\ Named /\ InRounds /\ OneUnit /\ SumsKept /\ SemTypeOK
      /\ IInv /\ Life /\ Joining /\ WaitersOwnTarget
      /\ IDLE_PID \in Pids /\ SHELL_PID \in Pids /\ Tester \in Pids
      /\ SEM_ID \in Sems /\ SEM_ID # None
  BY SyncPids DEF Alone, SyncInv, SyncBase, SyncParts
<1>2. /\ UserMode /\ currentPid # IDLE_PID /\ pc[currentPid] = l /\ l # "command"
      /\ l \in Testing /\ currentPid \notin waiting
  BY DEF At, Testing, UserMode
<1>3. currentPid = Tester /\ i[SHELL_PID] # 0 /\ Alive(Tester)
  BY <1>2, WhoRuns
<1>. QED  BY <1>1, <1>2, <1>3, TesterIs DEF SyncTypeOK

LEMMA OpenKept ==
  ASSUME Alone, At("openTest"), UserSemOpen, Goto("create"), global' = 0,
         UNCHANGED <<i, aux, inc, pids>>
  PROVE  Kept
<1>1. /\ pc[Tester] = "openTest" /\ currentPid = Tester /\ downOn[Tester] = None
      /\ Tester # SHELL_PID /\ Tester # IDLE_PID /\ i[SHELL_PID] # 0 /\ ~Worker(Tester)
      /\ i[Tester] = 0 /\ Tester \notin waiting /\ ~open[SEM_ID]
      /\ SyncTypeOK /\ Named /\ InRounds /\ OneUnit /\ SumsKept /\ SemTypeOK
      /\ IInv /\ Life /\ Joining
      /\ IDLE_PID \in Pids /\ SHELL_PID \in Pids /\ Tester \in Pids /\ SEM_ID \in Sems
  BY TesterRuns DEF Testing, Named, OneUnit, At, InUser
<1>2. /\ \A p \in Pids : ~Worker(p) /\ inc[p] = 0
      /\ \A p \in Pids : p # Tester => pc[p] = "command"
  BY <1>1 DEF Named, Worker
<1>3. /\ open'[SEM_ID] /\ value'[SEM_ID] = 1 /\ UNCHANGED <<vars, downOn>>
  BY <1>1 DEF UserSemOpen, SemOpen, SemTypeOK
<1>4. /\ Tester' = Tester /\ \A p \in Pids : Worker(p)' <=> Worker(p)
      /\ \A p \in Pids : pc'[p] = IF p = Tester THEN "create" ELSE pc[p]
  BY <1>1 DEF Goto, Tester, Worker, SyncTypeOK
<1>5. SyncTypeOK'
  BY <1>1 DEF SyncTypeOK, Goto, Testing
<1>6. Named'
  <2>1. 0 <= 2 * TOTAL_PAIR_PROCESSES /\ i'[Tester] = 0 /\ i' = i
    BY <1>1, TestSyncAssumption
  <2>. QED  BY <1>1, <1>2, <1>4, <2>1 DEF Named, Testing
<1>7. InRounds'
  BY <1>1, <1>2, <1>3, <1>4 DEF InRounds, Critical
<1>8. OneUnit'
  BY <1>1, <1>2, <1>3, <1>4 DEF OneUnit, Holds, Critical
<1>9. SumsKept'
  <2>1. Due' = Due /\ Done' \in [Pids -> Int] /\ \A p \in Pids : Done'[p] = 0
    BY <1>1, <1>2, <1>5 DEF Done, Due, SyncTypeOK
  <2>. HIDE DEF Done, Due
  <2>2. SumOver(Done)' = 0 /\ SumOver(Due)' = SumOver(Due)
    BY <2>1, SumOfNothing, SumsPrimed
  <2>. QED  BY <1>1, <1>2, <1>4, <2>2 DEF SumsKept
<1>10. NobodyLeaves
  BY <1>3, WakeLeaves
<1>11. \A p \in Pids : (InTable(p)' <=> InTable(p)) /\ (Alive(p)' <=> Alive(p))
  BY <1>10 DEF NobodyLeaves, InTable, Alive
<1>12. Life'
  BY <1>1, <1>2, <1>4, <1>10, <1>11 DEF Life, NobodyLeaves
<1>13. Joining'
  BY <1>1, <1>4, <1>10 DEF Joining, NobodyLeaves
<1>. QED  BY <1>5, <1>6, <1>7, <1>8, <1>9, <1>12, <1>13 DEF Kept, SyncParts

(* create_process for one more worker, of the sign whose turn it is.       *)
LEMMA CreateKept ==
  ASSUME Alone, At("create"), i[currentPid] < 2 * TOTAL_PAIR_PROCESSES,
         Spawn(3, i[currentPid] + 1, "open", IF i[currentPid] % 2 = 0 THEN -1 ELSE 1)
  PROVE  Kept
<1>. DEFINE n == nextAvailablePid
            step == IF i[Tester] % 2 = 0 THEN -1 ELSE 1
            c == i[Tester] + 1
<1>1. /\ pc[Tester] = "create" /\ currentPid = Tester
      /\ Tester # SHELL_PID /\ Tester # IDLE_PID /\ i[SHELL_PID] # 0 /\ ~Worker(Tester)
      /\ i[Tester] \in Nat /\ Tester \notin waiting /\ Alive(Tester)
      /\ SyncTypeOK /\ Named /\ InRounds /\ OneUnit /\ SumsKept /\ SemTypeOK
      /\ IInv /\ Life /\ Joining
      /\ IDLE_PID \in Pids /\ SHELL_PID \in Pids /\ Tester \in Pids /\ SEM_ID \in Sems
  BY TesterRuns DEF Testing
<1>2. /\ Create(3, TRUE) /\ KeepSemaphores
  BY DEF Spawn, CreateProcess
<1>3. /\ n \in Pids /\ ~InTable(n) /\ n \notin waiting' /\ n # IDLE_PID /\ n # SHELL_PID
      /\ n # Tester
      /\ UNCHANGED <<waiting, shouldKillForeground, control>>
      /\ \A p \in Pids : p # n => status'[p] = status[p]
      /\ status'[n] \in {"NONE", "READY"}
      /\ fault' = "none" => /\ parent'[n] = Tester /\ status'[n] = "READY"
                            /\ \A p \in Pids : p # n => parent'[p] = parent[p]
  BY <1>1, <1>2, NewProcess DEF Alive, InTable, IInv, TypeOK, Life
<1>4. pc[n] = "command" /\ ~Worker(n) /\ i[n] = 0 /\ inc[n] = 0
  BY <1>1, <1>3 DEF Life, Named, Worker
<1>5. UNCHANGED <<open, value, downOn>>
  <2>1. \A p \in Pids : pc[p] = "read" => Alive(p)
    BY InsideLives DEF Alone, SyncInv, SyncParts, InRounds, Critical
  <2>. QED  BY <1>2, <1>3, <1>4, <2>1, DownKept DEF Alive
<1>. HIDE DEF n
<1>6. /\ step \in {-1, 1} /\ c \in Children /\ c # 0
      /\ c = i[Tester] + 1 /\ c <= 2 * TOTAL_PAIR_PROCESSES
      /\ i[Tester] % 2 = 0 => step = -1 /\ c % 2 = 1
      /\ i[Tester] % 2 # 0 => i[Tester] % 2 = 1 /\ step = 1 /\ c % 2 = 0
  BY <1>1, TestSyncAssumption DEF Children
<1>7. /\ pids' = [pids EXCEPT ![c] = n] /\ pc' = [pc EXCEPT ![n] = "open"]
      /\ i' = [i EXCEPT ![n] = 0, ![Tester] = @ + 1]
      /\ inc' = [inc EXCEPT ![n] = step] /\ UNCHANGED <<global, aux>>
  BY <1>1 DEF Spawn, n
<1>. HIDE DEF step, c
<1>8. /\ SyncTypeOK' /\ Tester' = Tester
      /\ \A p \in Pids : pc'[p] = IF p = n THEN "open" ELSE pc[p]
      /\ \A p \in Pids : inc'[p] = IF p = n THEN step ELSE inc[p]
      /\ \A p \in Pids : i'[p] = IF p = Tester THEN c ELSE i[p]
      /\ \A d \in Children : pids'[d] = IF d = c THEN n ELSE pids[d]
  <2>1. SyncTypeOK'
    BY <1>1, <1>3, <1>6, <1>7 DEF SyncTypeOK, WorkerLabels
  <2>2. Tester' = Tester
    BY <1>1, <1>6, <1>7 DEF SyncTypeOK, Tester
  <2>3. \A p \in Pids : i'[p] = IF p = Tester THEN c ELSE i[p]
    BY <1>1, <1>3, <1>4, <1>6, <1>7 DEF SyncTypeOK
  <2>. QED  BY <1>1, <1>3, <1>7, <2>1, <2>2, <2>3 DEF SyncTypeOK
<1>9. \A p \in Pids : Worker(p)' <=> Worker(p) \/ p = n
  BY <1>6, <1>8 DEF Worker
<1>10. Named'
  <2>1. ASSUME NEW p \in Pids, Worker(p)'
        PROVE  \E d \in Children : pids'[d] = p /\ d <= c
    <3>1. CASE p = n
      BY <1>6, <1>8, <3>1 DEF Children
    <3>2. CASE p # n
      <4>1. PICK d \in Children : pids[d] = p /\ d <= i[Tester]
        BY <1>1, <1>9, <2>1, <3>2 DEF Named
      <4>2. d <= c /\ d # c
        BY <1>1, <1>6, <4>1 DEF Children
      <4>. QED  BY <1>8, <4>1, <4>2
    <3>. QED  BY <3>1, <3>2
  <2>. QED  BY <1>1, <1>3, <1>6, <1>8, <1>9, <2>1 DEF Named, Testing
<1>11. InRounds'
  BY <1>1, <1>3, <1>4, <1>5, <1>8, <1>9, TestSyncAssumption
  DEF InRounds, Critical, WorkerLabels
<1>12. OneUnit'
  BY <1>1, <1>3, <1>4, <1>5, <1>8 DEF OneUnit, Holds, Critical
<1>13. SumsKept'
  <2>1. ASSUME NEW p \in Pids
        PROVE  inc'[p] * (i'[p] + (IF pc'[p] = "post" THEN 1 ELSE 0))
                 = inc[p] * (i[p] + (IF pc[p] = "post" THEN 1 ELSE 0))
    <3>1. CASE p = n
      <4>1. i'[p] = 0 /\ i[p] = 0 /\ pc'[p] = "open" /\ pc[p] = "command" /\ inc'[p] \in Int
        BY <1>3, <1>4, <1>6, <1>8, <3>1 DEF SyncTypeOK
      <4>. QED  BY <1>4, <3>1, <4>1
    <3>2. CASE p = Tester
      <4>1. inc[p] = 0 /\ inc'[p] = 0 /\ i'[p] \in Nat /\ i[p] \in Nat
        BY <1>1, <1>3, <1>8, <3>2 DEF Worker, SyncTypeOK
      <4>. QED  BY <4>1
    <3>3. CASE p # n /\ p # Tester
      BY <1>8, <3>3
    <3>. QED  BY <3>1, <3>2, <3>3
  <2>2. Done' = Done
    BY <2>1 DEF Done
  <2>3. Due \in [Pids -> Int] /\ Due' \in [Pids -> Int] /\ Rounds \in Nat
    BY <1>1, <1>8, TestSyncAssumption DEF Due, SyncTypeOK
  <2>4. \A p \in Pids : p # n => Due'[p] = Due[p]
    BY <1>8 DEF Due
  <2>5. Due'[n] = step * Rounds /\ Due[n] = 0
    BY <1>3, <1>4, <1>8, TestSyncAssumption DEF Due
  <2>. HIDE DEF Done, Due
  <2>6. SumOver(Due') = SumOver(Due) + step * Rounds
    BY <1>3, <2>3, <2>4, <2>5, SumChanges
  <2>7. SumOver(Due) = IF i[Tester] % 2 = 1 THEN -Rounds ELSE 0
    BY <1>1 DEF SumsKept
  <2>8. SumOver(Due') = IF c % 2 = 1 THEN -Rounds ELSE 0
    <3>1. CASE i[Tester] % 2 = 0
      BY <1>6, <2>3, <2>6, <2>7, <3>1
    <3>2. CASE i[Tester] % 2 # 0
      BY <1>6, <2>3, <2>6, <2>7, <3>2
    <3>. QED  BY <3>1, <3>2
  <2>9. SumOver(Done)' = SumOver(Done) /\ SumOver(Due)' = SumOver(Due')
    BY <2>2, SumsPrimed
  <2>10. global' = SumOver(Done)'
    BY <1>1, <1>7, <2>9 DEF SumsKept
  <2>11. \A p \in Pids : pc'[p] \in {"yield", "write"} => aux'[p] = global'
    BY <1>1, <1>7, <1>8 DEF SumsKept
  <2>12. SumOver(Due)' = IF pc'[Tester'] = "create" /\ i'[Tester'] % 2 = 1
                         THEN -Rounds ELSE 0
    BY <1>1, <1>3, <1>8, <2>8, <2>9
  <2>13. \A p \in Pids : pc'[p] = "print" => global' = 0
    BY <1>1, <1>7, <1>8 DEF SumsKept
  <2>. QED  BY <2>10, <2>11, <2>12, <2>13 DEF SumsKept
<1>14. ASSUME fault' = "none" PROVE Life' /\ Joining'
  <2>1. Life'
    BY <1>1, <1>3, <1>4, <1>8, <1>9, <1>14 DEF Life, InTable, Alive
  <2>2. Joining'
    BY <1>1, <1>3, <1>8 DEF Joining
  <2>. QED  BY <2>1, <2>2
<1>. QED  BY <1>8, <1>10, <1>11, <1>12, <1>13, <1>14 DEF Kept, SyncParts

LEMMA JoinStartsKept ==
  ASSUME Alone, At("create"), i[currentPid] = 2 * TOTAL_PAIR_PROCESSES, Goto("join"),
         i' = [i EXCEPT ![currentPid] = 0],
         UNCHANGED <<semaphoreVars, global, aux, inc, pids>>
  PROVE  Kept
<1>1. /\ pc[Tester] = "create" /\ currentPid = Tester
      /\ Tester # SHELL_PID /\ Tester # IDLE_PID /\ i[SHELL_PID] # 0 /\ ~Worker(Tester)
      /\ Tester \notin waiting /\ Alive(Tester)
      /\ SyncTypeOK /\ Named /\ InRounds /\ OneUnit /\ SumsKept /\ Life /\ Joining
      /\ IDLE_PID \in Pids /\ SHELL_PID \in Pids /\ Tester \in Pids
  BY TesterRuns DEF Testing
<1>2. NobodyLeaves /\ UNCHANGED <<open, value, downOn>>
  BY VarsLeave
<1>3. /\ Tester' = Tester /\ \A p \in Pids : Worker(p)' <=> Worker(p)
      /\ \A p \in Pids : pc'[p] = IF p = Tester THEN "join" ELSE pc[p]
      /\ \A p \in Pids : i'[p] = IF p = Tester THEN 0 ELSE i[p]
      /\ i' \in [Pids -> Nat]
  BY <1>1 DEF Goto, Tester, Worker, SyncTypeOK
<1>4. SyncTypeOK'
  BY <1>1, <1>3 DEF SyncTypeOK, Goto, Testing
<1>5. Named'
  <2>1. 0 <= 2 * TOTAL_PAIR_PROCESSES
    BY TestSyncAssumption
  <2>. QED  BY <1>1, <1>3, <2>1 DEF Named, Testing
<1>6. InRounds'
  BY <1>1, <1>2, <1>3 DEF InRounds, Critical
<1>7. OneUnit'
  BY <1>1, <1>2, <1>3 DEF OneUnit, Holds, Critical
<1>8. SumsKept'
  <2>1. ASSUME NEW p \in Pids
        PROVE  inc'[p] * (i'[p] + (IF pc'[p] = "post" THEN 1 ELSE 0))
                 = inc[p] * (i[p] + (IF pc[p] = "post" THEN 1 ELSE 0))
    <3>1. CASE p = Tester
      BY <1>1, <1>3, <3>1 DEF Worker, SyncTypeOK
    <3>2. CASE p # Tester
      BY <1>3, <3>2
    <3>. QED  BY <3>1, <3>2
  <2>2. Done' = Done /\ Due' = Due
    BY <2>1 DEF Done, Due
  <2>. HIDE DEF Done, Due
  <2>3. SumOver(Done)' = SumOver(Done) /\ SumOver(Due)' = SumOver(Due)
    BY <2>2, SumsPrimed
  <2>4. i[Tester] % 2 = 0
    BY <1>1, TestSyncAssumption
  <2>. QED  BY <1>1, <1>3, <2>3, <2>4 DEF SumsKept
<1>9. \A p \in Pids : (InTable(p)' <=> InTable(p)) /\ (Alive(p)' <=> Alive(p))
  BY <1>2 DEF NobodyLeaves, InTable, Alive
<1>10. Life'
  BY <1>1, <1>2, <1>3, <1>9 DEF Life, NobodyLeaves
<1>11. Joining'
  BY <1>1, <1>2, <1>3 DEF Joining, NobodyLeaves
<1>. QED  BY <1>4, <1>5, <1>6, <1>7, <1>8, <1>10, <1>11 DEF Kept, SyncParts

LEMMA JoinKept ==
  ASSUME Alone, At("join"), i[currentPid] < 2 * TOTAL_PAIR_PROCESSES,
         WaitPid(pids[i[currentPid] + 1]), KeepSemaphores,
         i' = [i EXCEPT ![currentPid] = @ + 1], UNCHANGED <<global, pc, aux, inc, pids>>
  PROVE  Kept
<1>. DEFINE c == i[Tester] + 1
            child == pids[c]
<1>1. /\ pc[Tester] = "join" /\ currentPid = Tester
      /\ Tester # SHELL_PID /\ Tester # IDLE_PID /\ i[SHELL_PID] # 0 /\ ~Worker(Tester)
      /\ Tester \notin waiting /\ Alive(Tester) /\ i[Tester] \in Nat
      /\ SyncTypeOK /\ Named /\ InRounds /\ OneUnit /\ SumsKept /\ Life /\ Joining
      /\ IDLE_PID \in Pids /\ SHELL_PID \in Pids /\ Tester \in Pids /\ IInv
  BY TesterRuns DEF Testing
<1>2. /\ c \in Children /\ c <= 2 * TOTAL_PAIR_PROCESSES /\ c \in Nat /\ c # 0
      /\ child \in Pids /\ WaitPid(child)
  <2>1. c \in Children /\ c <= 2 * TOTAL_PAIR_PROCESSES /\ c \in Nat /\ c # 0
    BY <1>1, TestSyncAssumption DEF Children
  <2>. QED  BY <1>1, <2>1, SyncPids
<1>. HIDE DEF child
<1>3. /\ UNCHANGED <<open, value, downOn>>
      /\ ~shouldKillForeground' /\ control' # "kill"
      /\ \A p \in Pids : Alive(p)' <=> Alive(p)
      /\ \A p \in Pids : InTable(p)' => InTable(p) /\ parent'[p] = parent[p]
      /\ \/ /\ status[child] = "ZOMBIE" /\ UNCHANGED waiting
            /\ \A p \in Pids : InTable(p) /\ ~InTable(p)' => p = child
         \/ /\ waiting' = waiting \cup {Tester} /\ targetWaitPid'[Tester] = child
            /\ \A p \in Pids : InTable(p)' <=> InTable(p)
  BY <1>1, <1>2, WaitPidDoes DEF IInv, TypeOK
<1>4. /\ Tester' = Tester /\ \A p \in Pids : Worker(p)' <=> Worker(p)
      /\ \A p \in Pids : i'[p] = IF p = Tester THEN c ELSE i[p]
      /\ i' \in [Pids -> Nat]
  BY <1>1 DEF Tester, Worker, SyncTypeOK
<1>. HIDE DEF c
<1>5. SyncTypeOK'
  BY <1>1, <1>4 DEF SyncTypeOK
<1>6. Named'
  BY <1>1, <1>2, <1>4 DEF Named
<1>7. InRounds'
  BY <1>1, <1>3, <1>4 DEF InRounds
<1>8. OneUnit'
  BY <1>1, <1>3, <1>4 DEF OneUnit, Holds
<1>9. SumsKept'
  <2>1. ASSUME NEW p \in Pids
        PROVE  inc'[p] * (i'[p] + (IF pc'[p] = "post" THEN 1 ELSE 0))
                 = inc[p] * (i[p] + (IF pc[p] = "post" THEN 1 ELSE 0))
    <3>1. CASE p = Tester
      BY <1>1, <1>2, <1>4, <3>1 DEF Worker, SyncTypeOK
    <3>2. CASE p # Tester
      BY <1>4, <3>2
    <3>. QED  BY <3>1, <3>2
  <2>2. Done' = Done /\ Due' = Due
    BY <2>1 DEF Done, Due
  <2>. HIDE DEF Done, Due
  <2>3. SumOver(Done)' = SumOver(Done) /\ SumOver(Due)' = SumOver(Due)
    BY <2>2, SumsPrimed
  <2>. QED  BY <1>1, <1>4, <2>3 DEF SumsKept
<1>10. Life'
  BY <1>1, <1>3, <1>4, LifeLeft
<1>11. Joining'
  <2>1. ASSUME NEW d \in 1..c, Alive(pids[d])'
        PROVE  d = c /\ Tester \in waiting'
    <3>1. pids'[d] = pids[d] /\ pids[d] \in Pids /\ d \in 1..(2 * TOTAL_PAIR_PROCESSES)
      <4>1. d \in Children
        BY <1>2, TestSyncAssumption DEF Children
      <4>. QED  BY <1>1, <4>1, SyncPids DEF Children
    <3>2. Alive(pids[d])
      <4>1. status'[pids'[d]] \notin {"NONE", "ZOMBIE"}
        BY <2>1 DEF Alive
      <4>. QED  BY <1>3, <3>1, <4>1 DEF Alive
    <3>3. d \notin 1..i[Tester]
      BY <1>1, <3>2 DEF Joining
    <3>4. d = c
      BY <1>1, <3>3 DEF c
    <3>. QED  BY <1>3, <3>2, <3>4 DEF Alive, child
  <2>2. Tester \in waiting' => targetWaitPid'[Tester] = child
    BY <1>1, <1>3
  <2>3. \A d \in 1..i'[Tester'] : Alive(pids[d])' => d = i'[Tester'] /\ Tester' \in waiting'
    BY <1>1, <1>4, <2>1
  <2>4. pc'[Tester'] = "join" /\ i'[Tester'] = c /\ pids'[i'[Tester']] = child
    BY <1>1, <1>4 DEF child
  <2>. QED  BY <1>2, <1>4, <2>2, <2>3, <2>4 DEF Joining
<1>. QED  BY <1>5, <1>6, <1>7, <1>8, <1>9, <1>10, <1>11 DEF Kept, SyncParts

(* Every worker has returned, so the variable holds what they were due to  *)
(* add: as many increments as decrements.                                  *)
LEMMA PrintKept ==
  ASSUME Alone, At("join"), i[currentPid] = 2 * TOTAL_PAIR_PROCESSES, Goto("print"),
         UNCHANGED <<semaphoreVars, global, i, aux, inc, pids>>
  PROVE  Kept
<1>1. /\ pc[Tester] = "join" /\ currentPid = Tester
      /\ Tester # SHELL_PID /\ Tester # IDLE_PID /\ i[SHELL_PID] # 0 /\ ~Worker(Tester)
      /\ Tester \notin waiting /\ Alive(Tester)
      /\ SyncTypeOK /\ Named /\ InRounds /\ OneUnit /\ SumsKept /\ Life /\ Joining
      /\ IDLE_PID \in Pids /\ SHELL_PID \in Pids /\ Tester \in Pids
  BY TesterRuns DEF Testing
<1>2. NobodyLeaves /\ UNCHANGED <<open, value, downOn>>
  BY VarsLeave
<1>3. /\ Tester' = Tester /\ \A p \in Pids : Worker(p)' <=> Worker(p)
      /\ \A p \in Pids : pc'[p] = IF p = Tester THEN "print" ELSE pc[p]
  BY <1>1 DEF Goto, Tester, Worker, SyncTypeOK
<1>4. ASSUME NEW p \in Pids, Worker(p) PROVE ~Alive(p) /\ pc[p] = "return" /\ i[p] = Rounds
  <2>1. PICK c \in Children : pids[c] = p
    BY <1>1, <1>4 DEF Named
  <2>2. c \in 1..i[Tester]
    BY <1>1 DEF Children
  <2>. QED  BY <1>1, <1>4, <2>1, <2>2 DEF Joining, Life, InRounds
<1>5. global = 0
  <2>1. ASSUME NEW p \in Pids
        PROVE  inc[p] * (i[p] + (IF pc[p] = "post" THEN 1 ELSE 0)) = inc[p] * Rounds
    <3>1. CASE Worker(p)
      BY <1>4, <3>1, TestSyncAssumption
    <3>2. CASE ~Worker(p)
      BY <1>1, <3>2, TestSyncAssumption DEF Worker, SyncTypeOK
    <3>. QED  BY <3>1, <3>2
  <2>2. Done = Due
    BY <2>1 DEF Done, Due
  <2>. HIDE DEF Done, Due
  <2>. QED  BY <1>1, <2>2 DEF SumsKept
<1>6. SyncTypeOK'
  BY <1>1 DEF SyncTypeOK, Goto, Testing
<1>7. Named'
  BY <1>1, <1>3 DEF Named, Testing
<1>8. InRounds'
  BY <1>1, <1>2, <1>3 DEF InRounds, Critical
<1>9. OneUnit'
  BY <1>1, <1>2, <1>3 DEF OneUnit, Holds, Critical
<1>10. SumsKept'
  <2>1. Done' = Done /\ Due' = Due
    BY <1>1, <1>3 DEF Done, Due
  <2>. HIDE DEF Done, Due
  <2>2. SumOver(Done)' = SumOver(Done) /\ SumOver(Due)' = SumOver(Due)
    BY <2>1, SumsPrimed
  <2>. QED  BY <1>1, <1>3, <1>5, <2>2 DEF SumsKept
<1>11. \A p \in Pids : (InTable(p)' <=> InTable(p)) /\ (Alive(p)' <=> Alive(p))
  BY <1>2 DEF NobodyLeaves, InTable, Alive
<1>12. Life'
  BY <1>1, <1>2, <1>3, <1>4, <1>11 DEF Life, NobodyLeaves
<1>13. Joining'
  BY <1>1, <1>2, <1>3 DEF Joining, NobodyLeaves
<1>. QED  BY <1>6, <1>7, <1>8, <1>9, <1>10, <1>12, <1>13 DEF Kept, SyncParts

LEMMA CloseKept ==
  ASSUME Alone, At("print"), SemClose(SEM_ID), Goto("return"),
         UNCHANGED <<global, i, aux, inc, pids>>
  PROVE  Kept
<1>1. /\ pc[Tester] = "print" /\ currentPid = Tester
      /\ Tester # SHELL_PID /\ Tester # IDLE_PID /\ i[SHELL_PID] # 0 /\ ~Worker(Tester)
      /\ Tester \notin waiting /\ Alive(Tester)
      /\ SyncTypeOK /\ Named /\ InRounds /\ OneUnit /\ SumsKept /\ SemTypeOK
      /\ Life /\ Joining /\ SEM_ID \in Sems /\ SEM_ID # None
      /\ IDLE_PID \in Pids /\ SHELL_PID \in Pids /\ Tester \in Pids
  BY TesterRuns DEF Testing
<1>2. UNCHANGED vars /\ value'[SEM_ID] = 0
  BY <1>1 DEF SemClose, SemTypeOK
<1>3. NobodyLeaves
  BY <1>2, WakeLeaves
<1>4. /\ Tester' = Tester /\ \A p \in Pids : Worker(p)' <=> Worker(p)
      /\ \A p \in Pids : pc'[p] = IF p = Tester THEN "return" ELSE pc[p]
  BY <1>1 DEF Goto, Tester, Worker, SyncTypeOK
<1>5. \A p \in Pids : Worker(p) => ~Alive(p) /\ pc[p] = "return"
  BY <1>1 DEF Life
<1>6. \A p \in Pids : downOn[p] = None /\ downOn'[p] = None
  <2>1. \A p \in Pids : downOn[p] = None
    BY <1>1, <1>5 DEF InRounds, Critical
  <2>. QED  BY <1>1, <2>1 DEF SemClose
<1>7. SyncTypeOK'
  BY <1>1 DEF SyncTypeOK, Goto, WorkerLabels
<1>8. Named'
  BY <1>1, <1>4 DEF Named, Testing
<1>9. InRounds'
  BY <1>1, <1>4, <1>6 DEF InRounds, Critical
<1>10. OneUnit'
  <2>1. \A p \in Pids : pc'[p] \notin Critical
    BY <1>1, <1>4, <1>5 DEF InRounds, Critical
  <2>. QED  BY <1>1, <1>2, <1>4, <2>1 DEF OneUnit, Holds
<1>11. SumsKept'
  <2>1. Done' = Done /\ Due' = Due
    BY <1>1, <1>4 DEF Done, Due
  <2>. HIDE DEF Done, Due
  <2>2. SumOver(Done)' = SumOver(Done) /\ SumOver(Due)' = SumOver(Due)
    BY <2>1, SumsPrimed
  <2>. QED  BY <1>1, <1>4, <2>2 DEF SumsKept
<1>12. \A p \in Pids : (InTable(p)' <=> InTable(p)) /\ (Alive(p)' <=> Alive(p))
  BY <1>3 DEF NobodyLeaves, InTable, Alive
<1>13. Life'
  BY <1>1, <1>3, <1>4, <1>5, <1>12 DEF Life, NobodyLeaves
<1>14. Joining'
  BY <1>1, <1>3, <1>4 DEF Joining, NobodyLeaves
<1>. QED  BY <1>7, <1>8, <1>9, <1>10, <1>11, <1>13, <1>14 DEF Kept, SyncParts

LEMMA TesterStepKept ==
  ASSUME Alone, TestSync
  PROVE  Kept
BY OpenKept, CreateKept, JoinStartsKept, JoinKept, PrintKept, CloseKept, Zenon DEF TestSync

LEMMA ReturnKept ==
  ASSUME Alone, Return
  PROVE  Kept
<1>1. /\ IInv /\ SyncTypeOK /\ Named /\ InRounds /\ Life /\ Joining
      /\ IDLE_PID \in Pids /\ SHELL_PID \in Pids /\ Tester \in Pids /\ currentPid \in Pids
  BY SyncPids DEF Alone, SyncInv, SyncBase, SyncParts
<1>2. /\ pc[currentPid] = "return" /\ KillProcess(currentPid) /\ KeepSemaphores
      /\ UNCHANGED <<pc, i, inc, pids>> /\ UNCHANGED programVars
      /\ currentPid \notin waiting /\ currentPid # IDLE_PID /\ UserMode
  BY DEF Return, At, Exit, UserMode, programVars
<1>3. /\ currentPid # SHELL_PID /\ i[SHELL_PID] # 0 /\ Alive(currentPid)
      /\ currentPid # Tester => Worker(currentPid) /\ pc[Tester] \in {"create", "join"}
  BY <1>2, WhoRuns DEF WorkerLabels
<1>4. \A p \in Pids :
        \/ status'[p] = status[p]
        \/ status[p] = "ZOMBIE" /\ status'[p] = "NONE"
        \/ p = currentPid /\ Alive(p) /\ status'[p] \in {"ZOMBIE", "NONE"}
        \/ status[p] = "BLOCKED" /\ status'[p] = "READY"
  BY <1>1, <1>2, KillChanges
<1>5. UNCHANGED <<open, value, downOn>>
  <2>1. \A p \in Pids : pc[p] = "read" => Alive(p) /\ p # currentPid
    BY <1>2, InsideLives DEF Alone, SyncInv, SyncParts, InRounds, Critical
  <2>. QED  BY <1>2, <1>4, <2>1, DownKept DEF Alive
<1>6. SyncParts'
  BY <1>2, <1>5, PartsKept DEF Alone, SyncInv
<1>. DEFINE heir == Inherits(parent[currentPid], currentPid)
            dead == zombieChildren[currentPid] \cup (IF heir THEN {} ELSE {currentPid})
<1>7. /\ \A p \in Pids : p \in dead => status'[p] = "NONE"
      /\ \A p \in Pids : p \notin dead => parent'[p] = parent[p]
                                        /\ targetWaitPid'[p] = targetWaitPid[p]
                                        /\ (status'[p] = "NONE" => status[p] = "NONE")
      /\ waiting' = waiting \ {currentPid} /\ control' = "switch"
      /\ UNCHANGED shouldKillForeground
  BY <1>1, <1>2 DEF KillProcess, DestroyZombies, Clear
<1>8. pc[Tester] \in {"openTest", "create"} => dead = {}
  <2>1. SUFFICES ASSUME pc[Tester] \in {"openTest", "create"} PROVE dead = {}
    OBVIOUS
  <2>2. Worker(currentPid) /\ parent[currentPid] = Tester /\ currentPid # Tester
    BY <1>1, <1>2, <1>3, <2>1 DEF Life, InTable, Alive
  <2>3. ASSUME NEW z \in zombieChildren[currentPid] PROVE FALSE
    <3>1. z \in Pids /\ status[z] = "ZOMBIE" /\ parent[z] = currentPid
      BY <1>1 DEF IInv, TypeOK, ZombiesReachable
    <3>2. ~Worker(z)
      BY <1>1, <2>2, <3>1 DEF Life, InTable
    <3>3. z # Tester
      BY <1>1, <1>3, <2>1, <3>1 DEF Life, Alive
    <3>4. pc[z] = "command"
      BY <1>1, <3>1, <3>2, <3>3 DEF Named
    <3>5. z \in {IDLE_PID, SHELL_PID}
      BY <1>1, <3>1, <3>4 DEF Life, InTable
    <3>. QED  BY <1>1, <1>3, <3>1, <3>5 DEF Life, Alive, IInv, IdleScheduled, Scheduled
  <2>4. heir
    BY <1>1, <1>3, <2>1, <2>2, <2>3 DEF Inherits, Life
  <2>. QED  BY <2>3, <2>4
<1>. HIDE DEF dead
<1>9. Life'
  <2>1. \A p \in Pids :
           /\ InTable(p)' => InTable(p) /\ parent'[p] = parent[p]
           /\ Alive(p)' => Alive(p)
           /\ Alive(p) /\ ~Alive(p)' => pc[p] = "return"
           /\ InTable(p) /\ ~InTable(p)'
                => pc[p] = "command" \/ pc[Tester] \notin {"openTest", "create"}
    BY <1>1, <1>2, <1>4, <1>7, <1>8 DEF InTable, Alive
  <2>. QED  BY <1>1, <1>2, <1>7, <2>1, LifeLeft DEF Life
<1>10. Joining'
  <2>1. Tester \in waiting => Tester # currentPid
    BY <1>2
  <2>2. Tester \in waiting => Tester \notin dead
    <3>1. Tester \in waiting => Alive(Tester) /\ pc[Tester] = "join"
      BY <1>1, <1>3 DEF Joining, Life
    <3>. QED  BY <1>1, <1>2, <1>4, <1>7, <2>1, <3>1 DEF Alive
  <2>3. \A p \in Pids : Alive(p)' => Alive(p)
    BY <1>4 DEF Alive
  <2>. QED  BY <1>1, <1>2, <1>7, <2>1, <2>2, <2>3, JoinLeft
<1>. QED  BY <1>6, <1>9, <1>10 DEF Kept

-----------------------------------------------------------------------------

LEMMA SyncStep ==
  ASSUME SyncInv, [TestSyncNext]_testSyncVars
  PROVE  SyncInv'
<1>1. CASE UNCHANGED testSyncVars
  <2>1. UNCHANGED vars /\ UNCHANGED semVars /\ UNCHANGED programVars
    BY <1>1 DEF testSyncVars, semaphoreVars
  <2>2. SyncBase'
    <3>1. IInv' /\ RunInv' /\ WaitersOwnTarget'
      BY <2>1, NextIInv, RunningStep, WaitersOwnStep DEF SyncInv, SyncBase
    <3>. QED  BY <2>1, <3>1 DEF SyncInv, SyncBase, SemTypeOK, semVars
  <2>3. SyncParts'
    BY <2>1, PartsKept DEF SyncInv, semVars
  <2>4. fault' = "none" => Life' /\ Joining'
    <3>1. SUFFICES ASSUME fault' = "none" PROVE Life' /\ Joining'
      OBVIOUS
    <3>2. Alone /\ UNCHANGED <<pc, i, inc, pids>>
      BY <2>1, <3>1 DEF Alone, vars, programVars
    <3>. QED  BY <2>1, <3>2, WakeLeaves, LifeKept
  <2>. QED  BY <2>2, <2>3, <2>4 DEF SyncInv
<1>2. CASE TestSyncNext
  <2>1. fault = "none"
    BY <1>2 DEF TestSyncNext, Program, Tick, Kernel, KernelStep, Shell, TestSync,
                MyProcessInc, Return, At, UserMode, TimerTick, StartShell, SoftTick,
                DoSchedule, ForegroundKill, WaitReturn, SemResume
  <2>2. Kept
    BY <1>2, <2>1, TickKept, KernelKept, ShellKept, TesterStepKept, WorkerStepKept,
       ReturnKept DEF Alone, TestSyncNext, Program
  <2>3. SyncBase'
    BY <1>2, SyncBaseStep DEF SyncInv, SyncParts
  <2>. QED  BY <2>2, <2>3 DEF SyncInv, Kept
<1>. QED  BY <1>1, <1>2

LEMMA SyncStarts == TestSyncInit => SyncInv
<1>. SUFFICES ASSUME TestSyncInit PROVE SyncInv
  OBVIOUS
<1>1. IDLE_PID \in Pids /\ SHELL_PID \in Pids /\ IDLE_PID # SHELL_PID /\ SEM_ID \in Sems
  BY PidsFinite, TestSyncAssumption DEF IDLE_PID, SHELL_PID
<1>2. /\ SemInit /\ Init /\ global = 0 /\ Tester = IDLE_PID
      /\ \A p \in Pids : /\ pc[p] = "command" /\ i[p] = 0 /\ aux[p] = 0 /\ inc[p] = 0
                         /\ downOn[p] = None
      /\ open[SEM_ID] = FALSE /\ value[SEM_ID] = 0
  BY <1>1 DEF TestSyncInit, SemInit, Tester
<1>3. SyncBase
  <2>1. IInv /\ SemTypeOK
    BY <1>2, InitSemType
  <2>2. RunInv /\ WaitersOwnTarget
    BY <1>1, <1>2, SizeAssumption
    DEF Init, RunInv, RunningIsCurrent, Alive, WaitersOwnTarget
  <2>. QED  BY <2>1, <2>2 DEF SyncBase
<1>4. SyncTypeOK
  BY <1>1, <1>2 DEF TestSyncInit, SyncTypeOK, Testing, WorkerLabels
<1>5. Named
  BY <1>1, <1>2 DEF Named, Worker
<1>6. InRounds
  BY <1>1, <1>2 DEF InRounds, Worker, Critical
<1>7. OneUnit
  BY <1>1, <1>2 DEF OneUnit, Holds, Critical
<1>8. SumsKept
  <2>1. /\ Done \in [Pids -> Int] /\ \A p \in Pids : Done[p] = 0
        /\ Due \in [Pids -> Int] /\ \A p \in Pids : Due[p] = 0
    BY <1>2, TestSyncAssumption DEF Done, Due
  <2>. HIDE DEF Done, Due
  <2>2. SumOver(Done) = 0 /\ SumOver(Due) = 0
    BY <2>1, SumOfNothing
  <2>. QED  BY <1>1, <1>2, <2>2 DEF SumsKept
<1>9. Life /\ Joining
  BY <1>1, <1>2 DEF Init, Life, Joining, Worker, InTable, Alive
<1>. QED  BY <1>3, <1>4, <1>5, <1>6, <1>7, <1>8, <1>9 DEF SyncInv, SyncParts

(* The sum of the property is that of Done.                                *)
LEMMA SumOfDone ==
  ASSUME SyncTypeOK, global = SumOver(Done)
  PROVE  NoLostUpdate
<1>. DEFINE Adds(h) ==
              h = [s \in SUBSET Pids |->
                     IF s = {} THEN 0
                     ELSE inc[Picked(s)]
                            * (i[Picked(s)] + (IF pc[Picked(s)] = "post" THEN 1 ELSE 0))
                          + h[s \ {Picked(s)}]]
            w == CHOOSE h : Adds(h)
<1>1. global = w[Pids] => NoLostUpdate
  BY DEF NoLostUpdate, MapThenSumSet, MapThenFoldSet, Picked
<1>2. ASSUME NEW h PROVE Adds(h) <=> Sums(Pids, Done, h)
  <2>1. \A s \in SUBSET Pids : s # {} => Picked(s) \in Pids
    BY PickedIn
  <2>. QED  BY <2>1 DEF Sums, Done
<1>3. Done \in [Pids -> Int]
  BY DEF Done, SyncTypeOK
<1>. HIDE DEF Adds, Done
<1>4. PICK g : Adds(g)
  BY <1>2, <1>3, SumsExist, PidsFinite
<1>5. Adds(w)
  BY <1>4
<1>. HIDE DEF w
<1>6. SumOver(Done) = w[Pids]
  BY <1>2, <1>3, <1>5, SumOverIs
<1>. QED  BY <1>1, <1>6

LEMMA SyncInvHolds == UserTestsSpec => [](test = "sync" => SyncInv)
<1>1. UserTestsInit => (test = "sync" => SyncInv)
  BY SyncStarts DEF UserTestsInit
<1>2. (test = "sync" => SyncInv) /\ [UserTestsNext]_userTestsVars
        => (test = "sync" => SyncInv)'
  <2>. SUFFICES ASSUME test = "sync" => SyncInv, [UserTestsNext]_userTestsVars,
                       test' = "sync"
                PROVE  SyncInv'
    OBVIOUS
  <2>1. test' = test /\ [TestSyncNext]_testSyncVars
    BY DEF UserTestsNext, Sync, Schedules, Uses, userTestsVars
  <2>. QED  BY <2>1, SyncStep
<1>. HIDE DEF SyncInv, UserTestsInit, UserTestsNext, userTestsVars, UserTestsFairness
<1>. QED  BY <1>1, <1>2, PTL DEF UserTestsSpec

(* No decrement and no increment of testSync is lost, for any number of    *)
(* pairs and rounds: one process at a time is in slowInc, although it      *)
(* yields inside, the variable is at every moment the sum of what has been *)
(* completed, and it is 0 when test_sync has waited for all of them.       *)
THEOREM UpdatesKeptHolds == UserTestsSpec => []UpdatesKept
<1>1. (test = "sync" => SyncInv) => UpdatesKept
  <2>. SUFFICES ASSUME test = "sync", SyncInv PROVE UpdatesKept
    BY DEF UpdatesKept
  <2>1. SyncTypeOK /\ OneUnit /\ SumsKept
    BY DEF SyncInv, SyncParts
  <2>2. OneInSlowInc
    BY <2>1 DEF OneUnit, OneInSlowInc, Holds, Critical
  <2>3. NoLostUpdate
    BY <2>1, SumOfDone DEF SumsKept
  <2>4. FinalValueIsZero
    BY <2>1 DEF SumsKept, FinalValueIsZero
  <2>. QED  BY <2>2, <2>3, <2>4 DEF UpdatesKept
<1>. QED  BY <1>1, SyncInvHolds, PTL

-----------------------------------------------------------------------------
Piece == [ptr : Memory, size : Int]
HeldBy(p) == (IF phase[p] = "free" THEN mm_i[p] ELSE 1) .. Len(mm_rqs[p])

MMTypeOK ==
  /\ phase \in [Programs -> {"request", "set", "check", "free"}]
  /\ mm_rqs \in [Programs -> Seq(Piece)]
  /\ mm_i \in [Programs -> Nat]
  /\ DOMAIN content = Memory
  /\ \A p \in Programs : phase[p] # "request" => mm_i[p] \in 1 .. Len(mm_rqs[p])
(* Who holds a piece, and no other, until it is freed.                     *)
PiecesApart ==
  /\ \A p \in Programs : \A n \in HeldBy(p) : MM!Bytes(mm_rqs[p][n]) \subseteq Memory
  /\ \A p, q \in Programs : \A n \in HeldBy(p), m \in HeldBy(q) :
       p # q \/ n # m => /\ MM!Apart(mm_rqs[p][n], mm_rqs[q][m])
                         /\ mm_rqs[p][n].ptr # mm_rqs[q][m].ptr
(* What has been written of the pieces of a program.                       *)
WrittenBy(p) ==
  CASE phase[p] = "set" -> 1 .. mm_i[p] - 1
    [] phase[p] = "check" -> 1 .. Len(mm_rqs[p])
    [] OTHER -> {}
ContentKept ==
  \A p \in Programs : \A n \in WrittenBy(p) : MM!Memcheck(mm_rqs[p][n], n)
MMInv == MMTypeOK /\ PiecesApart /\ MM!AllAccounted /\ ContentKept /\ MM!NoTestError

LEMMA TotalOfNothing == \A p : mm_rqs[p] = <<>> => MM!Total(p) = 0
<1>. SUFFICES ASSUME NEW p, mm_rqs[p] = <<>> PROVE MM!Total(p) = 0
  OBVIOUS
<1>. DEFINE F(sum) == [n \in 0 .. Len(mm_rqs[p]) |->
                  IF n = 0 THEN 0 ELSE sum[n - 1] + mm_rqs[p][n].size]
            sum == CHOOSE s : s = F(s)
<1>1. MM!Total(p) = sum[Len(mm_rqs[p])]
  BY DEF MM!Total
<1>2. Len(mm_rqs[p]) = 0
  OBVIOUS
<1>3. F([n \in 0 .. 0 |-> 0]) = [n \in 0 .. 0 |-> 0]
  BY <1>2
<1>4. sum = F(sum)
  BY <1>3
<1>. QED  BY <1>1, <1>2, <1>4

LEMMA WantsSome ==
  ASSUME MMTypeOK, NEW p \in Programs, ~MM!WantsMore(p)
  PROVE  Len(mm_rqs[p]) \in Nat \ {0}
<1>1. mm_rqs[p] \in Seq(Piece) /\ Len(mm_rqs[p]) \in Nat
  BY DEF MMTypeOK
<1>2. ASSUME Len(mm_rqs[p]) = 0 PROVE FALSE
  <2>1. mm_rqs[p] = <<>>
    BY <1>1, <1>2
  <2>2. MM!Total(p) = 0
    BY <2>1, TotalOfNothing
  <2>. QED  BY <1>2, <2>2, UserTestsAssumption DEF MM!WantsMore, MM!TestMemoryAssumption
<1>. QED  BY <1>1, <1>2

LEMMA MMStarts == MM!TestInit => MMInv
<1>. SUFFICES ASSUME MM!TestInit PROVE MMInv
  OBVIOUS
<1>1. MMTypeOK
  BY DEF MM!TestInit, MMTypeOK
<1>2. \A p \in Programs : HeldBy(p) = {} /\ WrittenBy(p) = {} /\ Len(mm_rqs[p]) = 0
      /\ phase[p] = "request"
  BY DEF MM!TestInit, HeldBy, WrittenBy
<1>3. PiecesApart /\ ContentKept
  BY <1>2 DEF PiecesApart, ContentKept
<1>4. MM!AllAccounted
  <2>1. \A p \in Programs : {mm_rqs[p][n] : n \in HeldBy(p)} = {}
    BY <1>2
  <2>2. handed = {}
    BY DEF MM!TestInit, MM!Init
  <2>. QED  BY <2>1, <2>2 DEF MM!AllAccounted, HeldBy
<1>. QED  BY <1>1, <1>3, <1>4 DEF MMInv, MM!NoTestError, MM!TestInit

LEMMA Accounted ==
  MM!AllAccounted <=> handed = UNION {{mm_rqs[p][n] : n \in HeldBy(p)} : p \in Programs}
BY DEF MM!AllAccounted, HeldBy

LEMMA HeldIsHanded ==
  ASSUME MM!AllAccounted, NEW p \in Programs, NEW n \in HeldBy(p)
  PROVE  mm_rqs[p][n] \in handed
BY Accounted

LEMMA MMRequestKept ==
  ASSUME MMInv, NEW p \in Programs, MM!Request(p)
  PROVE  MMInv'
<1>. USE DEF MMInv
<1>1. PICK size \in MM!Uniform(max_memory - MM!Total(p) - 1), ptr \in Memory :
        MM!Alloc([ptr |-> ptr, size |-> size])
  BY DEF MM!Request
<1>. DEFINE new == [ptr |-> ptr, size |-> size]
            rqs == mm_rqs[p]
<1>2. /\ new \in Piece /\ MM!Bytes(new) \subseteq Memory
      /\ \A q \in handed : MM!Apart(new, q) /\ q.ptr # new.ptr
      /\ handed' = handed \cup {new}
  <2>1. size \in Int
    BY DEF MM!Uniform
  <2>. QED  BY <1>1, <2>1 DEF MM!Alloc, Piece
<1>. HIDE DEF new
<1>3. (CHOOSE piece \in handed' : piece \notin handed) = new
  <2>1. new \notin handed
    BY <1>2
  <2>. QED  BY <1>2, <2>1
<1>4. /\ mm_rqs' = [mm_rqs EXCEPT ![p] = Append(rqs, new)]
      /\ UNCHANGED <<phase, mm_i, content, errors>> /\ phase[p] = "request"
  BY <1>3 DEF MM!Request
<1>5. /\ rqs \in Seq(Piece) /\ Len(rqs) \in Nat
      /\ Append(rqs, new) \in Seq(Piece) /\ Len(Append(rqs, new)) = Len(rqs) + 1
      /\ Append(rqs, new)[Len(rqs) + 1] = new
      /\ \A n \in 1 .. Len(rqs) : Append(rqs, new)[n] = rqs[n]
  BY <1>2 DEF MMTypeOK
<1>6. MMTypeOK'
  <2>1. mm_rqs' \in [Programs -> Seq(Piece)]
    BY <1>4, <1>5 DEF MMTypeOK
  <2>2. \A q \in Programs : phase'[q] # "request" => mm_rqs'[q] = mm_rqs[q]
    BY <1>4 DEF MMTypeOK
  <2>. QED  BY <1>4, <2>1, <2>2 DEF MMTypeOK
<1>7. \A q \in Programs : q # p => mm_rqs'[q] = mm_rqs[q] /\ HeldBy(q)' = HeldBy(q)
  BY <1>4 DEF HeldBy, MMTypeOK
<1>8. /\ mm_rqs'[p] = Append(rqs, new)
      /\ HeldBy(p) = 1 .. Len(rqs) /\ HeldBy(p)' = 1 .. Len(rqs) + 1
  BY <1>4, <1>5 DEF HeldBy, MMTypeOK
<1>9. \A q \in Programs : \A n : n \in HeldBy(q)' =>
        \/ n \in HeldBy(q) /\ mm_rqs'[q][n] = mm_rqs[q][n]
        \/ q = p /\ n = Len(rqs) + 1 /\ mm_rqs'[q][n] = new
  BY <1>5, <1>7, <1>8
<1>10. PiecesApart'
  <2>1. ASSUME NEW q \in Programs, NEW n \in HeldBy(q)'
        PROVE  MM!Bytes(mm_rqs'[q][n]) \subseteq Memory
    BY <1>2, <1>9 DEF PiecesApart
  <2>2. ASSUME NEW q \in Programs, NEW r \in Programs,
               NEW n \in HeldBy(q)', NEW m \in HeldBy(r)', q # r \/ n # m
        PROVE  /\ MM!Apart(mm_rqs'[q][n], mm_rqs'[r][m])
               /\ mm_rqs'[q][n].ptr # mm_rqs'[r][m].ptr
    <3>1. CASE /\ n \in HeldBy(q) /\ mm_rqs'[q][n] = mm_rqs[q][n]
               /\ m \in HeldBy(r) /\ mm_rqs'[r][m] = mm_rqs[r][m]
      BY <2>2, <3>1 DEF PiecesApart
    <3>2. CASE /\ q = p /\ n = Len(rqs) + 1 /\ mm_rqs'[q][n] = new
               /\ m \in HeldBy(r) /\ mm_rqs'[r][m] = mm_rqs[r][m]
      <4>1. mm_rqs[r][m] \in handed
        BY <3>2, HeldIsHanded
      <4>. QED  BY <1>2, <3>2, <4>1
    <3>3. CASE /\ r = p /\ m = Len(rqs) + 1 /\ mm_rqs'[r][m] = new
               /\ n \in HeldBy(q) /\ mm_rqs'[q][n] = mm_rqs[q][n]
      <4>1. mm_rqs[q][n] \in handed
        BY <3>3, HeldIsHanded
      <4>2. MM!Apart(new, mm_rqs[q][n]) => MM!Apart(mm_rqs[q][n], new)
        BY DEF MM!Apart
      <4>. QED  BY <1>2, <3>3, <4>1, <4>2
    <3>. QED  BY <1>9, <2>2, <3>1, <3>2, <3>3
  <2>. QED  BY <2>1, <2>2 DEF PiecesApart, MM!Apart, MM!Bytes
<1>11. MM!AllAccounted'
  <2>1. ASSUME NEW q \in Programs, q # p
        PROVE  {mm_rqs'[q][n] : n \in HeldBy(q)'} = {mm_rqs[q][n] : n \in HeldBy(q)}
    BY <1>7, <2>1
  <2>2. {mm_rqs'[p][n] : n \in HeldBy(p)'} = {mm_rqs[p][n] : n \in HeldBy(p)} \cup {new}
    <3>1. HeldBy(p)' = HeldBy(p) \cup {Len(rqs) + 1}
      BY <1>5, <1>8
    <3>. QED  BY <1>5, <1>8, <3>1
  <2>. DEFINE before(q) == {mm_rqs[q][n] : n \in HeldBy(q)}
              after(q) == {mm_rqs'[q][n] : n \in HeldBy(q)'}
  <2>3. handed = UNION {before(q) : q \in Programs}
    BY Accounted
  <2>4. \A q \in Programs : after(q) = IF q = p THEN before(q) \cup {new} ELSE before(q)
    BY <2>1, <2>2
  <2>. HIDE DEF before, after
  <2>5. handed' = UNION {after(q) : q \in Programs}
    BY <1>2, <2>3, <2>4
  <2>6. handed' = UNION {{mm_rqs'[q][n] : n \in HeldBy(q)'} : q \in Programs}
    BY <2>5 DEF after
  <2>. QED  BY <2>6 DEF MM!AllAccounted, HeldBy
<1>12. ContentKept'
  <2>1. \A q \in Programs : WrittenBy(q)' # {} => WrittenBy(q)' = WrittenBy(q) /\ q # p
    BY <1>4, <1>7 DEF WrittenBy
  <2>. QED  BY <1>4, <1>7, <2>1 DEF ContentKept, MM!Memcheck, MM!Bytes
<1>13. MM!NoTestError'
  BY <1>4 DEF MM!NoTestError
<1>. QED  BY <1>6, <1>10, <1>11, <1>12, <1>13

(* A step that moves one program's counter and hands out nothing.          *)
LEMMA MMHeldKept ==
  ASSUME MMInv, UNCHANGED <<handed, mm_rqs>>, \A q \in Programs : HeldBy(q)' = HeldBy(q)
  PROVE  PiecesApart' /\ MM!AllAccounted'
<1>1. PiecesApart'
  BY DEF MMInv, PiecesApart, MM!Apart, MM!Bytes
<1>2. handed' = UNION {{mm_rqs'[q][n] : n \in HeldBy(q)'} : q \in Programs}
  BY Accounted DEF MMInv
<1>. QED  BY <1>1, <1>2 DEF MM!AllAccounted, HeldBy

LEMMA MMRequestedKept ==
  ASSUME MMInv, NEW p \in Programs, MM!Requested(p)
  PROVE  MMInv'
<1>. USE DEF MMInv
<1>1. /\ phase[p] = "request" /\ ~MM!WantsMore(p)
      /\ phase' = [phase EXCEPT ![p] = "set"] /\ mm_i' = [mm_i EXCEPT ![p] = 1]
      /\ UNCHANGED <<handed, mm_rqs, content, errors>>
  BY DEF MM!Requested
<1>2. Len(mm_rqs[p]) \in Nat \ {0}
  BY <1>1, WantsSome
<1>3. MMTypeOK'
  <2>1. 1 \in 1 .. Len(mm_rqs[p])
    BY <1>2
  <2>. QED  BY <1>1, <2>1 DEF MMTypeOK
<1>4. \A q \in Programs : HeldBy(q)' = HeldBy(q)
  BY <1>1 DEF HeldBy, MMTypeOK
<1>5. ContentKept'
  <2>1. \A q \in Programs : q # p => WrittenBy(q)' = WrittenBy(q)
    BY <1>1 DEF WrittenBy, MMTypeOK
  <2>2. WrittenBy(p)' = {}
    BY <1>1 DEF WrittenBy, MMTypeOK
  <2>. QED  BY <1>1, <2>1, <2>2 DEF ContentKept, MM!Memcheck, MM!Bytes
<1>. QED  BY <1>1, <1>3, <1>4, <1>5, MMHeldKept DEF MM!NoTestError

(* The pieces of a program that is past its requests: the piece of the     *)
(* loop, and what Advance does to the counter.                             *)
LEMMA MMAdvances ==
  ASSUME MMInv, NEW p \in Programs, phase[p] # "request", NEW next,
         MM!Advance(p, next),
         next \in {"request", "check", "free"}, next # phase[p]
  PROVE  /\ mm_i[p] \in HeldBy(p) /\ MM!Piece(p) = mm_rqs[p][mm_i[p]]
         /\ Len(mm_rqs[p]) \in Nat /\ mm_i[p] \in 1 .. Len(mm_rqs[p])
         /\ \/ /\ mm_i[p] < Len(mm_rqs[p]) /\ UNCHANGED phase
               /\ mm_i' = [mm_i EXCEPT ![p] = mm_i[p] + 1]
            \/ /\ mm_i[p] = Len(mm_rqs[p]) /\ mm_i' = [mm_i EXCEPT ![p] = 1]
               /\ phase' = [phase EXCEPT ![p] = next]
<1>1. Len(mm_rqs[p]) \in Nat /\ mm_i[p] \in 1 .. Len(mm_rqs[p])
  BY DEF MMInv, MMTypeOK
<1>2. mm_i[p] \in HeldBy(p)
  BY <1>1 DEF HeldBy
<1>. QED  BY <1>1, <1>2 DEF MM!Advance, MM!Piece

LEMMA MMAdvancedType ==
  ASSUME MMInv, NEW p \in Programs, phase[p] # "request", NEW next,
         MM!Advance(p, next), UNCHANGED mm_rqs, DOMAIN content' = Memory,
         next \in {"request", "check", "free"}, next # phase[p]
  PROVE  MMTypeOK'
<1>1. Len(mm_rqs[p]) \in Nat /\ mm_i[p] \in 1 .. Len(mm_rqs[p])
  BY MMAdvances
<1>2. CASE /\ mm_i[p] < Len(mm_rqs[p]) /\ UNCHANGED phase
           /\ mm_i' = [mm_i EXCEPT ![p] = mm_i[p] + 1]
  <2>1. mm_i[p] + 1 \in 1 .. Len(mm_rqs[p])
    BY <1>1, <1>2
  <2>. QED  BY <1>2, <2>1 DEF MMTypeOK, MMInv
<1>3. CASE /\ mm_i[p] = Len(mm_rqs[p]) /\ mm_i' = [mm_i EXCEPT ![p] = 1]
           /\ phase' = [phase EXCEPT ![p] = next]
  <2>1. 1 \in 1 .. Len(mm_rqs[p])
    BY <1>1
  <2>. QED  BY <1>3, <2>1 DEF MMTypeOK, MMInv
<1>. QED  BY <1>2, <1>3, MMAdvances

LEMMA MMSetKept ==
  ASSUME MMInv, NEW p \in Programs, MM!Set(p)
  PROVE  MMInv'
<1>. USE DEF MMInv
<1>1. /\ phase[p] = "set" /\ content' = MM!Filled(MM!Piece(p), mm_i[p])
      /\ MM!Advance(p, "check") /\ UNCHANGED <<handed, mm_rqs, errors>>
  BY DEF MM!Set
<1>2. DOMAIN content' = Memory
  BY <1>1 DEF MM!Filled
<1>3. MMTypeOK'
  BY <1>1, <1>2, MMAdvancedType
<1>. DEFINE n0 == mm_i[p]
            piece == mm_rqs[p][n0]
<1>4. /\ n0 \in HeldBy(p) /\ MM!Piece(p) = piece
      /\ Len(mm_rqs[p]) \in Nat /\ n0 \in 1 .. Len(mm_rqs[p])
      /\ HeldBy(p) = 1 .. Len(mm_rqs[p]) /\ WrittenBy(p) = 1 .. n0 - 1
  BY <1>1, MMAdvances DEF HeldBy, WrittenBy
<1>5. /\ \A q \in Programs : q # p =>
           mm_i'[q] = mm_i[q] /\ phase'[q] = phase[q]
      /\ HeldBy(p)' = HeldBy(p) /\ WrittenBy(p)' \subseteq 1 .. n0
  <2>1. CASE /\ n0 < Len(mm_rqs[p]) /\ UNCHANGED phase
             /\ mm_i' = [mm_i EXCEPT ![p] = n0 + 1]
    BY <1>1, <1>4, <2>1 DEF HeldBy, WrittenBy, MMTypeOK
  <2>2. CASE /\ n0 = Len(mm_rqs[p]) /\ mm_i' = [mm_i EXCEPT ![p] = 1]
             /\ phase' = [phase EXCEPT ![p] = "check"]
    BY <1>1, <1>4, <2>2 DEF HeldBy, WrittenBy, MMTypeOK
  <2>. QED  BY <1>1, <2>1, <2>2, MMAdvances
<1>6. \A q \in Programs : q # p => HeldBy(q)' = HeldBy(q) /\ WrittenBy(q)' = WrittenBy(q)
  BY <1>1, <1>5 DEF HeldBy, WrittenBy
<1>7. PiecesApart' /\ MM!AllAccounted'
  BY <1>1, <1>5, <1>6, MMHeldKept
<1>8. \A q \in Programs : WrittenBy(q) \subseteq HeldBy(q)
  BY DEF WrittenBy, HeldBy, MMTypeOK
<1>9. \A a \in Memory :
        content'[a] = IF a \in MM!Bytes(piece) THEN n0 ELSE content[a]
  BY <1>1, <1>4 DEF MM!Filled
<1>10. ASSUME NEW q \in Programs, NEW n \in HeldBy(q), q # p \/ n # n0,
              MM!Memcheck(mm_rqs[q][n], n)
       PROVE  \A a \in MM!Bytes(mm_rqs[q][n]) : content'[a] = n
  <2>1. MM!Bytes(mm_rqs[q][n]) \subseteq Memory
    BY DEF PiecesApart
  <2>2. MM!Bytes(mm_rqs[q][n]) \cap MM!Bytes(piece) = {}
    BY <1>4, <1>10 DEF PiecesApart, MM!Apart
  <2>. QED  BY <1>9, <1>10, <2>1, <2>2 DEF MM!Memcheck
<1>11. \A a \in MM!Bytes(piece) : content'[a] = n0
  <2>1. MM!Bytes(piece) \subseteq Memory
    BY <1>4 DEF PiecesApart
  <2>. QED  BY <1>9, <2>1
<1>12. ContentKept'
  <2>1. ASSUME NEW q \in Programs, NEW n \in WrittenBy(q)'
        PROVE  \A a \in MM!Bytes(mm_rqs[q][n]) : content'[a] = n
    <3>1. CASE q = p /\ n = n0
      BY <1>11, <3>1
    <3>2. CASE q # p \/ n # n0
      <4>1. n \in WrittenBy(q) /\ n \in HeldBy(q)
        BY <1>4, <1>5, <1>6, <1>8, <3>2
      <4>. QED  BY <1>10, <3>2, <4>1 DEF ContentKept
    <3>. QED  BY <3>1, <3>2
  <2>. QED  BY <1>1, <2>1 DEF ContentKept, MM!Memcheck, MM!Bytes
<1>. QED  BY <1>1, <1>3, <1>7, <1>12 DEF MM!NoTestError

LEMMA MMCheckKept ==
  ASSUME MMInv, NEW p \in Programs, MM!Check(p)
  PROVE  MMInv'
<1>. USE DEF MMInv
<1>1. /\ phase[p] = "check" /\ MM!Advance(p, "free")
      /\ UNCHANGED <<handed, mm_rqs, content>>
      /\ MM!Memcheck(MM!Piece(p), mm_i[p]) => errors' = errors
  BY DEF MM!Check
<1>2. MMTypeOK'
  BY <1>1, MMAdvancedType DEF MMTypeOK
<1>3. /\ MM!Piece(p) = mm_rqs[p][mm_i[p]]
      /\ Len(mm_rqs[p]) \in Nat /\ mm_i[p] \in 1 .. Len(mm_rqs[p])
      /\ HeldBy(p) = 1 .. Len(mm_rqs[p]) /\ WrittenBy(p) = 1 .. Len(mm_rqs[p])
  BY <1>1, MMAdvances DEF HeldBy, WrittenBy
<1>4. errors' = errors
  BY <1>1, <1>3 DEF ContentKept
<1>5. /\ \A q \in Programs : q # p =>
           mm_i'[q] = mm_i[q] /\ phase'[q] = phase[q]
      /\ HeldBy(p)' = HeldBy(p) /\ WrittenBy(p)' \subseteq WrittenBy(p)
  <2>1. CASE /\ mm_i[p] < Len(mm_rqs[p]) /\ UNCHANGED phase
             /\ mm_i' = [mm_i EXCEPT ![p] = mm_i[p] + 1]
    BY <1>1, <1>3, <2>1 DEF HeldBy, WrittenBy, MMTypeOK
  <2>2. CASE /\ mm_i[p] = Len(mm_rqs[p]) /\ mm_i' = [mm_i EXCEPT ![p] = 1]
             /\ phase' = [phase EXCEPT ![p] = "free"]
    BY <1>1, <1>3, <2>2 DEF HeldBy, WrittenBy, MMTypeOK
  <2>. QED  BY <1>1, <2>1, <2>2, MMAdvances
<1>6. \A q \in Programs : q # p => HeldBy(q)' = HeldBy(q) /\ WrittenBy(q)' = WrittenBy(q)
  BY <1>1, <1>5 DEF HeldBy, WrittenBy
<1>7. PiecesApart' /\ MM!AllAccounted'
  BY <1>1, <1>5, <1>6, MMHeldKept
<1>8. ContentKept'
  <2>1. \A q \in Programs : WrittenBy(q)' \subseteq WrittenBy(q)
    BY <1>5, <1>6
  <2>. QED  BY <1>1, <2>1 DEF ContentKept, MM!Memcheck, MM!Bytes
<1>. QED  BY <1>2, <1>4, <1>7, <1>8 DEF MM!NoTestError

LEMMA MMFreeKept ==
  ASSUME MMInv, NEW p \in Programs, MM!FreeAll(p)
  PROVE  MMInv'
<1>. USE DEF MMInv
<1>. DEFINE n0 == mm_i[p]
            piece == mm_rqs[p][n0]
<1>1. /\ phase[p] = "free" /\ handed' = handed \ {MM!Piece(p)}
      /\ MM!Advance(p, "request") /\ UNCHANGED <<content, errors>>
      /\ mm_rqs' = IF phase'[p] = "free" THEN mm_rqs ELSE [mm_rqs EXCEPT ![p] = <<>>]
  BY DEF MM!FreeAll, MM!Free
<1>2. /\ n0 \in HeldBy(p) /\ MM!Piece(p) = piece
      /\ Len(mm_rqs[p]) \in Nat /\ n0 \in 1 .. Len(mm_rqs[p])
      /\ HeldBy(p) = n0 .. Len(mm_rqs[p])
  BY <1>1, MMAdvances DEF HeldBy
<1>3. /\ MMTypeOK'
      /\ \A q \in Programs : q # p =>
           mm_i'[q] = mm_i[q] /\ phase'[q] = phase[q] /\ mm_rqs'[q] = mm_rqs[q]
      /\ HeldBy(p)' = HeldBy(p) \ {n0} /\ WrittenBy(p)' = {}
      /\ HeldBy(p)' # {} => mm_rqs'[p] = mm_rqs[p]
  <2>1. CASE /\ n0 < Len(mm_rqs[p]) /\ UNCHANGED phase
             /\ mm_i' = [mm_i EXCEPT ![p] = n0 + 1]
    <3>1. mm_rqs' = mm_rqs
      BY <1>1, <2>1
    <3>2. n0 + 1 \in 1 .. Len(mm_rqs[p])
      BY <1>2, <2>1
    <3>3. MMTypeOK'
      BY <1>1, <2>1, <3>1, <3>2 DEF MMTypeOK
    <3>4. HeldBy(p)' = n0 + 1 .. Len(mm_rqs[p]) /\ WrittenBy(p)' = {}
      BY <1>1, <2>1, <3>1 DEF HeldBy, WrittenBy, MMTypeOK
    <3>5. n0 + 1 .. Len(mm_rqs[p]) = (n0 .. Len(mm_rqs[p])) \ {n0}
      BY <1>2
    <3>. QED  BY <1>2, <2>1, <3>1, <3>3, <3>4, <3>5 DEF MMTypeOK
  <2>2. CASE /\ n0 = Len(mm_rqs[p]) /\ mm_i' = [mm_i EXCEPT ![p] = 1]
             /\ phase' = [phase EXCEPT ![p] = "request"]
    <3>1. phase'[p] = "request"
      BY <2>2 DEF MMTypeOK
    <3>2. mm_rqs' = [mm_rqs EXCEPT ![p] = <<>>] /\ mm_rqs'[p] = <<>>
      BY <1>1, <3>1 DEF MMTypeOK
    <3>3. MMTypeOK'
      <4>1. mm_rqs' \in [Programs -> Seq(Piece)]
        BY <3>2 DEF MMTypeOK
      <4>2. \A q \in Programs : phase'[q] # "request" =>
              q # p /\ phase'[q] = phase[q] /\ mm_rqs'[q] = mm_rqs[q] /\ mm_i'[q] = mm_i[q]
        BY <2>2, <3>1, <3>2 DEF MMTypeOK
      <4>. QED  BY <1>1, <2>2, <4>1, <4>2 DEF MMTypeOK
    <3>4. HeldBy(p)' = {} /\ WrittenBy(p)' = {}
      BY <3>1, <3>2 DEF HeldBy, WrittenBy
    <3>5. HeldBy(p) = {n0}
      BY <1>2, <2>2
    <3>. QED  BY <2>2, <3>2, <3>3, <3>4, <3>5 DEF MMTypeOK
  <2>. QED  BY <1>1, <2>1, <2>2, MMAdvances
<1>4. \A q \in Programs : q # p => HeldBy(q)' = HeldBy(q) /\ WrittenBy(q)' = WrittenBy(q)
  BY <1>3 DEF HeldBy, WrittenBy
<1>5. \A q \in Programs : \A n : n \in HeldBy(q)' =>
        n \in HeldBy(q) /\ mm_rqs'[q][n] = mm_rqs[q][n] /\ (q # p \/ n # n0)
  BY <1>3, <1>4
<1>6. PiecesApart'
  BY <1>5 DEF PiecesApart, MM!Apart, MM!Bytes
<1>7. MM!AllAccounted'
  <2>. DEFINE before(q) == {mm_rqs[q][n] : n \in HeldBy(q)}
              after(q) == {mm_rqs'[q][n] : n \in HeldBy(q)'}
  <2>1. handed = UNION {before(q) : q \in Programs}
    BY Accounted
  <2>2. \A q \in Programs : q # p => after(q) = before(q) /\ piece \notin before(q)
    BY <1>2, <1>3, <1>4 DEF PiecesApart
  <2>3. after(p) = before(p) \ {piece}
    <3>1. \A n \in HeldBy(p) \ {n0} : mm_rqs[p][n] # piece
      BY <1>2 DEF PiecesApart
    <3>2. after(p) = {mm_rqs[p][n] : n \in HeldBy(p) \ {n0}}
      BY <1>3
    <3>. QED  BY <3>1, <3>2
  <2>. HIDE DEF before, after, piece
  <2>4. handed' = handed \ {piece}
    BY <1>1, <1>2
  <2>5. handed' = UNION {after(q) : q \in Programs}
    BY <2>1, <2>2, <2>3, <2>4
  <2>6. handed' = UNION {{mm_rqs'[q][n] : n \in HeldBy(q)'} : q \in Programs}
    BY <2>5 DEF after
  <2>. QED  BY <2>6 DEF MM!AllAccounted, HeldBy
<1>8. ContentKept'
  <2>1. \A q \in Programs : WrittenBy(q)' # {} =>
          q # p /\ WrittenBy(q)' = WrittenBy(q) /\ mm_rqs'[q] = mm_rqs[q]
    BY <1>3, <1>4
  <2>. QED  BY <1>1, <2>1 DEF ContentKept, MM!Memcheck, MM!Bytes
<1>. QED  BY <1>1, <1>3, <1>6, <1>7, <1>8 DEF MM!NoTestError

LEMMA MMStep ==
  ASSUME MMInv, [MM!TestNext]_memoryVars
  PROVE  MMInv'
<1>1. ASSUME UNCHANGED memoryVars PROVE MMInv'
  <2>1. UNCHANGED <<handed, phase, mm_rqs, mm_i, content, errors>>
    BY <1>1 DEF memoryVars
  <2>2. \A q \in Programs : HeldBy(q)' = HeldBy(q) /\ WrittenBy(q)' = WrittenBy(q)
    BY <2>1 DEF HeldBy, WrittenBy
  <2>3. MMTypeOK'
    BY <2>1 DEF MMTypeOK, MMInv
  <2>4. ContentKept'
    BY <2>1, <2>2 DEF ContentKept, MM!Memcheck, MM!Bytes, MMInv
  <2>. QED  BY <2>1, <2>2, <2>3, <2>4, MMHeldKept DEF MMInv, MM!NoTestError
<1>2. ASSUME NEW p \in Programs, MM!Refused(p) PROVE UNCHANGED memoryVars
  BY <1>2 DEF MM!Refused, MM!vars, MM!testVars, memoryVars
<1>. QED
  BY <1>1, <1>2, MMRequestKept, MMRequestedKept, MMSetKept, MMCheckKept, MMFreeKept
     DEF MM!TestNext

-----------------------------------------------------------------------------
(* What the steps of the scheduler leave of a process.                     *)
Steady(p) ==
  /\ \A st \in {"NONE", "ZOMBIE", "BLOCKED"} : status'[p] = st <=> status[p] = st
  /\ parent'[p] = parent[p] /\ foreground'[p] = foreground[p]
Untouched(p) == Steady(p) /\ priority'[p] = priority[p]

LEMMA SteadyIs ==
  ASSUME IInv, IInv', NEW p \in Pids, Steady(p)
  PROVE  /\ InTable(p)' <=> InTable(p)
         /\ Alive(p)' <=> Alive(p)
         /\ Scheduled(p)' <=> Scheduled(p)
<1>1. status[p] \in Statuses /\ status'[p] \in Statuses
  BY DEF IInv, TypeOK
<1>2. Scheduled(p)' <=> Scheduled(p)
  BY <1>1 DEF Steady, Scheduled, Statuses
<1>3. (InTable(p)' <=> InTable(p)) /\ (Alive(p)' <=> Alive(p))
  BY DEF Steady, InTable, Alive
<1>. QED  BY <1>2, <1>3

LEMMA ScheduleSteady ==
  ASSUME IInv, DoSchedule
  PROVE  /\ \A p \in Pids : Untouched(p)
         /\ UNCHANGED waiting
         /\ shouldKillForeground' => shouldKillForeground
         /\ control' # "kill" \/ /\ shouldKillForeground /\ currentPid' \in Pids
                                 /\ Scheduled(currentPid') /\ foreground[currentPid']
                                 /\ currentPid' \notin Unkillable
<1>1. ASSUME NEW p \in Pids PROVE Untouched(p)
  <2>1. \/ status'[p] = status[p]
        \/ Scheduled(p) /\ status'[p] \in {"READY", "RUNNING"}
    BY ScheduleChanges
  <2>2. \A st \in {"NONE", "ZOMBIE", "BLOCKED"} : status'[p] = st <=> status[p] = st
    BY <2>1 DEF Scheduled
  <2>3. UNCHANGED <<parent, foreground, priority>>
    BY DEF DoSchedule, KeepRunning, SwitchTo, pcbVars
  <2>. QED  BY <2>2, <2>3 DEF Untouched, Steady
<1>2. UNCHANGED waiting
  BY DEF DoSchedule, waitVars
<1>3. CASE KeepRunning
  BY <1>1, <1>2, <1>3 DEF KeepRunning
<1>4. ASSUME NEW next \in Pids, SwitchTo(next)
      PROVE  /\ shouldKillForeground' => shouldKillForeground
             /\ control' # "kill" \/ /\ shouldKillForeground /\ currentPid' \in Pids
                                     /\ Scheduled(currentPid') /\ foreground[currentPid']
                                     /\ currentPid' \notin Unkillable
  <2>1. Scheduled(next) /\ currentPid' = next
    BY <1>4, GetNextPidLemma DEF SwitchTo
  <2>2. shouldKillForeground' = (shouldKillForeground /\ ~foreground[next])
    BY <1>4 DEF SwitchTo
  <2>3. control' = "user" \/ (shouldKillForeground /\ foreground[next]
        /\ next \notin Unkillable)
    BY <1>4, Zenon DEF SwitchTo
  <2>. QED  BY <2>1, <2>2, <2>3
<1>. QED  BY <1>1, <1>2, <1>3, <1>4 DEF DoSchedule

LEMMA CreateSteady ==
  ASSUME IInv, NEW prio, NEW fg, Create(prio, fg), fault' = "none"
  PROVE  /\ nextAvailablePid \in Pids /\ ~InTable(nextAvailablePid)
         /\ status'[nextAvailablePid] = "READY"
         /\ parent'[nextAvailablePid] = currentPid
         /\ foreground'[nextAvailablePid] = fg
         /\ \A p \in Pids \ {nextAvailablePid} : Untouched(p)
         /\ UNCHANGED <<control, currentPid, waiting, shouldKillForeground>>
BY DEF Create, Crash, IInv, TypeOK, LeastFreePid, Untouched, Steady, cpuVars, waitVars

LEMMA KillSteady ==
  ASSUME IInv, NEW r \in Pids, KillProcess(r)
  PROVE  /\ Alive(r) /\ r \notin Unkillable
         /\ status'[r] \in {"ZOMBIE", "NONE"}
         /\ Inherits(parent[r], r) => status'[r] = "ZOMBIE" /\ parent'[r] = parent[r]
                                       /\ foreground'[r] = foreground[r]
         /\ \A p \in Pids \ {r} :
              /\ status[p] # "ZOMBIE" /\ p # parent[r] => Untouched(p)
              /\ Alive(p) => /\ status'[p] \notin {"NONE", "ZOMBIE"}
                             /\ parent'[p] = parent[p] /\ foreground'[p] = foreground[p]
              /\ status[p] = "ZOMBIE" /\ parent[p] # r => Steady(p)
              /\ status[p] = "ZOMBIE" => status'[p] = "NONE" \/ Steady(p)
         /\ waiting' = waiting \ {r}
         /\ control' \in {"switch", "user"}
         /\ UNCHANGED <<currentPid, shouldKillForeground>>
<1>. DEFINE q == parent[r]
            dead == zombieChildren[r] \cup (IF Inherits(q, r) THEN {} ELSE {r})
            st == [x \in Pids |-> IF x = r THEN "ZOMBIE"
                                  ELSE IF WakesParent(q, r) /\ x = q THEN "READY"
                                  ELSE status[x]]
            pr == [x \in Pids |-> IF WakesParent(q, r) /\ x = q THEN MAX_PRIORITY
                                  ELSE priority[x]]
<1>1. /\ Alive(r) /\ r \notin Unkillable /\ status' = Clear(st, dead, "NONE")
      /\ priority' = Clear(pr, dead, 0)
      /\ parent' = Clear(parent, dead, IDLE_PID)
         /\ foreground' = Clear(foreground, dead, FALSE)
  BY DEF KillProcess, DestroyZombies
<1>2. \A x \in zombieChildren[r] : x \in Pids /\ status[x] = "ZOMBIE" /\ parent[x] = r
  BY DEF IInv, ZombiesReachable, TypeOK
<1>3. r \notin zombieChildren[r]
  BY <1>1, <1>2 DEF Alive
<1>4. status'[r] \in {"ZOMBIE", "NONE"}
  BY <1>1 DEF Clear
<1>5. Inherits(q, r) => status'[r] = "ZOMBIE" /\ parent'[r] = parent[r]
                         /\ foreground'[r] = foreground[r]
  BY <1>1, <1>3 DEF Clear
<1>6. ASSUME NEW p \in Pids \ {r}, p \notin dead
      PROVE  /\ status'[p] = st[p] /\ parent'[p] = parent[p]
             /\ foreground'[p] = foreground[p] /\ priority'[p] = pr[p]
  BY <1>1, <1>6 DEF Clear
<1>7. WakesParent(q, r) => status[q] = "BLOCKED"
  BY DEF WakesParent
<1>8. ASSUME NEW p \in Pids \ {r}, p \in dead
      PROVE  status[p] = "ZOMBIE" /\ parent[p] = r /\ status'[p] = "NONE"
  BY <1>1, <1>2, <1>8 DEF Clear
<1>9. ASSUME NEW p \in Pids \ {r}
      PROVE  /\ status[p] # "ZOMBIE" /\ p # parent[r] => Untouched(p)
             /\ Alive(p) => /\ status'[p] \notin {"NONE", "ZOMBIE"}
                            /\ parent'[p] = parent[p] /\ foreground'[p] = foreground[p]
             /\ status[p] = "ZOMBIE" /\ parent[p] # r => Steady(p)
             /\ status[p] = "ZOMBIE" => status'[p] = "NONE" \/ Steady(p)
  <2>1. CASE p \in dead
    BY <1>8, <2>1 DEF Alive
  <2>2. CASE p \notin dead
    BY <1>6, <1>7, <2>2 DEF Alive, Untouched, Steady
  <2>. QED  BY <2>1, <2>2
<1>10. /\ waiting' = waiting \ {r} /\ control' \in {"switch", "user"}
       /\ UNCHANGED <<currentPid, shouldKillForeground>>
  BY DEF KillProcess
<1>. QED  BY <1>1, <1>4, <1>5, <1>9, <1>10

LEMMA ReapSteady ==
  ASSUME IInv, NEW child \in Pids, Reap(child)
  PROVE  /\ status'[child] = "NONE"
         /\ \A p \in Pids \ {child} : Untouched(p)
         /\ UNCHANGED <<control, currentPid, shouldKillForeground>>
BY DEF Reap, DestroyZombies, Clear, Untouched, Steady, cpuVars

LEMMA SuspendSteady ==
  ASSUME IInv, SuspendCurrent, UNCHANGED <<parent, priority, foreground>>
  PROVE  /\ Alive(currentPid) /\ status'[currentPid] \notin {"NONE", "ZOMBIE"}
         /\ \A p \in Pids \ {currentPid} : Untouched(p)
<1>1. currentPid \in Pids
  BY DEF IInv, TypeOK
<1>2. status[currentPid] \in {"READY", "RUNNING", "BLOCKED"}
  BY DEF SuspendCurrent, Scheduled
<1>3. \A p \in Pids : \/ status'[p] = status[p]
                      \/ p = currentPid /\ status'[p] = "BLOCKED"
  BY SuspendChanges
<1>4. Alive(currentPid) /\ status'[currentPid] \notin {"NONE", "ZOMBIE"}
  BY <1>1, <1>2, <1>3 DEF Alive
<1>. QED  BY <1>3, <1>4 DEF Untouched, Steady

-----------------------------------------------------------------------------
(* testProcesses and testPrio: idle, the shell, the test and its workers.  *)
TestPid == SHELL_PID + 1
Family ==
  /\ \A p \in Pids : InTable(p) =>
       \/ p \in {IDLE_PID, SHELL_PID}
       \/ label # "prompt" /\ p = TestPid /\ parent[p] = SHELL_PID
       \/ label # "prompt" /\ p > TestPid /\ parent[p] = TestPid /\ ~foreground[p]
  /\ label # "prompt" => Alive(SHELL_PID) /\ TestPid \in Pids
  /\ waiting \subseteq {SHELL_PID}
  /\ control = "kill" => currentPid = TestPid

LEMMA FamilyPids ==
  ASSUME IInv
  PROVE  /\ IDLE_PID \in Pids /\ SHELL_PID \in Pids /\ IDLE_PID # SHELL_PID
         /\ TestPid \notin {IDLE_PID, SHELL_PID}
         /\ currentPid \in Pids
         /\ \A p \in Pids : p \in Nat
BY PidsFinite DEF IInv, TypeOK, IDLE_PID, SHELL_PID, TestPid, Pids

(* Nobody is created.                                                      *)
LEMMA FamilyKept ==
  ASSUME IInv, Family, label' # "prompt" <=> label # "prompt",
         \A p \in Pids : InTable(p)' => /\ InTable(p) /\ parent'[p] = parent[p]
                                        /\ foreground'[p] = foreground[p],
         Alive(SHELL_PID) => Alive(SHELL_PID)',
         waiting' \subseteq waiting \cup {SHELL_PID},
         control' = "kill" => currentPid' = TestPid
  PROVE  Family'
<1>1. Alive(SHELL_PID)' <=> status'[SHELL_PID] \notin {"NONE", "ZOMBIE"}
  BY DEF Alive
<1>. QED  BY <1>1 DEF Family, TestPid

(* The names of TestScheduling's own copy of the scheduler.                *)
LEMMA SchedulingNames ==
  /\ Scheduling!IDLE_PID = IDLE_PID /\ Scheduling!SHELL_PID = SHELL_PID
  /\ Scheduling!TEST_PID = TestPid /\ Scheduling!Pids = Pids /\ Scheduling!Levels = Levels
  /\ Scheduling!MAX_PRIORITY = MAX_PRIORITY /\ Scheduling!Unkillable = Unkillable
  /\ \A p : /\ Scheduling!InTable(p) <=> InTable(p)
            /\ Scheduling!Alive(p) <=> Alive(p)
            /\ Scheduling!Scheduled(p) <=> Scheduled(p)
  /\ \A op : Scheduling!Calls(op) <=> Calls(op)
  /\ Scheduling!UserMode <=> UserMode
  /\ \A what : Scheduling!Crash(what) <=> Crash(what)
  /\ Scheduling!SuspendCurrent <=> SuspendCurrent
  /\ Scheduling!Yielding <=> Yielding
BY DEF Scheduling!TEST_PID, TestPid, Scheduling!IDLE_PID, IDLE_PID, Scheduling!SHELL_PID,
SHELL_PID,
  Scheduling!Pids, Pids, Scheduling!Levels, Levels, Scheduling!MAX_PRIORITY, MAX_PRIORITY, 
  Scheduling!Unkillable, Unkillable, Scheduling!InTable, InTable, Scheduling!Alive, Alive,
  Scheduling!Scheduled, Scheduled, Scheduling!Calls, Calls, Scheduling!UserMode, UserMode,
  Scheduling!Crash, Crash, Scheduling!SuspendCurrent, SuspendCurrent,
  Scheduling!Suspend, Suspend, Scheduling!Yielding, Yielding,
  Scheduling!pcbVars, pcbVars, Scheduling!listVars, listVars, Scheduling!tableVars, tableVars,
  Scheduling!cpuVars, cpuVars, Scheduling!waitVars, waitVars, Scheduling!RemoveNode,
  RemoveNode

LEMMA SchedulingDestroys ==
  \A dead, ns, np, nz :
    Scheduling!DestroyZombies(dead, ns, np, nz) <=> DestroyZombies(dead, ns, np, nz)
<1>1. \A S : Scheduling!Cardinality(S) = Cardinality(S)
  BY DEF Scheduling!Cardinality, Cardinality
<1>2. \A S : Scheduling!Min(S) = Min(S)
  BY DEF Scheduling!Min, Min
<1>3. \A f, dead, v : Scheduling!Clear(f, dead, v) = Clear(f, dead, v)
  BY DEF Scheduling!Clear, Clear, Scheduling!Pids, Pids
<1>. QED
  BY <1>1, <1>2, <1>3, SchedulingNames DEF Scheduling!DestroyZombies, DestroyZombies

LEMMA SchedulingTicks ==
  /\ Scheduling!TimerTick <=> TimerTick
  /\ Scheduling!SoftTick <=> SoftTick
  /\ Scheduling!CtrlC <=> CtrlC
  /\ Scheduling!Yield <=> Yield
BY SchedulingNames DEF Scheduling!TimerTick, TimerTick, Scheduling!SoftTick, SoftTick,
Scheduling!DoSchedule, DoSchedule,
  Scheduling!KeepRunning, KeepRunning, Scheduling!SwitchTo, SwitchTo, Scheduling!GetNextPid,
  GetNextPid,
  Scheduling!NonEmptyFrom, NonEmptyFrom, Scheduling!LevelAt, LevelAt, Scheduling!Rotate,
  Rotate,
  Scheduling!Preempted, Preempted, Scheduling!AppendNode, AppendNode,
  Scheduling!pcbVars, pcbVars, Scheduling!listVars, listVars, Scheduling!tableVars, tableVars,
  Scheduling!cpuVars, cpuVars, Scheduling!waitVars, waitVars, Scheduling!CtrlC, CtrlC,
  Scheduling!Yield, Yield

LEMMA SchedulingCreates ==
  /\ Scheduling!StartShell <=> StartShell
  /\ \A prio, fg : Scheduling!CreateProcess(prio, fg) <=> CreateProcess(prio, fg)
<1>1. \A S : Scheduling!Min(S) = Min(S)
  BY DEF Scheduling!Min, Min
<1>2. \A free, from : Scheduling!NextFree(free, from) = NextFree(free, from)
  BY <1>1 DEF Scheduling!NextFree, NextFree
<1>3. \A prio, fg : Scheduling!Create(prio, fg) <=> Create(prio, fg)
  BY <1>2, SchedulingNames DEF Scheduling!Create, Create, Scheduling!AppendNode, AppendNode,
     Scheduling!cpuVars, cpuVars, Scheduling!waitVars, waitVars
<1>. QED  BY <1>3, SchedulingNames DEF Scheduling!StartShell, StartShell,
     Scheduling!CreateProcess, CreateProcess

LEMMA SchedulingKills ==
  /\ \A p : Scheduling!KillProcess(p) <=> KillProcess(p)
  /\ \A p : Scheduling!Kill(p) <=> Kill(p)
  /\ Scheduling!Exit <=> Exit
  /\ Scheduling!ForegroundKill <=> ForegroundKill
<1>1. \A q, p : /\ Scheduling!Inherits(q, p) <=> Inherits(q, p)
                /\ Scheduling!WakesParent(q, p) <=> WakesParent(q, p)
  BY SchedulingNames DEF Scheduling!Inherits, Inherits, Scheduling!WakesParent, WakesParent
<1>2. \A p : Scheduling!WithoutReady(p) = WithoutReady(p)
  BY DEF Scheduling!WithoutReady, WithoutReady, Scheduling!RemoveNode, RemoveNode
<1>3. \A f, dead, v : Scheduling!Clear(f, dead, v) = Clear(f, dead, v)
  BY DEF Scheduling!Clear, Clear, Scheduling!Pids, Pids
<1>4. ASSUME NEW p PROVE Scheduling!KillProcess(p) <=> KillProcess(p)
  BY <1>1, <1>2, <1>3, SchedulingNames, SchedulingDestroys DEF Scheduling!KillProcess,
  KillProcess, Scheduling!PrependNode, PrependNode
<1>. QED  BY <1>4, SchedulingNames DEF Scheduling!Kill, Kill, Scheduling!Exit, Exit,
     Scheduling!ForegroundKill, ForegroundKill

LEMMA SchedulingCalls ==
  /\ \A p : Scheduling!Block(p) <=> Block(p)
  /\ \A p : Scheduling!Unblock(p) <=> Unblock(p)
  /\ \A p, prio : Scheduling!SetPriority(p, prio) <=> SetPriority(p, prio)
<1>1. \A list, p : Scheduling!RemoveNode(list, p) = RemoveNode(list, p)
  BY DEF Scheduling!RemoveNode, RemoveNode
<1>2. \A p : Scheduling!Suspend(p) <=> Suspend(p)
  BY <1>1 DEF Scheduling!Suspend, Suspend
<1>3. \A p : Scheduling!PermittedUnblock(p) <=> PermittedUnblock(p)
  BY DEF Scheduling!PermittedUnblock, PermittedUnblock, Scheduling!PermittedWake,
  PermittedWake,
         Scheduling!AwaitsExit, AwaitsExit
<1>. QED  BY <1>1, <1>2, <1>3, SchedulingNames
          DEF Scheduling!Block, Block, Scheduling!Unblock, Unblock, Scheduling!SetPriority,
              SetPriority, Scheduling!AppendNode, AppendNode, Scheduling!tableVars, tableVars,
              Scheduling!cpuVars, cpuVars, Scheduling!waitVars, waitVars

LEMMA SchedulingWaits ==
  /\ \A p : Scheduling!WaitPid(p) <=> WaitPid(p)
  /\ Scheduling!WaitReturn <=> WaitReturn
<1>1. \A child : Scheduling!Reap(child) <=> Reap(child)
  BY SchedulingDestroys DEF Scheduling!Reap, Reap, Scheduling!listVars, listVars,
     Scheduling!cpuVars, cpuVars
<1>2. \A f, dead, v : Scheduling!Clear(f, dead, v) = Clear(f, dead, v)
  BY DEF Scheduling!Clear, Clear, Scheduling!Pids, Pids
<1>3. \A p : Scheduling!IsChild(p) <=> IsChild(p)
  BY DEF Scheduling!IsChild, IsChild, Scheduling!InTable, InTable
<1>. QED  BY <1>1, <1>2, <1>3, SchedulingNames
          DEF Scheduling!WaitPid, WaitPid, Scheduling!WaitReturn, WaitReturn,
              Scheduling!tableVars, tableVars, Scheduling!waitVars, waitVars

LEMMA SchedulingInit == Scheduling!Init <=> Init
BY DEF Scheduling!Init, Init, Scheduling!Pids, Pids, Scheduling!Levels, Levels,
       Scheduling!IDLE_PID, IDLE_PID

-----------------------------------------------------------------------------
(* testProcesses                                                           *)
Requests == 0 .. TOTAL_PROCESSES - 1
ProcTypeOK ==
  /\ label \in {"prompt", "create", "kill", "reap", "unblock"}
  /\ rq \in Requests
  /\ p_rqs \in [Requests -> [pid : Pids, state : {"RUNNING", "BLOCKED", "KILLED"}]]

(* Every worker in the table has its record, which says how it is; what    *)
(* was killed last is there until it is reaped.                            *)
TestInTable == label # "prompt" /\ InTable(TestPid)
TestLives == label # "prompt" /\ Alive(TestPid)
Live(r) == p_rqs[r].state # "KILLED"
Records ==
  /\ label = "prompt" => rq = 0 /\ \A r \in Requests : ~Live(r)
  /\ TestInTable =>
       /\ \A r \in Requests :
            /\ p_rqs[r].state = "RUNNING" => Scheduled(p_rqs[r].pid)
            /\ p_rqs[r].state = "BLOCKED" => status[p_rqs[r].pid] = "BLOCKED"
            /\ Live(r) => p_rqs[r].pid > TestPid
       /\ \A r, s \in Requests :
            Live(r) /\ Live(s) /\ p_rqs[r].pid = p_rqs[s].pid => r = s
       /\ \A p \in Pids : InTable(p) /\ p > TestPid =>
            \E r \in Requests : /\ p_rqs[r].pid = p
                                /\ Live(r) \/ (label = "reap" /\ r = rq)
       /\ label = "create" => \A r \in Requests : r >= rq => ~Live(r)
  /\ TestLives /\ label = "reap" =>
       ~Live(rq) /\ status[p_rqs[rq].pid] = "ZOMBIE" /\ p_rqs[rq].pid > TestPid

ProcInv == IInv /\ RunInv /\ (fault = "none" => Family /\ ProcTypeOK /\ Records)
ProcAlone == ProcInv /\ fault = "none" /\ IInv'
ProcKept == fault' = "none" => Family' /\ ProcTypeOK' /\ Records'

LEMMA RecordsKept ==
  ASSUME ProcAlone, UNCHANGED schedulingVars,
         TestInTable' => TestInTable /\ \A p \in Pids : p > TestPid =>
              /\ InTable(p)' => InTable(p)
              /\ Scheduled(p) => Scheduled(p)'
              /\ status[p] = "BLOCKED" => status'[p] = "BLOCKED",
         TestLives' => TestLives /\ \A p \in Pids :
              p > TestPid /\ status[p] = "ZOMBIE" => status'[p] = "ZOMBIE"
  PROVE  ProcTypeOK' /\ Records'
<1>1. ProcTypeOK /\ Records
  BY DEF ProcAlone, ProcInv
<1>2. UNCHANGED <<label, rq, p_rqs>>
  BY DEF schedulingVars
<1>3. ProcTypeOK' /\ \A r \in Requests : p_rqs[r].pid \in Pids
  BY <1>1, <1>2 DEF ProcTypeOK
<1>4. rq \in Requests
  BY <1>1 DEF ProcTypeOK
<1>5. /\ label' = "prompt" => rq' = 0 /\ \A r \in Requests : ~Live(r)'
      /\ \A r \in Requests : Live(r)' <=> Live(r)
  BY <1>1, <1>2 DEF Records, Live
<1>6. TestInTable' =>
       /\ \A r \in Requests :
            /\ p_rqs'[r].state = "RUNNING" => Scheduled(p_rqs[r].pid)'
            /\ p_rqs'[r].state = "BLOCKED" => status'[p_rqs'[r].pid] = "BLOCKED"
            /\ Live(r)' => p_rqs'[r].pid > TestPid
       /\ \A r, s \in Requests :
            Live(r)' /\ Live(s)' /\ p_rqs'[r].pid = p_rqs'[s].pid => r = s
  BY <1>1, <1>2, <1>3, <1>5 DEF Records, Scheduled, Live
<1>7. TestInTable' =>
       /\ \A p \in Pids : InTable(p)' /\ p > TestPid =>
            \E r \in Requests : /\ p_rqs'[r].pid = p
                                /\ Live(r)' \/ (label' = "reap" /\ r = rq')
       /\ label' = "create" => \A r \in Requests : r >= rq' => ~Live(r)'
  BY <1>1, <1>2, <1>5 DEF Records
<1>8. TestLives' /\ label' = "reap" =>
       /\ ~Live(rq)' /\ status'[p_rqs'[rq'].pid] = "ZOMBIE" /\ p_rqs'[rq'].pid > TestPid
  BY <1>1, <1>2, <1>3, <1>4 DEF Records, Live
<1>9. TestPid' = TestPid /\ Requests' = Requests
  BY DEF TestPid, Requests
<1>. QED  BY <1>3, <1>5, <1>6, <1>7, <1>8, <1>9 DEF Records

LEMMA ProcSteady ==
  ASSUME ProcAlone, \A p \in Pids : Steady(p), waiting' \subseteq waiting,
         control' = "kill" => currentPid' = TestPid, UNCHANGED schedulingVars
  PROVE  ProcKept
<1>1. IInv /\ IInv' /\ Family
  BY DEF ProcAlone, ProcInv
<1>2. \A p \in Pids : /\ InTable(p)' <=> InTable(p)
                      /\ Alive(p)' <=> Alive(p)
                      /\ Scheduled(p)' <=> Scheduled(p)
                      /\ parent'[p] = parent[p] /\ foreground'[p] = foreground[p]
                      /\ status'[p] = "BLOCKED" <=> status[p] = "BLOCKED"
                      /\ status'[p] = "ZOMBIE" <=> status[p] = "ZOMBIE"
  BY <1>1, SteadyIs DEF Steady
<1>3. SHELL_PID \in Pids
  BY <1>1, FamilyPids
<1>4. label' = label
  BY DEF schedulingVars
<1>5. Family'
  BY <1>1, <1>2, <1>3, <1>4, FamilyKept
<1>6. (TestInTable' <=> TestInTable) /\ (TestLives' <=> TestLives)
  <2>1. label # "prompt" => TestPid \in Pids
    BY <1>1 DEF Family
  <2>. QED  BY <1>2, <1>4, <2>1 DEF TestInTable, TestLives, InTable, Alive
<1>7. ProcTypeOK' /\ Records'
  BY <1>2, <1>6, RecordsKept
<1>. QED  BY <1>5, <1>7 DEF ProcKept

LEMMA ProcTickKept ==
  ASSUME ProcAlone, DoSchedule, UNCHANGED schedulingVars
  PROVE  ProcKept
<1>1. IInv /\ Family
  BY DEF ProcAlone, ProcInv
<1>2. \A p \in Pids : Steady(p)
  BY <1>1, ScheduleSteady DEF Untouched
<1>3. control' = "kill" => currentPid' = TestPid
  BY <1>1, ScheduleSteady DEF Family, Scheduled, InTable, Unkillable
<1>. QED  BY <1>1, <1>2, <1>3, ScheduleSteady, ProcSteady

LEMMA ProcYieldKept ==
  ASSUME ProcAlone, Yield \/ CtrlC, UNCHANGED schedulingVars
  PROVE  ProcKept
<1>1. UNCHANGED pcbVars /\ UNCHANGED waiting /\ control' = "switch"
  BY DEF Yield, CtrlC, Yielding, waitVars
<1>2. \A p \in Pids : Steady(p)
  BY <1>1 DEF pcbVars, Steady
<1>. QED  BY <1>1, <1>2, ProcSteady

LEMMA TestIs ==
  ASSUME IInv, Family, InTable(TestPid), TestPid \in Pids
  PROVE  /\ label # "prompt" /\ parent[TestPid] = SHELL_PID
         /\ Alive(SHELL_PID) /\ SHELL_PID \in Pids
BY FamilyPids DEF Family

(* The test is killed.                                                     *)
LEMMA TestDies ==
  ASSUME IInv, IInv', Family, TestPid \in Pids, KillProcess(TestPid),
         label' # "prompt" <=> label # "prompt"
  PROVE  /\ Family' /\ label # "prompt" /\ InTable(TestPid) /\ status'[TestPid] = "ZOMBIE"
         /\ control' # "kill"
         /\ \A p \in Pids : p > TestPid =>
              /\ InTable(p)' => InTable(p)
              /\ Alive(p) => Untouched(p)
<1>1. Alive(TestPid) /\ InTable(TestPid)
  BY KillSteady DEF Alive, InTable
<1>2. label # "prompt" /\ parent[TestPid] = SHELL_PID /\ Alive(SHELL_PID)
      /\ SHELL_PID \in Pids
      /\ SHELL_PID # TestPid
  BY <1>1, TestIs, FamilyPids
<1>3. Inherits(SHELL_PID, TestPid)
  BY <1>2 DEF Inherits, IInv, ZombiesReachable, Alive
<1>4. status'[TestPid] = "ZOMBIE" /\ parent'[TestPid] = parent[TestPid]
      /\ foreground'[TestPid] = foreground[TestPid]
  BY <1>2, <1>3, KillSteady
<1>5. \A p \in Pids \ {TestPid} :
         /\ status[p] # "ZOMBIE" /\ p # SHELL_PID => Untouched(p)
         /\ Alive(p) => /\ status'[p] \notin {"NONE", "ZOMBIE"}
                        /\ parent'[p] = parent[p] /\ foreground'[p] = foreground[p]
         /\ status[p] = "ZOMBIE" => status'[p] = "NONE" \/ Steady(p)
  BY <1>2, KillSteady
<1>6. \A p \in Pids : InTable(p)' => /\ InTable(p) /\ parent'[p] = parent[p]
                                     /\ foreground'[p] = foreground[p]
  BY <1>1, <1>2, <1>4, <1>5 DEF InTable, Alive, Untouched, Steady
<1>7. Alive(SHELL_PID)'
  BY <1>2, <1>5 DEF Alive
<1>8. waiting' \subseteq waiting /\ control' # "kill"
  BY KillSteady
<1>9. Family'
  BY <1>6, <1>7, <1>8, FamilyKept
<1>10. \A p : p > TestPid => p # TestPid /\ p # SHELL_PID
  BY DEF TestPid, SHELL_PID
<1>. QED  BY <1>1, <1>2, <1>4, <1>5, <1>6, <1>8, <1>9, <1>10 DEF Alive

(* The shell takes its child, which is the test, out of the table.         *)
LEMMA TestReaped ==
  ASSUME IInv, IInv', Family, NEW child \in Pids, Reap(child), status[child] = "ZOMBIE",
         parent[child] = SHELL_PID, Alive(SHELL_PID), waiting' \subseteq waiting,
         label' # "prompt" <=> label # "prompt"
  PROVE  /\ Family' /\ status'[TestPid] = "NONE" /\ status[TestPid] = "ZOMBIE"
         /\ \A p \in Pids \ {TestPid} : Untouched(p)
         /\ UNCHANGED <<control, shouldKillForeground>>
<1>1. SHELL_PID \in Pids /\ SHELL_PID # TestPid
  BY FamilyPids
<1>2. child = TestPid
  <2>1. InTable(child) /\ child # SHELL_PID
    BY DEF InTable, Alive
  <2>2. child # IDLE_PID
    BY DEF IInv, IdleScheduled, Scheduled
  <2>. QED  BY <1>1, <2>1, <2>2 DEF Family
<1>3. /\ status'[TestPid] = "NONE"
      /\ \A p \in Pids \ {TestPid} : Untouched(p)
      /\ UNCHANGED <<control, currentPid, shouldKillForeground>>
  BY <1>2, ReapSteady
<1>4. \A p \in Pids : InTable(p)' => /\ InTable(p) /\ parent'[p] = parent[p]
                                     /\ foreground'[p] = foreground[p]
  BY <1>3 DEF InTable, Untouched, Steady
<1>5. Alive(SHELL_PID)'
  BY <1>1, <1>3 DEF Alive, Untouched, Steady
<1>6. control' = "kill" => currentPid' = TestPid
  BY <1>3 DEF Family
<1>7. Family'
  BY <1>4, <1>5, <1>6, FamilyKept
<1>. QED  BY <1>2, <1>3, <1>7

LEMMA ShellReturns ==
  ASSUME IInv, IInv', RunInv, Family, WaitReturn, fault' = "none",
         label' # "prompt" <=> label # "prompt"
  PROVE  /\ Family' /\ status'[TestPid] = "NONE" /\ status[TestPid] = "ZOMBIE"
         /\ \A p \in Pids \ {TestPid} : Untouched(p)
         /\ UNCHANGED <<control, shouldKillForeground>>
<1>. DEFINE child == targetWaitPid[currentPid]
<1>1. currentPid = SHELL_PID /\ Alive(SHELL_PID) /\ SHELL_PID \in Pids
  BY FamilyPids DEF WaitReturn, Family, RunInv, RunningIsCurrent
<1>2. child \in zombieChildren[currentPid] /\ waiting' = waiting \ {currentPid} /\ Reap(child)
  BY DEF WaitReturn, Crash
<1>3. child \in Pids /\ status[child] = "ZOMBIE" /\ parent[child] = SHELL_PID
  BY <1>1, <1>2 DEF IInv, TypeOK, ZombiesReachable
<1>. QED  BY <1>1, <1>2, <1>3, TestReaped

(* Idle creates the shell.                                                 *)
LEMMA ShellStarts ==
  ASSUME IInv, IInv', Family, StartShell, fault' = "none",
         label' # "prompt" <=> label # "prompt"
  PROVE  /\ Family' /\ label = "prompt"
         /\ UNCHANGED <<control, shouldKillForeground>>
<1>1. /\ ~InTable(SHELL_PID) /\ Create(0, TRUE)
      /\ IDLE_PID \in Pids /\ SHELL_PID \in Pids /\ SHELL_PID # TestPid
  BY FamilyPids DEF StartShell
<1>2. label = "prompt"
  BY <1>1 DEF Family, Alive, InTable
<1>3. nextAvailablePid = SHELL_PID
  BY <1>1 DEF IInv, LeastFreePid, IdleScheduled, Scheduled, InTable, TypeOK, Pids, SHELL_PID,
              IDLE_PID
<1>4. /\ status'[SHELL_PID] = "READY"
      /\ \A p \in Pids \ {SHELL_PID} : Untouched(p)
      /\ UNCHANGED <<control, currentPid, waiting, shouldKillForeground>>
  BY <1>1, <1>3, CreateSteady
<1>5. Family'
  BY <1>1, <1>2, <1>4 DEF Family, Untouched, Steady, InTable
<1>. QED  BY <1>2, <1>4, <1>5

(* The shell waits for the test, again and again.                          *)
LEMMA ShellWaits ==
  ASSUME IInv, IInv', RunInv, Family, UserMode, currentPid = SHELL_PID, WaitPid(TestPid),
         label # "prompt", label' # "prompt"
  PROVE  /\ Family' /\ control' # "kill" /\ UNCHANGED shouldKillForeground
         /\ \/ /\ status[TestPid] = "ZOMBIE" /\ status'[TestPid] = "NONE"
               /\ \A p \in Pids \ {TestPid} : Untouched(p)
            \/ \A p \in Pids \ {SHELL_PID} : Untouched(p)
<1>1. /\ Alive(SHELL_PID) /\ SHELL_PID \in Pids /\ TestPid \in Pids
      /\ parent[TestPid] = SHELL_PID /\ control = "user"
  BY FamilyPids DEF Family, WaitPid, IsChild, UserMode
<1>2. CASE status[TestPid] = "ZOMBIE" /\ Reap(TestPid) /\ UNCHANGED waitVars
  BY <1>1, <1>2, TestReaped DEF waitVars
<1>3. CASE /\ SuspendCurrent /\ Yielding /\ waiting' = waiting \cup {currentPid}
           /\ UNCHANGED <<parent, priority, foreground, shouldKillForeground>>
  <2>1. /\ status'[SHELL_PID] \notin {"NONE", "ZOMBIE"}
        /\ \A p \in Pids \ {SHELL_PID} : Untouched(p)
    BY <1>1, <1>3, SuspendSteady
  <2>2. \A p \in Pids : InTable(p)' => /\ InTable(p) /\ parent'[p] = parent[p]
                                       /\ foreground'[p] = foreground[p]
    BY <1>1, <1>3, <2>1 DEF InTable, Alive, Untouched, Steady
  <2>3. Alive(SHELL_PID)' /\ control' # "kill"
    BY <1>3, <2>1 DEF Alive, Yielding
  <2>4. Family'
    BY <1>1, <1>3, <2>2, <2>3, FamilyKept
  <2>. QED  BY <1>3, <2>1, <2>3, <2>4
<1>. QED  BY <1>2, <1>3 DEF WaitPid

(* A worker is killed by the test.                                         *)
LEMMA WorkerDies ==
  ASSUME IInv, IInv', Family, TestPid \in Pids, Alive(TestPid), NEW pid \in Pids,
         pid > TestPid, KillProcess(pid), label' # "prompt"
  PROVE  /\ Family' /\ status'[pid] = "ZOMBIE" /\ control' # "kill"
         /\ UNCHANGED shouldKillForeground /\ Alive(TestPid)'
         /\ \A p \in Pids \ {pid} : p > TestPid => Steady(p) /\ (Alive(p) => Untouched(p))
<1>1. /\ Alive(pid) /\ InTable(pid) /\ label # "prompt" /\ parent[pid] = TestPid
      /\ pid \notin {IDLE_PID, SHELL_PID, TestPid}
      /\ Alive(SHELL_PID) /\ SHELL_PID \in Pids
      /\ \A p \in Pids : InTable(p) /\ p > TestPid => parent[p] = TestPid
  <2>1. \A p : p > TestPid => p \notin {IDLE_PID, SHELL_PID, TestPid}
    BY DEF IDLE_PID, SHELL_PID, TestPid
  <2>2. Alive(pid) /\ InTable(pid)
    BY KillSteady DEF Alive, InTable
  <2>. QED  BY <2>1, <2>2, FamilyPids DEF Family
<1>2. Inherits(parent[pid], pid)
  BY <1>1 DEF Inherits, IInv, ZombiesReachable, Alive
<1>3. /\ status'[pid] = "ZOMBIE" /\ parent'[pid] = parent[pid]
      /\ foreground'[pid] = foreground[pid]
      /\ \A p \in Pids \ {pid} :
              /\ status[p] # "ZOMBIE" /\ p # TestPid => Untouched(p)
              /\ Alive(p) => /\ status'[p] \notin {"NONE", "ZOMBIE"}
                             /\ parent'[p] = parent[p] /\ foreground'[p] = foreground[p]
              /\ status[p] = "ZOMBIE" /\ parent[p] # pid => Steady(p)
              /\ status[p] = "ZOMBIE" => status'[p] = "NONE" \/ Steady(p)
      /\ waiting' \subseteq waiting /\ control' # "kill" /\ UNCHANGED shouldKillForeground
  BY <1>1, <1>2, KillSteady
<1>4. ASSUME NEW p \in Pids, InTable(p)'
      PROVE  InTable(p) /\ parent'[p] = parent[p] /\ foreground'[p] = foreground[p]
  <2>1. CASE p = pid
    BY <1>1, <1>3, <2>1
  <2>2. CASE p # pid /\ status[p] = "ZOMBIE"
    BY <1>3, <1>4, <2>2 DEF InTable, Steady
  <2>3. CASE p # pid /\ status[p] # "ZOMBIE" /\ p # TestPid
    BY <1>3, <1>4, <2>3 DEF InTable, Untouched, Steady
  <2>4. CASE p = TestPid
    BY <1>1, <1>3, <2>4 DEF InTable, Alive
  <2>. QED  BY <2>1, <2>2, <2>3, <2>4
<1>5. Alive(SHELL_PID)' /\ Alive(TestPid)'
  BY <1>1, <1>3 DEF Alive
<1>6. Family'
  BY <1>1, <1>3, <1>4, <1>5, FamilyKept
<1>7. ASSUME NEW p \in Pids \ {pid}, p > TestPid
      PROVE  Steady(p) /\ (Alive(p) => Untouched(p))
  <2>1. p # TestPid
    BY <1>7 DEF TestPid, SHELL_PID
  <2>2. status[p] = "ZOMBIE" => parent[p] # pid
    BY <1>1, <1>7 DEF InTable
  <2>. QED  BY <1>3, <2>1, <2>2 DEF Untouched, Alive
<1>. QED  BY <1>3, <1>5, <1>6, <1>7

LEMMA ProcKillKept ==
  ASSUME ProcAlone, ForegroundKill, UNCHANGED schedulingVars
  PROVE  ProcKept
<1>1. /\ IInv /\ IInv' /\ Family /\ currentPid = TestPid /\ TestPid \in Pids
      /\ KillProcess(TestPid) /\ label' = label
  BY DEF ProcAlone, ProcInv, Family, ForegroundKill, IInv, TypeOK, schedulingVars
<1>2. /\ Family' /\ label # "prompt" /\ InTable(TestPid) /\ status'[TestPid] = "ZOMBIE"
      /\ \A p \in Pids : p > TestPid =>
              /\ InTable(p)' => InTable(p)
              /\ Alive(p) => Steady(p)
  BY <1>1, TestDies DEF Untouched
<1>3. ~TestLives' /\ TestInTable
  BY <1>2 DEF TestLives, TestInTable, Alive
<1>4. ASSUME NEW p \in Pids, p > TestPid
      PROVE  /\ Scheduled(p) => Scheduled(p)'
             /\ status[p] = "BLOCKED" => status'[p] = "BLOCKED"
  <2>. SUFFICES ASSUME Alive(p) PROVE (Scheduled(p) <=> Scheduled(p)')
                                      /\ (status[p] = "BLOCKED" => status'[p] = "BLOCKED")
    BY DEF Alive, Scheduled
  <2>1. Steady(p)
    BY <1>2, <1>4
  <2>. QED  BY <1>1, <2>1, SteadyIs DEF Steady
<1>5. ProcTypeOK' /\ Records'
  BY <1>2, <1>3, <1>4, RecordsKept
<1>. QED  BY <1>2, <1>5 DEF ProcKept

(* The test is out of the table: what the records say concerns nobody.     *)
LEMMA ProcWaitReturnKept ==
  ASSUME ProcAlone, WaitReturn, UNCHANGED schedulingVars
  PROVE  ProcKept
<1>. SUFFICES ASSUME fault' = "none" PROVE ProcKept
  BY DEF ProcKept
<1>1. Family' /\ status'[TestPid] = "NONE"
  BY ShellReturns DEF ProcAlone, ProcInv, schedulingVars
<1>2. ~TestInTable' /\ ~TestLives'
  BY <1>1 DEF TestInTable, TestLives, InTable, Alive
<1>. QED  BY <1>1, <1>2, RecordsKept DEF ProcKept

LEMMA ProcStartKept ==
  ASSUME ProcAlone, StartShell, UNCHANGED schedulingVars
  PROVE  ProcKept
<1>. SUFFICES ASSUME fault' = "none" PROVE ProcKept
  BY DEF ProcKept
<1>1. Family' /\ label' = "prompt"
  BY ShellStarts DEF ProcAlone, ProcInv, schedulingVars
<1>2. ~TestInTable' /\ ~TestLives'
  BY <1>1 DEF TestInTable, TestLives
<1>. QED  BY <1>1, <1>2, RecordsKept DEF ProcKept

(* readCommand starts the test.                                            *)
LEMMA TestStarts ==
  ASSUME IInv, RunInv, Family, UserMode, currentPid = SHELL_PID, label = "prompt",
         CreateProcess(1, TRUE), label' = "create", fault' = "none"
  PROVE  /\ Family'
         /\ \A p \in Pids : InTable(p)' => p \in {IDLE_PID, SHELL_PID, TestPid}
<1>1. /\ IDLE_PID \in Pids /\ SHELL_PID \in Pids /\ SHELL_PID # TestPid /\ IDLE_PID # TestPid
      /\ \A p \in Pids : p \in Nat
      /\ InTable(IDLE_PID) /\ Alive(SHELL_PID) /\ InTable(SHELL_PID) /\ Create(1, TRUE)
  BY FamilyPids DEF RunInv, RunningIsCurrent, UserMode, IInv, IdleScheduled, Scheduled,
  InTable,
                    Alive, CreateProcess
<1>2. nextAvailablePid \in Pids /\ ~InTable(nextAvailablePid)
  BY <1>1, CreateSteady
<1>3. nextAvailablePid = TestPid
  <2>1. nextAvailablePid \in Nat /\ nextAvailablePid \notin {IDLE_PID, SHELL_PID}
    BY <1>1, <1>2
  <2>2. nextAvailablePid >= TestPid
    BY <2>1 DEF IDLE_PID, SHELL_PID, TestPid
  <2>3. ASSUME nextAvailablePid > TestPid PROVE FALSE
    <3>1. TestPid \in Pids
      BY <1>2, <2>1, <2>3, SizeAssumption DEF TestPid, SHELL_PID, Pids
    <3>2. InTable(TestPid)
      BY <2>3, <3>1 DEF IInv, LeastFreePid
    <3>. QED  BY <1>1, <3>1, <3>2 DEF Family
  <2>. QED  BY <2>1, <2>2, <2>3 DEF TestPid, SHELL_PID
<1>4. /\ TestPid \in Pids /\ parent'[TestPid] = SHELL_PID
      /\ \A p \in Pids \ {TestPid} : Untouched(p)
      /\ UNCHANGED <<control, currentPid, waiting>>
  BY <1>1, <1>3, CreateSteady
<1>5. \A p \in Pids : InTable(p)' => p \in {IDLE_PID, SHELL_PID, TestPid}
  BY <1>4 DEF Family, InTable, Untouched, Steady
<1>6. Alive(SHELL_PID)'
  BY <1>1, <1>4 DEF Alive, Untouched, Steady
<1>7. \A p \in Pids : InTable(p)' => p \in {IDLE_PID, SHELL_PID} \/ (p = TestPid
      /\ parent'[p] = SHELL_PID)
  BY <1>4, <1>5
<1>8. waiting' \subseteq {SHELL_PID} /\ (control' = "kill" => currentPid' = TestPid)
  BY <1>4 DEF Family
<1>9. TestPid' = TestPid
  BY DEF TestPid
<1>. QED  BY <1>4, <1>5, <1>6, <1>7, <1>8, <1>9 DEF Family

LEMMA ProcStartTestKept ==
  ASSUME ProcAlone, UserMode, currentPid = SHELL_PID, label = "prompt",
         CreateProcess(1, TRUE), label' = "create", UNCHANGED <<rq, p_rqs>>
  PROVE  ProcKept
<1>. SUFFICES ASSUME fault' = "none" PROVE ProcKept
  BY DEF ProcKept
<1>1. ProcTypeOK /\ Records
  BY DEF ProcAlone, ProcInv
<1>2. /\ Family'
      /\ \A p \in Pids : InTable(p)' => p \in {IDLE_PID, SHELL_PID, TestPid}
  BY TestStarts DEF ProcAlone, ProcInv
<1>3. ProcTypeOK'
  BY <1>1 DEF ProcTypeOK
<1>4. rq' = 0 /\ \A r \in Requests : ~Live(r)' /\ p_rqs'[r].state = "KILLED"
  BY <1>1 DEF Records, Live
<1>5. \A p \in Pids : ~(InTable(p)' /\ p > TestPid)
  BY <1>2 DEF IDLE_PID, SHELL_PID, TestPid
<1>6. Records'
  BY <1>4, <1>5 DEF Records, TestPid
<1>. QED  BY <1>2, <1>3, <1>6 DEF ProcKept

LEMMA ProcShellWaitKept ==
  ASSUME ProcAlone, UserMode, currentPid = SHELL_PID, label # "prompt",
         WaitPid(TestPid), UNCHANGED schedulingVars
  PROVE  ProcKept
<1>1. /\ IInv /\ IInv' /\ RunInv /\ Family /\ label' = label /\ SHELL_PID # TestPid
      /\ TestPid \in Pids
  BY FamilyPids DEF ProcAlone, ProcInv, Family, schedulingVars
<1>2. Family' /\ \/ status'[TestPid] = "NONE"
                 \/ \A p \in Pids \ {SHELL_PID} : Steady(p)
  BY <1>1, ShellWaits DEF Untouched
<1>3. CASE status'[TestPid] = "NONE"
  <2>1. ~TestInTable' /\ ~TestLives'
    BY <1>3 DEF TestInTable, TestLives, InTable, Alive
  <2>. QED  BY <1>2, <2>1, RecordsKept DEF ProcKept
<1>4. CASE \A p \in Pids \ {SHELL_PID} : Steady(p)
  <2>1. \A p \in Pids \ {SHELL_PID} :
          /\ InTable(p)' <=> InTable(p)
          /\ Alive(p)' <=> Alive(p)
          /\ Scheduled(p)' <=> Scheduled(p)
          /\ status'[p] = "BLOCKED" <=> status[p] = "BLOCKED"
          /\ status'[p] = "ZOMBIE" <=> status[p] = "ZOMBIE"
    BY <1>1, <1>4, SteadyIs DEF Steady
  <2>2. (TestInTable' <=> TestInTable) /\ (TestLives' <=> TestLives)
    BY <1>1, <2>1 DEF TestInTable, TestLives, InTable, Alive
  <2>3. \A p \in Pids : p > TestPid => p # SHELL_PID
    BY DEF TestPid, SHELL_PID
  <2>4. ProcTypeOK' /\ Records'
    BY <2>1, <2>2, <2>3, RecordsKept
  <2>. QED  BY <1>2, <2>4 DEF ProcKept
<1>. QED  BY <1>2, <1>3, <1>4

-----------------------------------------------------------------------------
(* The calls of test_processes                                             *)
LEMMA AdvanceIs ==
  ASSUME rq \in Requests, NEW loop, NEW after, Scheduling!Advance(loop, after)
  PROVE  /\ rq' \in Requests
         /\ \/ rq' = 0 /\ label' = after
            \/ rq' = rq + 1 /\ rq' # 0 /\ label' = loop
<1>1. TOTAL_PROCESSES \in Nat \ {0}
  BY UserTestsAssumption DEF Scheduling!TestSchedulingAssumption
<1>2. rq' = (rq + 1) % TOTAL_PROCESSES /\ rq \in Nat /\ rq < TOTAL_PROCESSES
  BY <1>1 DEF Scheduling!Advance, Requests
<1>3. rq + 1 = TOTAL_PROCESSES => rq' = 0
  BY <1>1, <1>2
<1>4. rq + 1 < TOTAL_PROCESSES => rq' = rq + 1
  BY <1>1, <1>2
<1>. QED  BY <1>1, <1>2, <1>3, <1>4 DEF Scheduling!Advance, Requests

LEMMA TestRuns ==
  ASSUME ProcAlone, UserMode, currentPid = TestPid
  PROVE  /\ IInv /\ IInv' /\ RunInv /\ Family /\ ProcTypeOK /\ Records
         /\ TestPid \in Pids /\ SHELL_PID \in Pids /\ IDLE_PID \in Pids
         /\ Alive(TestPid) /\ InTable(TestPid) /\ label # "prompt"
         /\ TestInTable /\ TestLives /\ Alive(SHELL_PID)
         /\ TestPid \notin {IDLE_PID, SHELL_PID} /\ control = "user"
<1>1. IInv /\ IInv' /\ RunInv /\ Family /\ ProcTypeOK /\ Records /\ control = "user"
  BY DEF ProcAlone, ProcInv, UserMode
<1>2. TestPid \in Pids /\ Alive(TestPid) /\ InTable(TestPid)
  BY <1>1 DEF IInv, TypeOK, RunInv, RunningIsCurrent, Alive, InTable
<1>3. label # "prompt" /\ Alive(SHELL_PID)
  BY <1>1, <1>2, TestIs
<1>. QED  BY <1>1, <1>2, <1>3, FamilyPids DEF TestInTable, TestLives

(* A call that moves one worker between the ready levels and the blocked.  *)
LEMMA ProcPassKept ==
  ASSUME ProcAlone, UserMode, currentPid = TestPid, UNCHANGED <<vars, p_rqs>>,
         label \in {"kill", "unblock"},
         \/ Scheduling!Advance("kill", "unblock")
         \/ /\ label = "unblock"
            /\ Scheduling!Advance("unblock",
                    IF Scheduling!NoneAlive THEN "create" ELSE "kill")
  PROVE  ProcKept
<1>1. /\ IInv /\ Family /\ ProcTypeOK /\ Records /\ TestInTable /\ TestLives
      /\ label # "prompt"
  BY TestRuns
<1>2. rq \in Requests
  BY <1>1 DEF ProcTypeOK
<1>3. /\ rq' \in Requests /\ label' \in {"kill", "unblock", "create"}
      /\ label' = "create" => Scheduling!NoneAlive
  BY <1>2, AdvanceIs
<1>4. Scheduling!NoneAlive => \A r \in Requests : ~Live(r)
  BY DEF Scheduling!NoneAlive, Scheduling!AllRequests, Scheduling!Requests, Requests, Live
<1>5. UNCHANGED <<status, parent, foreground, waiting, control, currentPid>>
  BY DEF vars, pcbVars, cpuVars, waitVars
<1>6. Family'
  BY <1>1, <1>3, <1>5 DEF Family, InTable, Alive, TestPid
<1>7. ProcTypeOK'
  BY <1>1, <1>3 DEF ProcTypeOK
<1>8. \A r \in Requests : Live(r)' <=> Live(r)
  BY DEF Live
<1>9. Records'
  BY <1>1, <1>3, <1>4, <1>5, <1>8 DEF Records, TestInTable, TestLives, InTable, Alive,
  Scheduled, TestPid, Requests
<1>. QED  BY <1>6, <1>7, <1>9 DEF ProcKept

LEMMA WorkerCreated ==
  ASSUME IInv, Family, InTable(TestPid), TestPid \in Pids, currentPid = TestPid, NEW prio,
         CreateProcess(prio, FALSE), label' # "prompt", fault' = "none"
  PROVE  /\ Family'
         /\ nextAvailablePid \in Pids /\ nextAvailablePid > TestPid
         /\ ~InTable(nextAvailablePid) /\ status'[nextAvailablePid] = "READY"
         /\ \A p \in Pids \ {nextAvailablePid} : Untouched(p)
<1>1. /\ IDLE_PID \in Pids /\ SHELL_PID \in Pids /\ \A p \in Pids : p \in Nat
      /\ InTable(IDLE_PID) /\ Alive(SHELL_PID) /\ InTable(SHELL_PID)
      /\ Create(prio, FALSE) /\ label # "prompt"
  BY FamilyPids, TestIs DEF IInv, IdleScheduled, Scheduled, InTable, Alive, CreateProcess
<1>2. /\ nextAvailablePid \in Pids /\ ~InTable(nextAvailablePid)
      /\ status'[nextAvailablePid] = "READY" /\ parent'[nextAvailablePid] = TestPid
      /\ ~foreground'[nextAvailablePid]
      /\ \A p \in Pids \ {nextAvailablePid} : Untouched(p)
      /\ UNCHANGED <<control, currentPid, waiting>>
  BY <1>1, CreateSteady
<1>3. nextAvailablePid > TestPid
  <2>1. nextAvailablePid \in Nat /\ nextAvailablePid \notin {IDLE_PID, SHELL_PID, TestPid}
    BY <1>1, <1>2
  <2>. QED  BY <2>1 DEF IDLE_PID, SHELL_PID, TestPid
<1>4. Alive(SHELL_PID)'
  BY <1>1, <1>2 DEF Alive, Untouched, Steady, InTable
<1>5. \A p \in Pids : InTable(p)' =>
       \/ p \in {IDLE_PID, SHELL_PID}
       \/ p = TestPid /\ parent'[p] = SHELL_PID
       \/ p > TestPid /\ parent'[p] = TestPid /\ ~foreground'[p]
  BY <1>2, <1>3 DEF Family, InTable, Untouched, Steady
<1>6. waiting' \subseteq {SHELL_PID} /\ (control' = "kill" => currentPid' = TestPid)
  BY <1>2 DEF Family
<1>7. TestPid' = TestPid
  BY DEF TestPid
<1>8. Family'
  BY <1>4, <1>5, <1>6, <1>7 DEF Family
<1>. QED  BY <1>2, <1>3, <1>8

LEMMA RecordsAre ==
  ASSUME label' \notin {"prompt"},
         \A r \in Requests :
            /\ p_rqs'[r].state = "RUNNING" => status'[p_rqs'[r].pid] \in {"READY", "RUNNING"}
            /\ p_rqs'[r].state = "BLOCKED" => status'[p_rqs'[r].pid] = "BLOCKED"
            /\ p_rqs'[r].state # "KILLED" => p_rqs'[r].pid > TestPid,
         \A r, s \in Requests :
            /\ p_rqs'[r].state # "KILLED" /\ p_rqs'[s].state # "KILLED"
            /\ p_rqs'[r].pid = p_rqs'[s].pid
            => r = s,
         \A p \in Pids : InTable(p)' /\ p > TestPid =>
            \E r \in Requests :
               /\ p_rqs'[r].pid = p
               /\ p_rqs'[r].state # "KILLED" \/ (label' = "reap" /\ r = rq'),
         label' = "create" => \A r \in Requests : r >= rq' => p_rqs'[r].state = "KILLED",
         label' = "reap" =>
            /\ p_rqs'[rq'].state = "KILLED" /\ status'[p_rqs'[rq'].pid] = "ZOMBIE"
            /\ p_rqs'[rq'].pid > TestPid
  PROVE  Records'
<1>1. /\ TestPid' = TestPid /\ Requests' = Requests
      /\ \A r : Live(r)' <=> p_rqs'[r].state # "KILLED"
      /\ \A r : Scheduled(p_rqs[r].pid)' <=> status'[p_rqs'[r].pid] \in {"READY", "RUNNING"}
      /\ Live(rq)' <=> p_rqs'[rq'].state # "KILLED"
  BY DEF TestPid, Requests, Live, Scheduled
<1>2. TestInTable' =>
       /\ \A r \in Requests :
            /\ p_rqs'[r].state = "RUNNING" => Scheduled(p_rqs[r].pid)'
            /\ p_rqs'[r].state = "BLOCKED" => status'[p_rqs'[r].pid] = "BLOCKED"
            /\ Live(r)' => p_rqs'[r].pid > TestPid
       /\ \A r, s \in Requests :
            Live(r)' /\ Live(s)' /\ p_rqs'[r].pid = p_rqs'[s].pid => r = s
       /\ \A p \in Pids : InTable(p)' /\ p > TestPid =>
            \E r \in Requests : /\ p_rqs'[r].pid = p
                                /\ Live(r)' \/ (label' = "reap" /\ r = rq')
       /\ label' = "create" => \A r \in Requests : r >= rq' => ~Live(r)'
  BY <1>1
<1>3. TestLives' /\ label' = "reap" =>
       ~Live(rq)' /\ status'[p_rqs'[rq'].pid] = "ZOMBIE" /\ p_rqs'[rq'].pid > TestPid
  BY <1>1
<1>. QED  BY <1>1, <1>2, <1>3 DEF Records

LEMMA ProcCreateKept ==
  ASSUME ProcAlone, UserMode, currentPid = TestPid, label = "create",
         CreateProcess(0, FALSE), Scheduling!Advance("create", "kill"),
         p_rqs' = [p_rqs EXCEPT ![rq] = [pid |-> nextAvailablePid, state |-> "RUNNING"]]
  PROVE  ProcKept
<1>. SUFFICES ASSUME fault' = "none" PROVE ProcKept
  BY DEF ProcKept
<1>1. /\ IInv /\ IInv' /\ Family /\ ProcTypeOK /\ Records /\ InTable(TestPid)
         /\ TestPid \in Pids
      /\ TestInTable /\ rq \in Requests
  BY TestRuns DEF ProcTypeOK
<1>2. /\ rq' \in Requests
      /\ \/ rq' = 0 /\ label' = "kill"
         \/ rq' = rq + 1 /\ label' = "create"
  BY <1>1, AdvanceIs
<1>20. PICK new : new = nextAvailablePid
  OBVIOUS
<1>3. /\ Family' /\ new \in Pids /\ new > TestPid /\ ~InTable(new) /\ status'[new] = "READY"
      /\ \A p \in Pids \ {new} : Untouched(p)
  BY <1>1, <1>2, <1>20, WorkerCreated
<1>4. ProcTypeOK'
  BY <1>1, <1>2, <1>3, <1>20 DEF ProcTypeOK
<1>. DEFINE before(r) == p_rqs[r]
            after(r) == p_rqs'[r]
<1>5. /\ after(rq) = [pid |-> new, state |-> "RUNNING"] /\ ~Live(rq)
      /\ \A r \in Requests \ {rq} : after(r) = before(r)
      /\ \A r \in Requests : r >= rq => ~Live(r)
      /\ \A r \in Requests : before(r).pid \in Pids
  BY <1>1, <1>20 DEF ProcTypeOK, Records, Requests
<1>6. /\ \A r \in Requests : Live(r)' <=> after(r).state # "KILLED"
      /\ \A r \in Requests : Live(r) <=> before(r).state # "KILLED"
  BY DEF Live
<1>7. ASSUME NEW p \in Pids, p # new
      PROVE  /\ InTable(p)' <=> InTable(p)
             /\ Scheduled(p) => status'[p] \in {"READY", "RUNNING"}
             /\ status[p] = "BLOCKED" => status'[p] = "BLOCKED"
  <2>1. Steady(p)
    BY <1>3, <1>7 DEF Untouched
  <2>2. (InTable(p)' <=> InTable(p)) /\ (Scheduled(p)' <=> Scheduled(p))
    BY <1>1, <2>1, SteadyIs
  <2>. QED  BY <2>1, <2>2 DEF Steady, Scheduled
<1>8. \A r \in Requests : Live(r) => before(r).pid # new
  <2>1. ASSUME NEW r \in Requests, Live(r) PROVE InTable(before(r).pid)
    <3>1. before(r).state \in {"RUNNING", "BLOCKED"}
      BY <1>1, <2>1 DEF Live, ProcTypeOK
    <3>. QED  BY <1>1, <3>1 DEF Records, Scheduled, InTable
  <2>. QED  BY <1>3, <2>1
<1>9. ASSUME NEW r \in Requests
      PROVE  /\ after(r).state = "RUNNING" => status'[after(r).pid] \in {"READY", "RUNNING"}
             /\ after(r).state = "BLOCKED" => status'[after(r).pid] = "BLOCKED"
             /\ Live(r)' => after(r).pid > TestPid
  <2>1. CASE r = rq
    BY <1>3, <1>5, <2>1 DEF Scheduled
  <2>2. CASE r # rq
    <3>1. PICK q : q = before(r)
      OBVIOUS
    <3>2. after(r) = q /\ q.pid \in Pids /\ (Live(r) => q.pid # new)
      BY <1>5, <1>8, <2>2, <3>1
    <3>3. /\ q.state = "RUNNING" => Scheduled(q.pid) /\ Live(r)
          /\ q.state = "BLOCKED" => status[q.pid] = "BLOCKED" /\ Live(r)
          /\ Live(r) => q.pid > TestPid
      BY <1>1, <3>1 DEF Records, Live
    <3>4. Live(r)' => Live(r)
      BY <1>6, <3>1, <3>2
    <3>5. Live(r)' => q.pid > TestPid
      BY <3>3, <3>4
    <3>. QED  BY <1>7, <3>2, <3>3, <3>5
  <2>. QED  BY <2>1, <2>2
<1>10. ASSUME NEW r \in Requests, NEW s \in Requests, Live(r)', Live(s)',
              after(r).pid = after(s).pid
       PROVE  r = s
  BY <1>1, <1>5, <1>6, <1>8, <1>10 DEF Records
<1>11. ASSUME NEW p \in Pids, InTable(p)', p > TestPid
       PROVE  \E r \in Requests : after(r).pid = p /\ Live(r)'
  <2>1. CASE p = new
    BY <1>1, <1>5, <1>6, <2>1
  <2>2. CASE p # new
    <3>1. PICK r \in Requests : before(r).pid = p /\ Live(r)
      BY <1>1, <1>7, <1>11, <2>2 DEF Records
    <3>2. r # rq
      BY <1>5, <3>1
    <3>. QED  BY <1>5, <1>6, <3>1, <3>2
  <2>. QED  BY <2>1, <2>2
<1>12. label' = "create" => \A r \in Requests : r >= rq' => ~Live(r)'
  <2>1. ASSUME label' = "create", NEW r \in Requests, r >= rq' PROVE r >= rq /\ r # rq
    BY <1>1, <1>2, <2>1 DEF Requests
  <2>. QED  BY <1>5, <1>6, <2>1
<1>13. label' \notin {"prompt", "reap"} /\ TestPid' = TestPid /\ Requests' = Requests
  BY <1>2 DEF TestPid, Requests
<1>14. Records'
  BY <1>9, <1>10, <1>11, <1>12, <1>13, RecordsAre DEF Live
<1>. QED  BY <1>3, <1>4, <1>14 DEF ProcKept

(* A call on one worker, whose record is then what it was put in.          *)
LEMMA WorkerIs ==
  ASSUME ProcAlone, UserMode, currentPid = TestPid, NEW pid, pid = p_rqs[rq].pid, Live(rq)
  PROVE  /\ rq \in Requests /\ pid \in Pids /\ pid > TestPid
         /\ pid \notin {IDLE_PID, SHELL_PID, TestPid}
         /\ Alive(pid) /\ InTable(pid) /\ parent[pid] = TestPid
         /\ \A p \in Pids : InTable(p) /\ p > TestPid => parent[p] = TestPid
<1>1. /\ Family /\ rq \in Requests /\ ProcTypeOK /\ Records /\ TestInTable
  BY TestRuns DEF ProcTypeOK
<1>2. pid \in Pids /\ p_rqs[rq].state \in {"RUNNING", "BLOCKED"}
  BY <1>1 DEF ProcTypeOK, Live
<1>3. pid > TestPid /\ Alive(pid) /\ InTable(pid)
  BY <1>1, <1>2 DEF Records, Alive, InTable, Scheduled
<1>4. \A p : p > TestPid => p \notin {IDLE_PID, SHELL_PID, TestPid}
  BY DEF IDLE_PID, SHELL_PID, TestPid
<1>. QED  BY <1>1, <1>2, <1>3, <1>4 DEF Family

LEMMA RecordChanges ==
  ASSUME ProcAlone, UserMode, currentPid = TestPid,
         NEW pid, pid = p_rqs[rq].pid, Live(rq),
         NEW new \in {"RUNNING", "BLOCKED", "KILLED"},
         p_rqs' = [p_rqs EXCEPT ![rq].state = new],
         \A p \in Pids \ {pid} : p > TestPid => Steady(p),
         \/ status'[pid] \in {"READY", "RUNNING"} /\ new = "RUNNING"
         \/ status'[pid] = "BLOCKED" /\ new = "BLOCKED"
         \/ status'[pid] = "ZOMBIE" /\ new = "KILLED" /\ rq' = rq,
         rq' \in Requests, label' \in {"kill", "unblock", "reap"},
         label' = "reap" <=> new = "KILLED",
         Family'
  PROVE  ProcKept
<1>1. /\ IInv /\ IInv' /\ Family /\ ProcTypeOK /\ Records /\ TestInTable /\ rq \in Requests
      /\ pid \in Pids /\ pid > TestPid /\ InTable(pid)
  BY TestRuns, WorkerIs
<1>2. ProcTypeOK'
  BY <1>1 DEF ProcTypeOK
<1>. DEFINE before(r) == p_rqs[r]
            after(r) == p_rqs'[r]
<1>3. /\ after(rq).pid = pid /\ after(rq).state = new
      /\ \A r \in Requests \ {rq} : after(r) = before(r)
      /\ \A r \in Requests : before(r).pid \in Pids /\ after(r).pid = before(r).pid
      /\ \A r \in Requests : before(r).state \in {"RUNNING", "BLOCKED", "KILLED"}
  BY <1>1 DEF ProcTypeOK
<1>4. /\ \A r \in Requests : Live(r) <=> before(r).state # "KILLED"
      /\ \A r \in Requests : after(r).state # "KILLED" => Live(r)
  BY <1>3 DEF Live
<1>5. ASSUME NEW p \in Pids, p # pid, p > TestPid
      PROVE  /\ InTable(p)' <=> InTable(p)
             /\ Scheduled(p) => status'[p] \in {"READY", "RUNNING"}
             /\ status[p] = "BLOCKED" => status'[p] = "BLOCKED"
  <2>1. Steady(p)
    BY <1>5
  <2>2. (InTable(p)' <=> InTable(p)) /\ (Scheduled(p)' <=> Scheduled(p))
    BY <1>1, <2>1, SteadyIs
  <2>. QED  BY <2>1, <2>2 DEF Steady, Scheduled
<1>6. \A r, s \in Requests : Live(r) /\ Live(s) /\ before(r).pid = before(s).pid => r = s
  BY <1>1 DEF Records
<1>7. ASSUME NEW r \in Requests
      PROVE  /\ after(r).state = "RUNNING" => status'[after(r).pid] \in {"READY", "RUNNING"}
             /\ after(r).state = "BLOCKED" => status'[after(r).pid] = "BLOCKED"
             /\ after(r).state # "KILLED" => after(r).pid > TestPid
  <2>1. CASE r = rq
    <3>1. after(r).pid = pid /\ after(r).state = new
      BY <1>3, <2>1
    <3>2. /\ new = "RUNNING" => status'[pid] \in {"READY", "RUNNING"}
          /\ new = "BLOCKED" => status'[pid] = "BLOCKED"
      OBVIOUS
    <3>. QED  BY <1>1, <3>1, <3>2
  <2>2. CASE r # rq
    <3>1. PICK q : q = before(r)
      OBVIOUS
    <3>2. after(r) = q /\ q.pid \in Pids /\ (Live(r) => q.pid # pid)
      BY <1>1, <1>3, <1>6, <2>2, <3>1
    <3>3. /\ q.state = "RUNNING" => Scheduled(q.pid) /\ Live(r)
          /\ q.state = "BLOCKED" => status[q.pid] = "BLOCKED" /\ Live(r)
          /\ Live(r) => q.pid > TestPid
      BY <1>1, <3>1 DEF Records, Live
    <3>4. q.state # "KILLED" => Live(r)
      BY <1>4, <3>1
    <3>. QED  BY <1>5, <3>2, <3>3, <3>4
  <2>. QED  BY <2>1, <2>2
<1>8. ASSUME NEW r \in Requests, NEW s \in Requests, after(r).state # "KILLED",
             after(s).state # "KILLED", after(r).pid = after(s).pid
      PROVE  r = s
  BY <1>3, <1>4, <1>6, <1>8
<1>9. ASSUME NEW p \in Pids, InTable(p)', p > TestPid
      PROVE  \E r \in Requests :
               /\ after(r).pid = p
               /\ after(r).state # "KILLED" \/ (label' = "reap" /\ r = rq')
  <2>1. CASE p = pid
    BY <1>1, <1>3, <2>1
  <2>2. CASE p # pid
    <3>1. InTable(p)
      BY <1>5, <1>9, <2>2
    <3>2. label # "reap"
      BY <1>1, TestRuns DEF Records
    <3>3. PICK r \in Requests : before(r).pid = p /\ Live(r)
      BY <1>1, <1>9, <3>1, <3>2 DEF Records
    <3>4. r # rq
      BY <2>2, <3>3
    <3>. QED  BY <1>3, <1>4, <3>3, <3>4
  <2>. QED  BY <2>1, <2>2
<1>10. label' = "reap" =>
            /\ p_rqs'[rq'].state = "KILLED" /\ status'[p_rqs'[rq'].pid] = "ZOMBIE"
            /\ p_rqs'[rq'].pid > TestPid
  BY <1>1, <1>3
<1>11. Records'
  BY <1>7, <1>8, <1>9, <1>10, RecordsAre
<1>. QED  BY <1>2, <1>11 DEF ProcKept

LEMMA ProcKillWorkerKept ==
  ASSUME ProcAlone, UserMode, currentPid = TestPid, Live(rq),
         KillProcess(p_rqs[rq].pid), p_rqs' = [p_rqs EXCEPT ![rq].state = "KILLED"],
         label' = "reap", rq' = rq
  PROVE  ProcKept
<1>1. PICK pid : pid = p_rqs[rq].pid
  OBVIOUS
<1>2. /\ IInv /\ IInv' /\ Family /\ TestPid \in Pids /\ Alive(TestPid) /\ KillProcess(pid)
      /\ rq \in Requests /\ pid \in Pids /\ pid > TestPid
  BY <1>1, TestRuns, WorkerIs
<1>3. /\ Family' /\ status'[pid] = "ZOMBIE"
      /\ \A p \in Pids \ {pid} : p > TestPid => Steady(p)
  BY <1>2, WorkerDies
<1>. QED  BY <1>1, <1>2, <1>3, RecordChanges

(* A worker is taken off its ready level, or put back.                     *)
LEMMA ProcMoveWorkerKept ==
  ASSUME ProcAlone, UserMode, currentPid = TestPid, Live(rq),
         NEW pid, pid = p_rqs[rq].pid, NEW new \in {"RUNNING", "BLOCKED"},
         status' = [status EXCEPT ![pid] = IF new = "RUNNING" THEN "READY" ELSE "BLOCKED"],
         UNCHANGED <<parent, priority, foreground, waiting, control, currentPid>>,
         p_rqs' = [p_rqs EXCEPT ![rq].state = new],
         Scheduling!Advance(label, "unblock") \/ Scheduling!Advance(label, "kill"),
         label \in {"kill", "unblock"}
  PROVE  ProcKept
<1>1. /\ IInv /\ IInv' /\ Family /\ Alive(SHELL_PID) /\ SHELL_PID \in Pids /\ label # "prompt"
  BY TestRuns
<1>2. /\ rq \in Requests /\ pid \in Pids /\ pid > TestPid /\ InTable(pid)
      /\ pid \notin {IDLE_PID, SHELL_PID, TestPid}
  BY WorkerIs
<1>3. rq' \in Requests /\ label' \in {"kill", "unblock"}
  BY <1>2, AdvanceIs
<1>4. /\ \A p \in Pids \ {pid} : Untouched(p)
      /\ status'[pid] = IF new = "RUNNING" THEN "READY" ELSE "BLOCKED"
  BY <1>1, <1>2 DEF Untouched, Steady, IInv, TypeOK
<1>5. \A p \in Pids : InTable(p)' => /\ InTable(p) /\ parent'[p] = parent[p]
                                     /\ foreground'[p] = foreground[p]
  BY <1>2, <1>4 DEF InTable, Untouched, Steady
<1>6. Alive(SHELL_PID)'
  BY <1>1, <1>2, <1>4 DEF Alive, Untouched, Steady
<1>7. waiting' \subseteq waiting /\ (control' = "kill" => currentPid' = TestPid)
  BY <1>1 DEF Family
<1>8. Family'
  BY <1>1, <1>3, <1>5, <1>6, <1>7, FamilyKept
<1>9. \A p \in Pids \ {pid} : p > TestPid => Steady(p)
  BY <1>4 DEF Untouched
<1>10. /\ \/ status'[pid] \in {"READY", "RUNNING"} /\ new = "RUNNING"
          \/ status'[pid] = "BLOCKED" /\ new = "BLOCKED"
       /\ label' # "reap" /\ new # "KILLED" /\ new \in {"RUNNING", "BLOCKED", "KILLED"}
  BY <1>3, <1>4
<1>. QED  BY <1>3, <1>8, <1>9, <1>10, RecordChanges

LEMMA ProcReapWorkerKept ==
  ASSUME ProcAlone, UserMode, currentPid = TestPid, label = "reap",
         WaitPid(p_rqs[rq].pid), Scheduling!Advance("kill", "unblock"), UNCHANGED p_rqs
  PROVE  ProcKept
<1>1. PICK pid : pid = p_rqs[rq].pid
  OBVIOUS
<1>2. /\ IInv /\ IInv' /\ Family /\ ProcTypeOK /\ Records /\ TestInTable /\ TestLives
      /\ TestPid \in Pids /\ Alive(SHELL_PID) /\ SHELL_PID \in Pids /\ rq \in Requests
  BY TestRuns DEF ProcTypeOK
<1>3. pid \in Pids /\ status[pid] = "ZOMBIE" /\ pid > TestPid /\ ~Live(rq)
  BY <1>1, <1>2 DEF Records, ProcTypeOK
<1>4. Reap(pid) /\ UNCHANGED waiting
  BY <1>1, <1>3 DEF WaitPid, waitVars
<1>5. /\ status'[pid] = "NONE"
      /\ \A p \in Pids \ {pid} : Steady(p)
      /\ UNCHANGED <<control, currentPid>>
  BY <1>2, <1>3, <1>4, ReapSteady DEF Untouched
<1>6. rq' \in Requests /\ label' \in {"kill", "unblock"}
  BY <1>2, AdvanceIs
<1>7. \A p \in Pids : InTable(p)' => /\ InTable(p) /\ parent'[p] = parent[p]
                                     /\ foreground'[p] = foreground[p] /\ p # pid
  BY <1>5 DEF InTable, Steady
<1>8. Alive(SHELL_PID)' /\ (control' = "kill" => currentPid' = TestPid)
  BY <1>2, <1>3, <1>5 DEF Alive, Steady, Family
<1>9. Family'
  BY <1>2, <1>4, <1>6, <1>7, <1>8, FamilyKept
<1>10. ProcTypeOK'
  BY <1>2, <1>6 DEF ProcTypeOK
<1>11. ASSUME NEW r \in Requests
       PROVE  /\ p_rqs'[r].state = "RUNNING" => status'[p_rqs'[r].pid] \in {"READY",
                 "RUNNING"}
              /\ p_rqs'[r].state = "BLOCKED" => status'[p_rqs'[r].pid] = "BLOCKED"
              /\ p_rqs'[r].state # "KILLED" => p_rqs'[r].pid > TestPid
  <2>1. PICK q : q = p_rqs[r]
    OBVIOUS
  <2>2. /\ q.pid \in Pids
        /\ q.state = "RUNNING" => Scheduled(q.pid)
        /\ q.state = "BLOCKED" => status[q.pid] = "BLOCKED"
        /\ q.state # "KILLED" => q.pid > TestPid
    BY <1>2, <2>1 DEF Records, Live, ProcTypeOK
  <2>3. q.state \in {"RUNNING", "BLOCKED"} => q.pid # pid
    BY <1>3, <2>2 DEF Scheduled
  <2>4. q.pid # pid => Steady(q.pid)
    BY <1>5, <2>2
  <2>5. q.pid # pid => (Scheduled(q.pid) => status'[q.pid] \in {"READY", "RUNNING"})
    <3>. HAVE q.pid # pid
    <3>1. PICK p \in Pids : p = q.pid
      BY <2>2
    <3>2. Scheduled(p)' <=> Scheduled(p)
      BY <1>2, <2>4, <3>1, SteadyIs
    <3>. QED  BY <3>1, <3>2 DEF Scheduled
  <2>. QED  BY <2>1, <2>2, <2>3, <2>4, <2>5 DEF Steady
<1>12. \A r, s \in Requests :
            /\ p_rqs'[r].state # "KILLED" /\ p_rqs'[s].state # "KILLED"
            /\ p_rqs'[r].pid = p_rqs'[s].pid
            => r = s
  BY <1>2 DEF Records, Live
<1>13. \A p \in Pids : InTable(p)' /\ p > TestPid =>
            \E r \in Requests : p_rqs'[r].pid = p /\ p_rqs'[r].state # "KILLED"
  BY <1>1, <1>2, <1>7 DEF Records, Live
<1>14. Records'
  BY <1>6, <1>11, <1>12, <1>13, RecordsAre
<1>. QED  BY <1>9, <1>10, <1>14 DEF ProcKept

LEMMA ProcTestKept ==
  ASSUME ProcAlone, Scheduling!TestProcesses
  PROVE  ProcKept
<1>1. UserMode /\ currentPid = TestPid
  BY SchedulingNames DEF Scheduling!TestProcesses, Scheduling!CreateWorker,
  Scheduling!KillWorker,
     Scheduling!ReapWorker, Scheduling!BlockWorker, Scheduling!UnblockWorker, Scheduling!Pass,
     Scheduling!At, Scheduling!Runs
<1>2. CASE Scheduling!CreateWorker
  BY <1>1, <1>2, SchedulingCreates, ProcCreateKept DEF Scheduling!CreateWorker, Scheduling!At
<1>3. CASE Scheduling!KillWorker
  BY <1>1, <1>3, SchedulingKills, ProcKillWorkerKept
     DEF Scheduling!KillWorker, Scheduling!Becomes, Scheduling!Pid, Live, Kill
<1>4. CASE Scheduling!ReapWorker
  BY <1>1, <1>4, SchedulingWaits, ProcReapWorkerKept
     DEF Scheduling!ReapWorker, Scheduling!Pid, Scheduling!At
<1>5. CASE Scheduling!BlockWorker
  <2>1. PICK pid : pid = p_rqs[rq].pid
    OBVIOUS
  <2>2. /\ label = "kill" /\ Live(rq) /\ Block(pid)
        /\ p_rqs' = [p_rqs EXCEPT ![rq].state = "BLOCKED"]
        /\ Scheduling!Advance("kill", "unblock")
    BY <1>5, <2>1, SchedulingCalls
       DEF Scheduling!BlockWorker, Scheduling!Becomes, Scheduling!Pid, Scheduling!At, Live
  <2>3. pid # IDLE_PID
    BY <1>1, <2>1, <2>2, WorkerIs
  <2>4. Suspend(pid) /\ UNCHANGED <<parent, priority, foreground, waiting, control,
        currentPid>>
    BY <2>2, <2>3 DEF Block, waitVars, cpuVars
  <2>5. status' = [status EXCEPT ![pid] = IF "BLOCKED" =
          "RUNNING" THEN "READY" ELSE "BLOCKED"]
    BY <2>4 DEF Suspend
  <2>. QED  BY <1>1, <2>1, <2>2, <2>4, <2>5, ProcMoveWorkerKept
<1>6. CASE Scheduling!UnblockWorker
  <2>1. PICK pid : pid = p_rqs[rq].pid
    OBVIOUS
  <2>2. /\ label = "unblock" /\ Live(rq) /\ Unblock(pid)
        /\ p_rqs' = [p_rqs EXCEPT ![rq].state = "RUNNING"]
        /\ Scheduling!Advance("unblock", "kill")
    BY <1>6, <2>1, SchedulingCalls
       DEF Scheduling!UnblockWorker, Scheduling!Becomes, Scheduling!Pid, Scheduling!At, Live
  <2>3. /\ status' = [status EXCEPT ![pid] = IF "RUNNING" =
             "RUNNING" THEN "READY" ELSE "BLOCKED"]
        /\ UNCHANGED <<parent, priority, foreground, waiting, control, currentPid>>
    BY <2>2 DEF Unblock
  <2>. QED  BY <1>1, <2>1, <2>2, <2>3, ProcMoveWorkerKept
<1>7. CASE Scheduling!Pass
  <2>1. /\ UNCHANGED <<vars, p_rqs>> /\ label \in {"kill", "unblock"}
        /\ \/ Scheduling!Advance("kill", "unblock")
           \/ /\ label = "unblock"
              /\ Scheduling!Advance("unblock",
                 IF Scheduling!NoneAlive THEN "create" ELSE "kill")
    BY <1>7 DEF Scheduling!Pass, Scheduling!At, Scheduling!vars, vars, Scheduling!pcbVars,
    pcbVars,
       Scheduling!listVars, listVars, Scheduling!tableVars, tableVars, Scheduling!cpuVars,
       cpuVars,
       Scheduling!waitVars, waitVars
  <2>. QED  BY <1>1, <2>1, ProcPassKept
<1>. QED  BY <1>2, <1>3, <1>4, <1>5, <1>6, <1>7 DEF Scheduling!TestProcesses

LEMMA TestNamesPids ==
  ASSUME ProcInv, fault = "none", label # "prompt" PROVE TestPid \in Pids
BY DEF ProcInv, Family

-----------------------------------------------------------------------------
(* The steps of the scheduler that the two tests make: no process that     *)
(* waits is touched by another's call, and idle is not blocked.            *)
Room == processCount < MaxProcesses - 1
Creates == StartShell \/ \E prio \in Levels, fg \in BOOLEAN : CreateProcess(prio, fg)
Moves ==
  \/ UNCHANGED vars \/ TimerTick \/ SoftTick \/ CtrlC \/ Yield
  \/ ForegroundKill \/ Exit \/ WaitReturn
  \/ \E p \in Pids : p > TestPid /\ (Block(p) \/ Unblock(p))
  \/ \E p \in Pids : Kill(p) \/ WaitPid(p)
  \/ \E p \in Pids, prio \in Levels : SetPriority(p, prio)

LEMMA TestCallIsNext == Moves \/ Creates => [Next]_vars
<1>1. Levels \subseteq 0 .. QtyReadyLevels
  BY SizeAssumption DEF Levels
<1>. QED  BY <1>1 DEF Moves, Creates, Next

(* There is room: idle, the shell, the test, a process for every record.   *)
Fits == TOTAL_PROCESSES + 3 < MaxProcesses
Table == {p \in Pids : InTable(p)}

LEMMA FewInTable ==
  ASSUME IInv, NEW S, IsFiniteSet(S), Table \subseteq S
  PROVE  processCount \in Nat /\ processCount <= Cardinality(S)
BY FS_Subset, FS_CardinalityType DEF IInv, CountMatchesTable, Table

LEMMA ThreeProcesses ==
  IsFiniteSet({0, 1, 2}) /\ Cardinality({0, 1, 2}) = 3
    /\ IsFiniteSet({0, 1}) /\ Cardinality({0, 1}) = 2
<1>1. Cardinality({0}) = 1 /\ IsFiniteSet({0})
  BY FS_Singleton
<1>2. Cardinality({0} \cup {1}) = 2 /\ IsFiniteSet({0} \cup {1})
  BY <1>1, FS_AddElement
<1>3. Cardinality(({0} \cup {1}) \cup {2}) = 3 /\ IsFiniteSet(({0} \cup {1}) \cup {2})
  BY <1>2, FS_AddElement
<1>4. ({0} \cup {1}) \cup {2} = {0, 1, 2} /\ {0} \cup {1} = {0, 1}
  OBVIOUS
<1>. QED  BY <1>2, <1>3, <1>4

LEMMA RoomAtPrompt ==
  ASSUME IInv, Family, label = "prompt"
  PROVE  processCount \in Nat /\ processCount <= 2
<1>1. Table \subseteq {0, 1}
  BY DEF Family, Table, IDLE_PID, SHELL_PID
<1>. QED  BY <1>1, FewInTable, ThreeProcesses

LEMMA RecordsBound ==
  ASSUME NEW f, NEW r \in Requests
  PROVE  /\ IsFiniteSet({f[s].pid : s \in Requests \ {r}})
         /\ Cardinality({f[s].pid : s \in Requests \ {r}}) \in Nat
         /\ Cardinality({f[s].pid : s \in Requests \ {r}}) <= TOTAL_PROCESSES - 1
<1>. DEFINE S == Requests \ {r}
            T == {f[s].pid : s \in S}
            g == [s \in S |-> f[s].pid]
<1>1. IsFiniteSet(Requests) /\ Cardinality(Requests) = TOTAL_PROCESSES
  BY FS_Interval, UserTestsAssumption DEF Scheduling!TestSchedulingAssumption, Requests
<1>2. IsFiniteSet(S) /\ Cardinality(S) = TOTAL_PROCESSES - 1
  BY <1>1, FS_RemoveElement
<1>3. g \in Surjection(S, T)
  BY DEF Surjection
<1>. HIDE DEF g, S
<1>4. IsFiniteSet(T) /\ Cardinality(T) <= Cardinality(S)
  BY <1>2, <1>3, FS_Surjection
<1>5. Cardinality(T) \in Nat
  BY <1>4, FS_CardinalityType
<1>. QED  BY <1>2, <1>4, <1>5 DEF S

LEMMA RoomToCreate ==
  ASSUME ProcInv, fault = "none", label = "create", UserMode, currentPid = TestPid, Fits
  PROVE  Room
<1>. DEFINE recorded == {p_rqs[s].pid : s \in Requests \ {rq}}
<1>1. IInv /\ RunInv /\ Family /\ ProcTypeOK /\ Records
  BY DEF ProcInv
<1>2. TestInTable /\ rq \in Requests
  BY <1>1 DEF TestInTable, UserMode, RunInv, RunningIsCurrent, Alive, InTable, ProcTypeOK
<1>3. Table \subseteq {0, 1, 2} \cup recorded
  <2>. SUFFICES ASSUME NEW p \in Pids, InTable(p), p \notin {0, 1, 2}
                PROVE  p \in recorded
    BY DEF Table
  <2>1. p > TestPid
    BY <1>1 DEF Family, IDLE_PID, SHELL_PID, TestPid
  <2>2. PICK r \in Requests : p_rqs[r].pid = p /\ Live(r)
    BY <1>1, <1>2, <2>1 DEF Records
  <2>3. r # rq
    BY <1>1, <1>2, <2>2 DEF Records, Requests
  <2>. QED  BY <2>2, <2>3
<1>4. /\ IsFiniteSet(recorded) /\ Cardinality(recorded) \in Nat
      /\ Cardinality(recorded) <= TOTAL_PROCESSES - 1
  BY <1>2, RecordsBound
<1>. HIDE DEF recorded
<1>5. /\ IsFiniteSet({0, 1, 2} \cup recorded)
      /\ Cardinality({0, 1, 2} \cup recorded) = 3 + Cardinality(recorded) - Cardinality({0,
         1, 2} \cap recorded)
  BY <1>4, ThreeProcesses, FS_Union
<1>6. Cardinality({0, 1, 2} \cap recorded) \in Nat
  BY ThreeProcesses, FS_Subset, FS_CardinalityType
<1>7. processCount \in Nat /\ processCount <= Cardinality({0, 1, 2} \cup recorded)
  BY <1>1, <1>3, <1>5, FewInTable
<1>8. TOTAL_PROCESSES \in Nat /\ MaxProcesses \in Nat
  BY SizeAssumption, UserTestsAssumption DEF Scheduling!TestSchedulingAssumption
<1>. QED  BY <1>4, <1>5, <1>6, <1>7, <1>8 DEF Room, Fits

LEMMA ProcCalls ==
  ASSUME ProcInv, Scheduling!ProcessesNext
  PROVE  fault = "none" /\ (Moves \/ (Creates /\ (Fits => Room)))
<1>1. /\ 0 \in Levels /\ 1 \in Levels /\ TRUE \in BOOLEAN /\ FALSE \in BOOLEAN
      /\ SHELL_PID # IDLE_PID /\ MaxProcesses \in Nat /\ TOTAL_PROCESSES \in Nat \ {0}
  BY SizeAssumption, UserTestsAssumption
     DEF Scheduling!TestSchedulingAssumption, Levels, SHELL_PID, IDLE_PID
<1>2. ASSUME fault = "none", label = "prompt" PROVE Fits => Room
  BY <1>1, <1>2, RoomAtPrompt DEF ProcInv, Fits, Room
<1>3. CASE Scheduling!Shell
  <2>1. \/ CreateProcess(1, TRUE) /\ label = "prompt"
        \/ WaitPid(TestPid) /\ label # "prompt"
    BY <1>3, SchedulingNames, SchedulingCreates, SchedulingWaits
       DEF Scheduling!Shell, Scheduling!Runs, UserMode
  <2>2. fault = "none"
    BY <1>3, SchedulingNames DEF Scheduling!Shell, Scheduling!Runs, UserMode
  <2>3. CreateProcess(1, TRUE) /\ label = "prompt" => Creates /\ (Fits => Room)
    BY <1>1, <1>2, <2>2 DEF Creates
  <2>4. WaitPid(TestPid) /\ label # "prompt" => Moves
    BY <2>2, TestNamesPids DEF Moves
  <2>. QED  BY <2>1, <2>2, <2>3, <2>4
<1>4. CASE Scheduling!Worker
  BY <1>4, SchedulingNames, SchedulingTicks DEF Scheduling!Worker, UserMode, Moves
<1>5. CASE Scheduling!TestProcesses
  <2>1. fault = "none" /\ UserMode /\ currentPid = TestPid
    BY <1>5, SchedulingNames DEF Scheduling!TestProcesses, Scheduling!CreateWorker,
       Scheduling!KillWorker, Scheduling!ReapWorker, Scheduling!BlockWorker,
       Scheduling!UnblockWorker, Scheduling!Pass, Scheduling!At, Scheduling!Runs, UserMode
  <2>2. rq \in Requests /\ p_rqs[rq].pid \in Pids
    BY <2>1 DEF ProcInv, ProcTypeOK
  <2>3. CASE Scheduling!CreateWorker
    <3>1. CreateProcess(0, FALSE) /\ label = "create"
      BY <2>3, SchedulingCreates DEF Scheduling!CreateWorker, Scheduling!At
    <3>2. Fits => Room
      BY <2>1, <3>1, RoomToCreate
    <3>. QED  BY <1>1, <2>1, <3>1, <3>2 DEF Creates
  <2>4. CASE Scheduling!KillWorker
    BY <2>1, <2>2, <2>4, SchedulingKills DEF Scheduling!KillWorker, Scheduling!Pid, Moves
  <2>5. CASE Scheduling!ReapWorker
    BY <2>1, <2>2, <2>5, SchedulingWaits DEF Scheduling!ReapWorker, Scheduling!Pid, Moves
  <2>6. CASE Scheduling!BlockWorker \/ Scheduling!UnblockWorker
    <3>1. \/ p_rqs[rq].state = "RUNNING" /\ Block(p_rqs[rq].pid)
          \/ p_rqs[rq].state = "BLOCKED" /\ Unblock(p_rqs[rq].pid)
      BY <2>6, SchedulingCalls
         DEF Scheduling!BlockWorker, Scheduling!UnblockWorker, Scheduling!Pid
    <3>2. TestInTable /\ Records
      BY <2>1 DEF ProcInv, Family, TestInTable, UserMode, RunInv, RunningIsCurrent, Alive,
                  InTable, TestPid, IDLE_PID, SHELL_PID, IInv, TypeOK
    <3>3. p_rqs[rq].pid > TestPid
      BY <2>2, <3>1, <3>2 DEF Records, Live
    <3>. QED  BY <2>1, <2>2, <3>1, <3>3 DEF Moves
  <2>7. CASE Scheduling!Pass
    BY <2>1, <2>7 DEF Scheduling!Pass, Scheduling!vars, vars, Scheduling!pcbVars, pcbVars,
       Scheduling!listVars, listVars, Scheduling!tableVars, tableVars, Scheduling!cpuVars,
       cpuVars, Scheduling!waitVars, waitVars, Moves
  <2>. QED  BY <1>5, <2>3, <2>4, <2>5, <2>6, <2>7 DEF Scheduling!TestProcesses
<1>6. CASE Scheduling!Kernel
  <2>1. TimerTick \/ StartShell \/ SoftTick \/ ForegroundKill \/ WaitReturn
    BY <1>6, SchedulingTicks, SchedulingCreates, SchedulingKills, SchedulingWaits
       DEF Scheduling!Kernel
  <2>2. fault = "none"
    BY <2>1 DEF TimerTick, StartShell, SoftTick, ForegroundKill, WaitReturn, UserMode,
    DoSchedule
  <2>3. StartShell => label = "prompt"
    BY <2>2 DEF StartShell, ProcInv, Family, Alive, InTable
  <2>. QED  BY <1>2, <2>1, <2>2, <2>3 DEF Moves, Creates
<1>7. CASE Scheduling!Interrupt
  BY <1>7, SchedulingTicks DEF Scheduling!Interrupt, CtrlC, UserMode, Moves
<1>. QED  BY <1>3, <1>4, <1>5, <1>6, <1>7 DEF Scheduling!ProcessesNext

(* Whatever the test programs do, the scheduler makes one of its steps.    *)
LEMMA ProcIsNext ==
  ASSUME ProcInv, Scheduling!ProcessesNext
  PROVE  fault = "none" /\ [Next]_vars
BY ProcCalls, TestCallIsNext

LEMMA ProcStep ==
  ASSUME ProcInv, Scheduling!ProcessesNext
  PROVE  ProcInv'
<1>1. fault = "none" /\ [Next]_vars /\ IInv' /\ RunInv'
  BY ProcIsNext, NextIInv, RunningStep DEF ProcInv
<1>2. ProcAlone
  BY <1>1 DEF ProcAlone
<1>. SUFFICES ProcKept
  BY <1>1 DEF ProcInv, ProcKept
<1>3. CASE Scheduling!Shell
  <2>1. UserMode /\ currentPid = SHELL_PID /\ UNCHANGED <<rq, p_rqs>>
    BY <1>3, SchedulingNames DEF Scheduling!Shell, Scheduling!Runs
  <2>2. CASE label = "prompt" /\ Scheduling!CreateProcess(1, TRUE) /\ label' = "create"
    BY <1>2, <2>1, <2>2, SchedulingCreates, ProcStartTestKept
  <2>3. CASE label # "prompt" /\ Scheduling!WaitPid(Scheduling!TEST_PID) /\ UNCHANGED label
    BY <1>2, <2>1, <2>3, SchedulingNames, SchedulingWaits,
    ProcShellWaitKept DEF schedulingVars
  <2>. QED  BY <1>3, <2>2, <2>3 DEF Scheduling!Shell
<1>4. CASE Scheduling!Worker
  BY <1>2, <1>4, SchedulingTicks, ProcYieldKept
     DEF Scheduling!Worker, Scheduling!testVars, schedulingVars
<1>5. CASE Scheduling!TestProcesses
  BY <1>2, <1>5, ProcTestKept
<1>6. CASE Scheduling!Kernel
  <2>1. /\ UNCHANGED schedulingVars
        /\ TimerTick \/ StartShell \/ SoftTick \/ ForegroundKill \/ WaitReturn
    BY <1>6, SchedulingTicks, SchedulingCreates, SchedulingKills, SchedulingWaits
       DEF Scheduling!Kernel, Scheduling!testVars, schedulingVars
  <2>2. DoSchedule \/ StartShell \/ ForegroundKill \/ WaitReturn
    BY <2>1 DEF TimerTick, SoftTick
  <2>. QED
    BY <1>2, <2>1, <2>2, ProcTickKept, ProcStartKept, ProcKillKept, ProcWaitReturnKept
<1>7. CASE Scheduling!Interrupt
  BY <1>2, <1>7, SchedulingTicks, ProcYieldKept
     DEF Scheduling!Interrupt, Scheduling!testVars, schedulingVars
<1>. QED  BY <1>3, <1>4, <1>5, <1>6, <1>7 DEF Scheduling!ProcessesNext

LEMMA ProcStarts == Scheduling!TestInit => ProcInv
<1>. SUFFICES ASSUME Scheduling!TestInit PROVE ProcInv
  OBVIOUS
<1>1. Init /\ label = "prompt" /\ rq = 0
  BY SchedulingInit DEF Scheduling!TestInit
<1>2. p_rqs = [r \in Requests |-> [pid |-> IDLE_PID, state |-> "KILLED"]]
  BY SchedulingNames DEF Scheduling!TestInit, Scheduling!Requests, Requests
<1>3. IInv /\ RunInv
  BY <1>1, InitIInv DEF Init, RunInv, RunningIsCurrent, Alive, IInv, TypeOK
<1>4. IDLE_PID \in Pids /\ rq \in Requests
  BY <1>1, <1>3, FamilyPids, UserTestsAssumption DEF Scheduling!TestSchedulingAssumption,
  Requests
<1>5. Family
  BY <1>1 DEF Init, Family, InTable
<1>6. ProcTypeOK
  BY <1>1, <1>2, <1>4 DEF ProcTypeOK
<1>7. Records
  BY <1>1, <1>2 DEF Records, Live, TestInTable, TestLives
<1>. QED  BY <1>3, <1>5, <1>6, <1>7 DEF ProcInv

(* What testProcesses prints and leaves behind follows.                    *)
LEMMA ProcSays ==
  ASSUME ProcInv, fault = "none"
  PROVE  Scheduling!NoTestError /\ Scheduling!RoundsLeaveNothing
<1>1. IInv /\ RunInv /\ Family /\ ProcTypeOK /\ Records
  BY DEF ProcInv
<1>2. ASSUME InTable(TestPid), NEW r \in Requests
      PROVE  /\ p_rqs[r].state = "RUNNING" => Scheduled(p_rqs[r].pid)
             /\ p_rqs[r].state = "BLOCKED" => status[p_rqs[r].pid] = "BLOCKED"
  BY <1>1, <1>2 DEF Records, Live, TestInTable
<1>3. Scheduling!NoTestError
  BY <1>2, SchedulingNames DEF Scheduling!NoTestError, Scheduling!AllRequests,
     Scheduling!Requests, Requests
<1>4. ASSUME UserMode, currentPid = TestPid, label = "create", rq = 0
      PROVE  processCount = TestPid + 1
  <2>. DEFINE table == {p \in Pids : InTable(p)}
  <2>1. InTable(TestPid) /\ TestPid \in Pids /\ Alive(SHELL_PID)
    BY <1>1, <1>4 DEF UserMode, RunInv, RunningIsCurrent, Alive, InTable, IInv, TypeOK, Family
  <2>2. InTable(IDLE_PID) /\ InTable(SHELL_PID) /\ IDLE_PID \in Pids /\ SHELL_PID \in Pids
    BY <1>1, <2>1, FamilyPids DEF IInv, IdleScheduled, Scheduled, InTable, Alive
  <2>3. ASSUME NEW p \in Pids, InTable(p) PROVE p \in {IDLE_PID, SHELL_PID, TestPid}
    <3>1. \A r \in Requests : ~Live(r)
      BY <1>1, <1>4, <2>1 DEF Records, TestInTable, Requests
    <3>2. ~(p > TestPid)
      BY <1>1, <1>4, <2>1, <2>3, <3>1 DEF Records, TestInTable
    <3>. QED  BY <1>1, <2>3, <3>2 DEF Family
  <2>4. table = {IDLE_PID, SHELL_PID, TestPid}
    BY <2>1, <2>2, <2>3
  <2>5. table = {0, 1, 2}
    BY <2>4 DEF IDLE_PID, SHELL_PID, TestPid
  <2>6. Cardinality({0, 1, 2}) = 3
    <3>1. Cardinality({0}) = 1 /\ IsFiniteSet({0})
      BY FS_Singleton
    <3>2. Cardinality({0} \cup {1}) = 2 /\ IsFiniteSet({0} \cup {1})
      BY <3>1, FS_AddElement
    <3>3. Cardinality(({0} \cup {1}) \cup {2}) = 3
      BY <3>2, FS_AddElement
    <3>4. ({0} \cup {1}) \cup {2} = {0, 1, 2}
      OBVIOUS
    <3>. QED  BY <3>3, <3>4
  <2>. QED  BY <1>1, <2>5, <2>6 DEF IInv, CountMatchesTable, TestPid, SHELL_PID
<1>5. Scheduling!RoundsLeaveNothing
  BY <1>4, SchedulingNames DEF Scheduling!RoundsLeaveNothing, Scheduling!At, Scheduling!Runs
<1>. QED  BY <1>3, <1>5

-----------------------------------------------------------------------------
(* Each of the tests leaves the variables of the others as they are.       *)
LEMMA OneTest ==
  ASSUME [UserTestsNext]_userTestsVars
  PROVE  /\ test' = test
         /\ test = "processes" =>
              \/ Scheduling!ProcessesNext
              \/ UNCHANGED <<vars, schedulingVars>>
         /\ test = "prio" =>
              \/ Scheduling!PrioNext
              \/ UNCHANGED <<vars, schedulingVars>>
         /\ test = "mm" => [MM!TestNext]_memoryVars
BY DEF UserTestsNext, userTestsVars, testSyncVars, Sync, Schedules, Uses, semaphoreVars,
semVars

LEMMA ProcStutters ==
  ASSUME ProcInv, UNCHANGED <<vars, schedulingVars>>
  PROVE  ProcInv'
<1>1. UNCHANGED <<vars, label, rq, p_rqs>>
  BY DEF schedulingVars
<1>2. IInv' /\ RunInv'
  BY <1>1, NextIInv, RunningStep DEF ProcInv
<1>3. UNCHANGED <<status, parent, foreground, waiting, control, currentPid, fault>>
  BY <1>1 DEF vars, pcbVars, waitVars, cpuVars
<1>4. fault = "none" => ProcAlone /\ (\A p \in Pids : Steady(p))
  BY <1>2, <1>3 DEF ProcAlone, Steady
<1>5. fault = "none" => ProcKept
  BY <1>3, <1>4, ProcSteady DEF ProcAlone, ProcInv, Family
<1>. QED  BY <1>2, <1>3, <1>5 DEF ProcInv, ProcKept

LEMMA MMInvHolds == UserTestsSpec => [](test = "mm" => MMInv)
<1>1. UserTestsInit => (test = "mm" => MMInv)
  BY MMStarts DEF UserTestsInit
<1>2. (test = "mm" => MMInv) /\ [UserTestsNext]_userTestsVars => (test = "mm" => MMInv)'
  BY OneTest, MMStep
<1>. HIDE DEF MMInv, UserTestsInit, UserTestsNext, userTestsVars, UserTestsFairness
<1>. QED  BY <1>1, <1>2, PTL DEF UserTestsSpec

-----------------------------------------------------------------------------
(* testPrio: the calls of Script, six rounds over the workers.             *)
CallOf(r, n) ==
  CASE n <= r -> "KILLED"
    [] n > r /\ n <= TOTAL_PROCESSES + r -> "create"
    [] n > TOTAL_PROCESSES + r /\ n <= 2 * TOTAL_PROCESSES + r -> "niceOwn"
    [] n > 2 * TOTAL_PROCESSES + r /\ n <= 3 * TOTAL_PROCESSES + r -> "block"
    [] n > 3 * TOTAL_PROCESSES + r /\ n <= 4 * TOTAL_PROCESSES + r -> "niceMedium"
    [] n > 4 * TOTAL_PROCESSES + r /\ n <= 5 * TOTAL_PROCESSES + r -> "unblock"
    [] OTHER -> "kill"
CallBefore(call) ==
  CASE call = "create" -> "KILLED" [] call = "niceOwn" -> "create"
    [] call = "block" -> "niceOwn" [] call = "niceMedium" -> "block"
    [] call = "unblock" -> "niceMedium" [] call = "kill" -> "unblock"
Calling == {"create", "niceOwn", "block", "niceMedium", "unblock", "kill"}

Joins(j, s, t) == j = s \o t

LEMMA Joined ==
  ASSUME NEW S, NEW s \in Seq(S), NEW t \in Seq(S), NEW j, Joins(j, s, t),
         NEW m \in Nat, NEW k \in Nat, Len(s) = m, Len(t) = k
  PROVE  /\ j \in Seq(S) /\ Len(j) = m + k
         /\ \A n \in 1 .. m + k : j[n] = IF n <= m THEN s[n] ELSE t[n - m]
BY ConcatProperties, LenProperties DEF Joins

LEMMA CallStays ==
  ASSUME NEW n \in Nat, NEW r \in Requests, \A k \in 0 .. 5 : n # k * TOTAL_PROCESSES + r
  PROVE  CallOf(r, n + 1) = CallOf(r, n)
<1>1. TOTAL_PROCESSES \in Nat /\ r \in Int
  BY UserTestsAssumption DEF Scheduling!TestSchedulingAssumption, Requests
<1>2. ASSUME NEW c \in Int, n # c PROVE (n + 1 <= c <=> n <= c) /\ (n + 1 > c <=> n > c)
  BY <1>2
<1>3. (n + 1 <= r <=> n <= r) /\ (n + 1 > r <=> n > r)
  <2>1. r \in Int /\ n # r
    BY <1>1
  <2>. QED  BY <1>2, <2>1
<1>4. (n + 1 <= TOTAL_PROCESSES + r <=> n <= TOTAL_PROCESSES + r)
      /\ (n + 1 > TOTAL_PROCESSES + r <=> n > TOTAL_PROCESSES + r)
  <2>1. TOTAL_PROCESSES + r \in Int /\ n # TOTAL_PROCESSES + r
    BY <1>1
  <2>. QED  BY <1>2, <2>1
<1>5. (n + 1 <= 2 * TOTAL_PROCESSES + r <=> n <= 2 * TOTAL_PROCESSES + r)
      /\ (n + 1 > 2 * TOTAL_PROCESSES + r <=> n > 2 * TOTAL_PROCESSES + r)
  <2>1. 2 * TOTAL_PROCESSES + r \in Int /\ n # 2 * TOTAL_PROCESSES + r
    BY <1>1
  <2>. QED  BY <1>2, <2>1
<1>6. (n + 1 <= 3 * TOTAL_PROCESSES + r <=> n <= 3 * TOTAL_PROCESSES + r)
      /\ (n + 1 > 3 * TOTAL_PROCESSES + r <=> n > 3 * TOTAL_PROCESSES + r)
  <2>1. 3 * TOTAL_PROCESSES + r \in Int /\ n # 3 * TOTAL_PROCESSES + r
    BY <1>1
  <2>. QED  BY <1>2, <2>1
<1>7. (n + 1 <= 4 * TOTAL_PROCESSES + r <=> n <= 4 * TOTAL_PROCESSES + r)
      /\ (n + 1 > 4 * TOTAL_PROCESSES + r <=> n > 4 * TOTAL_PROCESSES + r)
  <2>1. 4 * TOTAL_PROCESSES + r \in Int /\ n # 4 * TOTAL_PROCESSES + r
    BY <1>1
  <2>. QED  BY <1>2, <2>1
<1>8. (n + 1 <= 5 * TOTAL_PROCESSES + r <=> n <= 5 * TOTAL_PROCESSES + r)
      /\ (n + 1 > 5 * TOTAL_PROCESSES + r <=> n > 5 * TOTAL_PROCESSES + r)
  <2>1. 5 * TOTAL_PROCESSES + r \in Int /\ n # 5 * TOTAL_PROCESSES + r
    BY <1>1
  <2>. QED  BY <1>2, <2>1
<1>. QED  BY <1>3, <1>4, <1>5, <1>6, <1>7, <1>8 DEF CallOf

LEMMA ScriptIs ==
  /\ Len(Scheduling!Script) = 6 * TOTAL_PROCESSES
  /\ \A n \in 0 .. 6 * TOTAL_PROCESSES - 1 :
       \E op \in Calling, r \in Requests :
          /\ Scheduling!Script[n + 1] = <<op, r>>
          /\ CallOf(r, n) = CallBefore(op) /\ CallOf(r, n + 1) = op
          /\ \A s \in Requests \ {r} : CallOf(s, n + 1) = CallOf(s, n)
<1>. DEFINE T == TOTAL_PROCESSES
            S == Calling \X Requests
            F(op) == Scheduling!ForAll(op)
            J2 == F("create") \o F("niceOwn")
            J3 == J2 \o F("block")
            J4 == J3 \o F("niceMedium")
            J5 == J4 \o F("unblock")
            J6 == J5 \o F("kill")
<1>1. T \in Nat \ {0}
  BY UserTestsAssumption DEF Scheduling!TestSchedulingAssumption
<1>2. \A op \in Calling : /\ F(op) \in Seq(S) /\ Len(F(op)) = T
                          /\ \A n \in 1 .. T : F(op)[n] = <<op, n - 1>>
  BY <1>1 DEF Scheduling!ForAll, Requests
<1>3. /\ "create" \in Calling /\ "niceOwn" \in Calling /\ "block" \in Calling
      /\ "niceMedium" \in Calling /\ "unblock" \in Calling /\ "kill" \in Calling
  BY DEF Calling
<1>. HIDE DEF F, S
<1>4. /\ J2 \in Seq(S) /\ Len(J2) = 2 * T
      /\ \A n \in 1 .. 2 * T : J2[n] = IF n <= T THEN F("create")[n] ELSE F("niceOwn")[n - T]
  <2>1. F("create") \in Seq(S) /\ F("niceOwn") \in Seq(S) /\ Len(F("create")) = T
        /\ Len(F("niceOwn")) = T
    BY <1>2, <1>3
  <2>2. T \in Nat /\ T + T = 2 * T
    BY <1>1
  <2>3. Joins(J2, F("create"), F("niceOwn"))
    BY DEF Joins
  <2>. HIDE DEF J2
  <2>4. /\ J2 \in Seq(S) /\ Len(J2) = T + T
        /\ \A n \in 1 .. T + T : J2[n] =
             IF n <= T THEN F("create")[n] ELSE F("niceOwn")[n - T]
    BY <1>1, <2>1, <2>2, <2>3, Joined
  <2>. QED  BY <2>2, <2>4
<1>. HIDE DEF J2
<1>5. /\ J3 \in Seq(S) /\ Len(J3) = 3 * T
      /\ \A n \in 1 .. 3 * T : J3[n] = IF n <= 2 * T THEN J2[n] ELSE F("block")[n - 2 * T]
  <2>1. J2 \in Seq(S) /\ F("block") \in Seq(S) /\ Len(J2) = 2 * T /\ Len(F("block")) = T
    BY <1>2, <1>3, <1>4
  <2>2. 2 * T \in Nat /\ 2 * T + T = 3 * T
    BY <1>1
  <2>3. Joins(J3, J2, F("block"))
    BY DEF Joins
  <2>. HIDE DEF J3
  <2>4. /\ J3 \in Seq(S) /\ Len(J3) = 2 * T + T
        /\ \A n \in 1 .. 2 * T + T : J3[n] =
             IF n <= 2 * T THEN J2[n] ELSE F("block")[n - 2 * T]
    BY <1>1, <2>1, <2>2, <2>3, Joined
  <2>. QED  BY <2>2, <2>4
<1>. HIDE DEF J3
<1>6. /\ J4 \in Seq(S) /\ Len(J4) = 4 * T
      /\ \A n \in 1 .. 4 * T : J4[n] =
           IF n <= 3 * T THEN J3[n] ELSE F("niceMedium")[n - 3 * T]
  <2>1. J3 \in Seq(S) /\ F("niceMedium") \in Seq(S) /\ Len(J3) = 3 * T
        /\ Len(F("niceMedium")) = T
    BY <1>2, <1>3, <1>5
  <2>2. 3 * T \in Nat /\ 3 * T + T = 4 * T
    BY <1>1
  <2>3. Joins(J4, J3, F("niceMedium"))
    BY DEF Joins
  <2>. HIDE DEF J4
  <2>4. /\ J4 \in Seq(S) /\ Len(J4) = 3 * T + T
        /\ \A n \in 1 .. 3 * T + T : J4[n] =
             IF n <= 3 * T THEN J3[n] ELSE F("niceMedium")[n - 3 * T]
    BY <1>1, <2>1, <2>2, <2>3, Joined
  <2>. QED  BY <2>2, <2>4
<1>. HIDE DEF J4
<1>7. /\ J5 \in Seq(S) /\ Len(J5) = 5 * T
      /\ \A n \in 1 .. 5 * T : J5[n] = IF n <= 4 * T THEN J4[n] ELSE F("unblock")[n - 4 * T]
  <2>1. J4 \in Seq(S) /\ F("unblock") \in Seq(S) /\ Len(J4) = 4 * T /\ Len(F("unblock")) = T
    BY <1>2, <1>3, <1>6
  <2>2. 4 * T \in Nat /\ 4 * T + T = 5 * T
    BY <1>1
  <2>3. Joins(J5, J4, F("unblock"))
    BY DEF Joins
  <2>. HIDE DEF J5
  <2>4. /\ J5 \in Seq(S) /\ Len(J5) = 4 * T + T
        /\ \A n \in 1 .. 4 * T + T : J5[n] =
             IF n <= 4 * T THEN J4[n] ELSE F("unblock")[n - 4 * T]
    BY <1>1, <2>1, <2>2, <2>3, Joined
  <2>. QED  BY <2>2, <2>4
<1>. HIDE DEF J5
<1>8. /\ J6 \in Seq(S) /\ Len(J6) = 6 * T
      /\ \A n \in 1 .. 6 * T : J6[n] = IF n <= 5 * T THEN J5[n] ELSE F("kill")[n - 5 * T]
  <2>1. J5 \in Seq(S) /\ F("kill") \in Seq(S) /\ Len(J5) = 5 * T /\ Len(F("kill")) = T
    BY <1>2, <1>3, <1>7
  <2>2. 5 * T \in Nat /\ 5 * T + T = 6 * T
    BY <1>1
  <2>3. Joins(J6, J5, F("kill"))
    BY DEF Joins
  <2>. HIDE DEF J6
  <2>4. /\ J6 \in Seq(S) /\ Len(J6) = 5 * T + T
        /\ \A n \in 1 .. 5 * T + T : J6[n] =
             IF n <= 5 * T THEN J5[n] ELSE F("kill")[n - 5 * T]
    BY <1>1, <2>1, <2>2, <2>3, Joined
  <2>. QED  BY <2>2, <2>4
<1>9. Scheduling!Script = J6
  BY DEF Scheduling!Script, J6, J5, J4, J3, J2, F
<1>. HIDE DEF J6
<1>10. ASSUME NEW n \in 0 .. 6 * T - 1
       PROVE  \E op \in Calling, r \in Requests :
          /\ J6[n + 1] = <<op, r>>
          /\ CallOf(r, n) = CallBefore(op) /\ CallOf(r, n + 1) = op
          /\ \A s \in Requests \ {r} : CallOf(s, n + 1) = CallOf(s, n)
  <2>. n + 1 \in 1 .. 6 * T /\ n \in Nat
    BY <1>1
  <2>1. CASE n < 1 * T
    <3>1. PICK m \in Int : m = n + 1 - 0 * T
      BY <1>1
    <3>2. m \in 1 .. T /\ m - 1 \in Requests /\ n = 0 * T + (m - 1)
      BY <1>1, <2>1, <3>1 DEF Requests
    <3>3. J6[n + 1] = J5[n + 1] /\ n + 1 \in 1 .. 5 * T
      BY <1>1, <1>8, <2>1
    <3>4. J6[n + 1] = J4[n + 1] /\ n + 1 \in 1 .. 4 * T
      BY <1>1, <1>7, <2>1, <3>3
    <3>5. J6[n + 1] = J3[n + 1] /\ n + 1 \in 1 .. 3 * T
      BY <1>1, <1>6, <2>1, <3>4
    <3>6. J6[n + 1] = J2[n + 1] /\ n + 1 \in 1 .. 2 * T
      BY <1>1, <1>5, <2>1, <3>5
    <3>7. J6[n + 1] = F("create")[m]
      BY <1>1, <1>4, <2>1, <3>1, <3>6
    <3>8. J6[n + 1] = <<"create", m - 1>>
      BY <1>2, <1>3, <3>2, <3>7
    <3>9. CallOf(m - 1, n) = CallBefore("create") /\ CallOf(m - 1, n + 1) = "create"
      BY <1>1, <3>2 DEF CallOf, CallBefore, Requests
    <3>10. ASSUME NEW s \in Requests \ {m - 1} PROVE CallOf(s, n + 1) = CallOf(s, n)
      <4>1. \A j \in 0 .. 5 : n # j * T + s
        BY <1>1, <3>2 DEF Requests
      <4>. QED  BY <4>1, CallStays
    <3>. QED  BY <1>3, <3>2, <3>8, <3>9, <3>10
  <2>2. CASE n >= 1 * T /\ n < 2 * T
    <3>1. PICK m \in Int : m = n + 1 - 1 * T
      BY <1>1
    <3>2. m \in 1 .. T /\ m - 1 \in Requests /\ n = 1 * T + (m - 1)
      BY <1>1, <2>2, <3>1 DEF Requests
    <3>3. J6[n + 1] = J5[n + 1] /\ n + 1 \in 1 .. 5 * T
      BY <1>1, <1>8, <2>2
    <3>4. J6[n + 1] = J4[n + 1] /\ n + 1 \in 1 .. 4 * T
      BY <1>1, <1>7, <2>2, <3>3
    <3>5. J6[n + 1] = J3[n + 1] /\ n + 1 \in 1 .. 3 * T
      BY <1>1, <1>6, <2>2, <3>4
    <3>6. J6[n + 1] = J2[n + 1] /\ n + 1 \in 1 .. 2 * T
      BY <1>1, <1>5, <2>2, <3>5
    <3>7. J6[n + 1] = F("niceOwn")[m]
      BY <1>1, <1>4, <2>2, <3>1, <3>6
    <3>8. J6[n + 1] = <<"niceOwn", m - 1>>
      BY <1>2, <1>3, <3>2, <3>7
    <3>9. CallOf(m - 1, n) = CallBefore("niceOwn") /\ CallOf(m - 1, n + 1) = "niceOwn"
      BY <1>1, <3>2 DEF CallOf, CallBefore, Requests
    <3>10. ASSUME NEW s \in Requests \ {m - 1} PROVE CallOf(s, n + 1) = CallOf(s, n)
      <4>1. \A j \in 0 .. 5 : n # j * T + s
        BY <1>1, <3>2 DEF Requests
      <4>. QED  BY <4>1, CallStays
    <3>. QED  BY <1>3, <3>2, <3>8, <3>9, <3>10
  <2>3. CASE n >= 2 * T /\ n < 3 * T
    <3>1. PICK m \in Int : m = n + 1 - 2 * T
      BY <1>1
    <3>2. m \in 1 .. T /\ m - 1 \in Requests /\ n = 2 * T + (m - 1)
      BY <1>1, <2>3, <3>1 DEF Requests
    <3>3. J6[n + 1] = J5[n + 1] /\ n + 1 \in 1 .. 5 * T
      BY <1>1, <1>8, <2>3
    <3>4. J6[n + 1] = J4[n + 1] /\ n + 1 \in 1 .. 4 * T
      BY <1>1, <1>7, <2>3, <3>3
    <3>5. J6[n + 1] = J3[n + 1] /\ n + 1 \in 1 .. 3 * T
      BY <1>1, <1>6, <2>3, <3>4
    <3>6. J6[n + 1] = F("block")[m]
      BY <1>1, <1>5, <2>3, <3>1, <3>5
    <3>7. J6[n + 1] = <<"block", m - 1>>
      BY <1>2, <1>3, <3>2, <3>6
    <3>8. CallOf(m - 1, n) = CallBefore("block") /\ CallOf(m - 1, n + 1) = "block"
      BY <1>1, <3>2 DEF CallOf, CallBefore, Requests
    <3>9. ASSUME NEW s \in Requests \ {m - 1} PROVE CallOf(s, n + 1) = CallOf(s, n)
      <4>1. \A j \in 0 .. 5 : n # j * T + s
        BY <1>1, <3>2 DEF Requests
      <4>. QED  BY <4>1, CallStays
    <3>. QED  BY <1>3, <3>2, <3>7, <3>8, <3>9
  <2>4. CASE n >= 3 * T /\ n < 4 * T
    <3>1. PICK m \in Int : m = n + 1 - 3 * T
      BY <1>1
    <3>2. m \in 1 .. T /\ m - 1 \in Requests /\ n = 3 * T + (m - 1)
      BY <1>1, <2>4, <3>1 DEF Requests
    <3>3. J6[n + 1] = J5[n + 1] /\ n + 1 \in 1 .. 5 * T
      BY <1>1, <1>8, <2>4
    <3>4. J6[n + 1] = J4[n + 1] /\ n + 1 \in 1 .. 4 * T
      BY <1>1, <1>7, <2>4, <3>3
    <3>5. J6[n + 1] = F("niceMedium")[m]
      BY <1>1, <1>6, <2>4, <3>1, <3>4
    <3>6. J6[n + 1] = <<"niceMedium", m - 1>>
      BY <1>2, <1>3, <3>2, <3>5
    <3>7. CallOf(m - 1, n) = CallBefore("niceMedium") /\ CallOf(m - 1, n + 1) = "niceMedium"
      BY <1>1, <3>2 DEF CallOf, CallBefore, Requests
    <3>8. ASSUME NEW s \in Requests \ {m - 1} PROVE CallOf(s, n + 1) = CallOf(s, n)
      <4>1. \A j \in 0 .. 5 : n # j * T + s
        BY <1>1, <3>2 DEF Requests
      <4>. QED  BY <4>1, CallStays
    <3>. QED  BY <1>3, <3>2, <3>6, <3>7, <3>8
  <2>5. CASE n >= 4 * T /\ n < 5 * T
    <3>1. PICK m \in Int : m = n + 1 - 4 * T
      BY <1>1
    <3>2. m \in 1 .. T /\ m - 1 \in Requests /\ n = 4 * T + (m - 1)
      BY <1>1, <2>5, <3>1 DEF Requests
    <3>3. J6[n + 1] = J5[n + 1] /\ n + 1 \in 1 .. 5 * T
      BY <1>1, <1>8, <2>5
    <3>4. J6[n + 1] = F("unblock")[m]
      BY <1>1, <1>7, <2>5, <3>1, <3>3
    <3>5. J6[n + 1] = <<"unblock", m - 1>>
      BY <1>2, <1>3, <3>2, <3>4
    <3>6. CallOf(m - 1, n) = CallBefore("unblock") /\ CallOf(m - 1, n + 1) = "unblock"
      BY <1>1, <3>2 DEF CallOf, CallBefore, Requests
    <3>7. ASSUME NEW s \in Requests \ {m - 1} PROVE CallOf(s, n + 1) = CallOf(s, n)
      <4>1. \A j \in 0 .. 5 : n # j * T + s
        BY <1>1, <3>2 DEF Requests
      <4>. QED  BY <4>1, CallStays
    <3>. QED  BY <1>3, <3>2, <3>5, <3>6, <3>7
  <2>6. CASE n >= 5 * T
    <3>1. PICK m \in Int : m = n + 1 - 5 * T
      BY <1>1
    <3>2. m \in 1 .. T /\ m - 1 \in Requests /\ n = 5 * T + (m - 1)
      BY <1>1, <2>6, <3>1 DEF Requests
    <3>3. J6[n + 1] = F("kill")[m]
      BY <1>1, <1>8, <2>6, <3>1
    <3>4. J6[n + 1] = <<"kill", m - 1>>
      BY <1>2, <1>3, <3>2, <3>3
    <3>5. CallOf(m - 1, n) = CallBefore("kill") /\ CallOf(m - 1, n + 1) = "kill"
      BY <1>1, <3>2 DEF CallOf, CallBefore, Requests
    <3>6. ASSUME NEW s \in Requests \ {m - 1} PROVE CallOf(s, n + 1) = CallOf(s, n)
      <4>1. \A j \in 0 .. 5 : n # j * T + s
        BY <1>1, <3>2 DEF Requests
      <4>. QED  BY <4>1, CallStays
    <3>. QED  BY <1>3, <3>2, <3>4, <3>5, <3>6
  <2>. QED  BY <1>1, <2>1, <2>2, <2>3, <2>4, <2>5, <2>6
<1>. QED  BY <1>8, <1>9, <1>10
(* Every worker is as the last of its calls left it, also once Ctrl+C has  *)
(* killed the test: nobody calls on the workers from then on.              *)
PrioTypeOK ==
  /\ label \in {"prompt", "create", "return", "done"}
  /\ rq \in 0 .. 6 * TOTAL_PROCESSES
  /\ p_rqs \in [Requests -> [pid : Pids, state : Calling \cup {"KILLED"}]]
  /\ label = "prompt" => rq = 0
  /\ \A r \in Requests : p_rqs[r].state = CallOf(r, rq)
AsCalled ==
  /\ \A r \in Requests :
       /\ p_rqs[r].state \notin {"KILLED", "kill"} => p_rqs[r].pid > TestPid
       /\ p_rqs[r].state \in {"create", "niceOwn", "unblock"} => Scheduled(p_rqs[r].pid)
       /\ p_rqs[r].state \in {"block", "niceMedium"} => status[p_rqs[r].pid] = "BLOCKED"
       /\ p_rqs[r].state \notin {"KILLED", "kill"} =>
            priority[p_rqs[r].pid] = Scheduling!LastNice(r, p_rqs[r].state)
  /\ \A r, s \in Requests :
       /\ p_rqs[r].state \notin {"KILLED", "kill"} /\ p_rqs[s].state \notin {"KILLED", "kill"}
       /\ p_rqs[r].pid = p_rqs[s].pid
       => r = s

PrioInv ==
  IInv /\ RunInv /\ (fault = "none" => Family /\ PrioTypeOK /\ AsCalled)
PrioAlone == PrioInv /\ fault = "none" /\ IInv'
PrioKept == fault' = "none" => Family' /\ PrioTypeOK' /\ AsCalled'

LEMMA AsCalledAfter ==
  ASSUME \A r \in Requests :
           /\ p_rqs'[r].state \notin {"KILLED", "kill"} => p_rqs'[r].pid > TestPid
           /\ p_rqs'[r].state \in {"create", "niceOwn", "unblock"} =>
                status'[p_rqs'[r].pid] \in {"READY", "RUNNING"}
           /\ p_rqs'[r].state \in {"block", "niceMedium"} =>
                status'[p_rqs'[r].pid] = "BLOCKED"
           /\ p_rqs'[r].state \notin {"KILLED", "kill"} =>
                priority'[p_rqs'[r].pid] = Scheduling!LastNice(r, p_rqs'[r].state),
         \A r, s \in Requests :
           /\ p_rqs'[r].state \notin {"KILLED", "kill"} /\ p_rqs'[s].state \notin {"KILLED",
              "kill"}
           /\ p_rqs'[r].pid = p_rqs'[s].pid
           => r = s
  PROVE  AsCalled'
<1>1. /\ TestPid' = TestPid /\ Requests' = Requests
      /\ \A r : Scheduled(p_rqs[r].pid)' <=> status'[p_rqs'[r].pid] \in {"READY", "RUNNING"}
  BY DEF TestPid, Requests, Scheduled
<1>2. \A r : Scheduling!LastNice(r, p_rqs[r].state)' = Scheduling!LastNice(r, p_rqs'[r].state)
  BY DEF Scheduling!LastNice
<1>. QED  BY <1>1, <1>2 DEF AsCalled

(* What a worker that is called for is like, and stays while untouched.    *)
LEMMA WorkerStays ==
  ASSUME PrioAlone, NEW q, NEW prio, q.pid \in Pids,
         q.state \notin {"KILLED", "kill"} => q.pid > TestPid,
         q.state \in {"create", "niceOwn", "unblock"} => Scheduled(q.pid),
         q.state \in {"block", "niceMedium"} => status[q.pid] = "BLOCKED",
         q.state \notin {"KILLED", "kill"} => priority[q.pid] = prio,
         q.state \in Calling \cup {"KILLED"},
         q.state \notin {"KILLED", "kill"} => (Alive(q.pid) => Untouched(q.pid))
  PROVE  /\ q.state \in {"create", "niceOwn", "unblock"} => status'[q.pid] \in {"READY",
            "RUNNING"}
         /\ q.state \in {"block", "niceMedium"} => status'[q.pid] = "BLOCKED"
         /\ q.state \notin {"KILLED", "kill"} => priority'[q.pid] = prio
<1>. SUFFICES ASSUME q.state \notin {"KILLED", "kill"}
              PROVE  /\ Scheduled(q.pid) => status'[q.pid] \in {"READY", "RUNNING"}
                     /\ status[q.pid] = "BLOCKED" => status'[q.pid] = "BLOCKED"
                     /\ priority'[q.pid] = priority[q.pid]
  OBVIOUS
<1>1. Scheduled(q.pid) \/ status[q.pid] = "BLOCKED"
  BY DEF Calling
<1>2. Alive(q.pid)
  BY <1>1 DEF Alive, Scheduled
<1>3. Untouched(q.pid) /\ Steady(q.pid)
  BY <1>2 DEF Untouched
<1>4. PICK p \in Pids : p = q.pid
  OBVIOUS
<1>5. Scheduled(p)' <=> Scheduled(p)
  BY <1>3, <1>4, SteadyIs DEF PrioAlone, PrioInv
<1>. QED  BY <1>3, <1>4, <1>5 DEF Untouched, Steady, Scheduled

LEMMA PrioKeep ==
  ASSUME PrioAlone, Family', UNCHANGED p_rqs, rq' = rq,
         label' \in {"prompt", "create", "return", "done"}, label' = "prompt" => label =
           "prompt",
         \A p \in Pids : p > TestPid => (Alive(p) => Untouched(p))
  PROVE  PrioKept
<1>1. PrioTypeOK /\ AsCalled /\ IInv
  BY DEF PrioAlone, PrioInv
<1>2. PrioTypeOK'
  BY <1>1 DEF PrioTypeOK, CallOf, Requests
<1>3. ASSUME NEW r \in Requests
      PROVE  /\ p_rqs'[r].state \notin {"KILLED", "kill"} => p_rqs'[r].pid > TestPid
             /\ p_rqs'[r].state \in {"create", "niceOwn", "unblock"} =>
                  status'[p_rqs'[r].pid] \in {"READY", "RUNNING"}
             /\ p_rqs'[r].state \in {"block", "niceMedium"} =>
                  status'[p_rqs'[r].pid] = "BLOCKED"
             /\ p_rqs'[r].state \notin {"KILLED", "kill"} =>
                  priority'[p_rqs'[r].pid] = Scheduling!LastNice(r, p_rqs'[r].state)
  <2>1. PICK q : q = p_rqs[r]
    OBVIOUS
  <2>2. /\ q.pid \in Pids /\ q.state \in Calling \cup {"KILLED"}
        /\ q.state \notin {"KILLED", "kill"} => q.pid > TestPid
        /\ q.state \in {"create", "niceOwn", "unblock"} => Scheduled(q.pid)
        /\ q.state \in {"block", "niceMedium"} => status[q.pid] = "BLOCKED"
        /\ q.state \notin {"KILLED", "kill"} => priority[q.pid] = Scheduling!LastNice(r, q.state)
    BY <1>1, <2>1 DEF PrioTypeOK, AsCalled
  <2>3. q.state \notin {"KILLED", "kill"} => (Alive(q.pid) => Untouched(q.pid))
    BY <2>2
  <2>4. /\ q.state \in {"create", "niceOwn", "unblock"} => status'[q.pid] \in {"READY",
           "RUNNING"}
        /\ q.state \in {"block", "niceMedium"} => status'[q.pid] = "BLOCKED"
        /\ q.state \notin {"KILLED", "kill"} => priority'[q.pid] = Scheduling!LastNice(r, q.state)
    BY <2>2, <2>3, WorkerStays
  <2>. QED  BY <2>1, <2>2, <2>4
<1>4. \A r, s \in Requests :
           /\ p_rqs'[r].state \notin {"KILLED", "kill"} /\ p_rqs'[s].state \notin {"KILLED",
              "kill"}
           /\ p_rqs'[r].pid = p_rqs'[s].pid
           => r = s
  BY <1>1 DEF AsCalled
<1>5. AsCalled'
  BY <1>3, <1>4, AsCalledAfter
<1>. QED  BY <1>2, <1>5 DEF PrioKept

(* A call on one worker, whose pid is "pid" from here on.                  *)
LEMMA CallKept ==
  ASSUME PrioAlone, Family', label = "create", rq < 6 * TOTAL_PROCESSES,
         NEW op \in Calling, NEW w \in Requests, Scheduling!Script[rq + 1] = <<op, w>>,
         rq' = rq + 1, label' \in {"create", "return"},
         NEW pid \in Pids, p_rqs' = [p_rqs EXCEPT ![w] = [pid |-> pid, state |-> op]],
         op # "create" => pid = p_rqs[w].pid,
         op = "create" => ~InTable(pid),
         op # "kill" => pid > TestPid,
         op \in {"create", "niceOwn", "unblock"} => status'[pid] \in {"READY", "RUNNING"},
         op \in {"block", "niceMedium"} => status'[pid] = "BLOCKED",
         op # "kill" => priority'[pid] = Scheduling!LastNice(w, op),
         \A p \in Pids \ {pid} : p > TestPid => (Alive(p) => Untouched(p))
  PROVE  PrioKept
<1>1. PrioTypeOK /\ AsCalled /\ IInv
  BY DEF PrioAlone, PrioInv
<1>2. TOTAL_PROCESSES \in Nat /\ rq \in 0 .. 6 * TOTAL_PROCESSES - 1
      /\ rq' \in 0 .. 6 * TOTAL_PROCESSES
  BY <1>1, UserTestsAssumption DEF Scheduling!TestSchedulingAssumption, PrioTypeOK
<1>3. /\ CallOf(w, rq) = CallBefore(op) /\ CallOf(w, rq') = op
      /\ \A r \in Requests \ {w} : CallOf(r, rq') = CallOf(r, rq)
  <2>1. PICK o \in Calling, r \in Requests :
          /\ Scheduling!Script[rq + 1] = <<o, r>>
          /\ CallOf(r, rq) = CallBefore(o) /\ CallOf(r, rq + 1) = o
          /\ \A s \in Requests \ {r} : CallOf(s, rq + 1) = CallOf(s, rq)
    BY <1>2, ScriptIs
  <2>. QED  BY <2>1
<1>. DEFINE before(r) == p_rqs[r]
            after(r) == p_rqs'[r]
<1>4. /\ after(w).pid = pid /\ after(w).state = op
      /\ \A r \in Requests \ {w} : after(r) = before(r)
      /\ \A r \in Requests : /\ before(r).pid \in Pids
                             /\ before(r).state \in Calling \cup {"KILLED"}
                             /\ before(r).state = CallOf(r, rq)
      /\ p_rqs' \in [Requests -> [pid : Pids, state : Calling \cup {"KILLED"}]]
  BY <1>1 DEF PrioTypeOK
<1>5. \A r \in Requests : after(r).state = CallOf(r, rq')
  BY <1>3, <1>4
<1>6. PrioTypeOK'
  <2>1. /\ label' \in {"prompt", "create", "return", "done"} /\ label' # "prompt"
        /\ \A r \in Requests : p_rqs'[r].state = CallOf(r, rq')
        /\ Requests' = Requests
    BY <1>5 DEF Requests
  <2>2. \A r \in Requests : CallOf(r, rq)' = CallOf(r, rq')
    BY DEF CallOf
  <2>. QED  BY <1>2, <1>4, <2>1, <2>2 DEF PrioTypeOK
<1>7. ASSUME NEW r \in Requests \ {w}, before(r).state \notin {"KILLED", "kill"}
      PROVE  before(r).pid # pid
  <2>1. InTable(before(r).pid)
    BY <1>1, <1>4, <1>7 DEF AsCalled, Scheduled, InTable, Calling
  <2>2. op # "create" => before(w).state \notin {"KILLED", "kill"}
    BY <1>3, <1>4 DEF CallBefore, Calling
  <2>3. op # "create" => before(r).pid # before(w).pid
    BY <1>1, <1>7, <2>2 DEF AsCalled
  <2>. QED  BY <2>1, <2>3
<1>8. ASSUME NEW r \in Requests
      PROVE  /\ p_rqs'[r].state \notin {"KILLED", "kill"} => p_rqs'[r].pid > TestPid
             /\ p_rqs'[r].state \in {"create", "niceOwn", "unblock"} =>
                  status'[p_rqs'[r].pid] \in {"READY", "RUNNING"}
             /\ p_rqs'[r].state \in {"block", "niceMedium"} =>
                  status'[p_rqs'[r].pid] = "BLOCKED"
             /\ p_rqs'[r].state \notin {"KILLED", "kill"} =>
                  priority'[p_rqs'[r].pid] = Scheduling!LastNice(r, p_rqs'[r].state)
  <2>1. CASE r = w
    <3>1. PICK q : q = p_rqs'[r]
      OBVIOUS
    <3>2. q.pid = pid /\ q.state = op
      BY <1>4, <2>1, <3>1
    <3>3. priority'[pid] = Scheduling!LastNice(r, op) \/ op = "kill"
      BY <2>1
    <3>. QED  BY <3>1, <3>2, <3>3
  <2>2. CASE r # w
    <3>1. PICK q : q = p_rqs[r]
      OBVIOUS
    <3>2. /\ q.pid \in Pids /\ q.state \in Calling \cup {"KILLED"}
          /\ q.state \notin {"KILLED", "kill"} => q.pid > TestPid
          /\ q.state \in {"create", "niceOwn", "unblock"} => Scheduled(q.pid)
          /\ q.state \in {"block", "niceMedium"} => status[q.pid] = "BLOCKED"
          /\ q.state \notin {"KILLED", "kill"} => priority[q.pid] = Scheduling!LastNice(r, q.state)
      BY <1>1, <3>1 DEF PrioTypeOK, AsCalled
    <3>3. q.state \notin {"KILLED", "kill"} => q.pid # pid
      BY <1>7, <2>2, <3>1
    <3>4. q.state \notin {"KILLED", "kill"} => (Alive(q.pid) => Untouched(q.pid))
      BY <3>2, <3>3
    <3>5. /\ q.state \in {"create", "niceOwn", "unblock"} => status'[q.pid] \in {"READY",
             "RUNNING"}
          /\ q.state \in {"block", "niceMedium"} => status'[q.pid] = "BLOCKED"
          /\ q.state \notin {"KILLED", "kill"} => priority'[q.pid] = Scheduling!LastNice(r, q.state)
      BY <3>2, <3>4, WorkerStays
    <3>6. p_rqs'[r] = q
      BY <1>4, <2>2, <3>1
    <3>. QED  BY <3>2, <3>5, <3>6
  <2>. QED  BY <2>1, <2>2
<1>9. ASSUME NEW r \in Requests, NEW s \in Requests,
             after(r).state \notin {"KILLED", "kill"}, after(s).state \notin {"KILLED",
             "kill"},
             after(r).pid = after(s).pid
      PROVE  r = s
  <2>1. CASE r # w /\ s # w
    BY <1>1, <1>4, <1>9, <2>1 DEF AsCalled
  <2>2. CASE r = w /\ s # w
    BY <1>4, <1>7, <1>9, <2>2
  <2>3. CASE r # w /\ s = w
    BY <1>4, <1>7, <1>9, <2>3
  <2>. QED  BY <2>1, <2>2, <2>3
<1>10. AsCalled'
  BY <1>8, <1>9, AsCalledAfter
<1>. QED  BY <1>6, <1>10 DEF PrioKept

LEMMA PrioRuns ==
  ASSUME PrioAlone, UserMode, currentPid = TestPid
  PROVE  /\ IInv /\ IInv' /\ RunInv /\ Family /\ PrioTypeOK /\ AsCalled
         /\ TestPid \in Pids /\ Alive(TestPid) /\ InTable(TestPid) /\ label # "prompt"
         /\ TestPid \notin {IDLE_PID, SHELL_PID} /\ control = "user"
         /\ \A p : p > TestPid => p \notin {IDLE_PID, SHELL_PID, TestPid}
<1>1. /\ IInv /\ IInv' /\ RunInv /\ Family /\ PrioTypeOK /\ AsCalled
      /\ control = "user"
  BY DEF PrioAlone, PrioInv, UserMode
<1>2. TestPid \in Pids /\ Alive(TestPid) /\ InTable(TestPid)
  BY <1>1 DEF IInv, TypeOK, RunInv, RunningIsCurrent, Alive, InTable
<1>3. \A p : p > TestPid => p \notin {IDLE_PID, SHELL_PID, TestPid}
  BY DEF IDLE_PID, SHELL_PID, TestPid
<1>. QED  BY <1>1, <1>2, <1>3, TestIs, FamilyPids

LEMMA PrioCallKept ==
  ASSUME PrioAlone, Scheduling!TestPrio, TOTAL_PROCESSES <= QtyReadyLevels
  PROVE  PrioKept
<1>. SUFFICES ASSUME fault' = "none" PROVE PrioKept
  BY DEF PrioKept
<1>1. PICK op, w : Scheduling!Script[rq + 1] = <<op, w>>
                   /\ op = Scheduling!Script[rq + 1][1] /\ w = Scheduling!Script[rq + 1][2]
                   /\ op \in Calling /\ w \in Requests
                   /\ CallOf(w, rq) = CallBefore(op)
  <2>1. rq \in 0 .. 6 * TOTAL_PROCESSES - 1
    BY ScriptIs, UserTestsAssumption DEF Scheduling!TestPrio, PrioAlone, PrioInv, PrioTypeOK,
       Scheduling!TestSchedulingAssumption
  <2>2. PICK o \in Calling, r \in Requests :
          Scheduling!Script[rq + 1] = <<o, r>> /\ CallOf(r, rq) = CallBefore(o)
    BY <2>1, ScriptIs
  <2>. QED  BY <2>2
<1>2. /\ UserMode /\ currentPid = TestPid /\ label = "create" /\ rq < 6 * TOTAL_PROCESSES
      /\ Scheduling!PrioCall(op, w) /\ rq' = rq + 1 /\ label' \in {"create", "return"}
  BY <1>1, ScriptIs, SchedulingNames DEF Scheduling!TestPrio, Scheduling!At, Scheduling!Runs
<1>3. /\ IInv /\ IInv' /\ Family /\ TestPid \in Pids /\ Alive(TestPid) /\ InTable(TestPid)
      /\ control = "user"
      /\ \A p : p > TestPid => p \notin {IDLE_PID, SHELL_PID, TestPid}
  BY <1>2, PrioRuns
<1>4. PICK q : q = p_rqs[w]
  OBVIOUS
<1>5. /\ q.pid \in Pids /\ q.state = CallBefore(op)
      /\ op # "create" => q.pid > TestPid
      /\ op \in {"niceOwn", "kill"} => Scheduled(q.pid)
      /\ op = "block" => Scheduled(q.pid)
      /\ op \in {"niceMedium", "unblock"} => status[q.pid] = "BLOCKED"
      /\ op # "create" => priority[q.pid] = Scheduling!LastNice(w, q.state)
  BY <1>1, <1>2, <1>4, PrioRuns DEF PrioTypeOK, AsCalled, CallBefore, Calling
<1>6. /\ Scheduling!LastNice(w, "create") = 2 /\ Scheduling!LastNice(w, "niceOwn") = w
      /\ Scheduling!LastNice(w, "block") = w /\ Scheduling!LastNice(w, "niceMedium") = 1
      /\ Scheduling!LastNice(w, "unblock") = 1
  BY DEF Scheduling!LastNice
<1>7. CASE op = "create"
  <2>1. CreateProcess(2, FALSE)
    BY <1>2, <1>7, SchedulingCreates DEF Scheduling!PrioCall
  <2>2. PICK new : new = nextAvailablePid
    OBVIOUS
  <2>3. /\ Family' /\ new \in Pids /\ new > TestPid /\ ~InTable(new) /\ status'[new] = "READY"
        /\ \A p \in Pids \ {new} : Untouched(p)
    BY <1>2, <1>3, <2>1, <2>2, WorkerCreated
  <2>4. p_rqs' = [p_rqs EXCEPT ![w] = [pid |-> new, state |-> op]]
    BY <1>2, <1>7, <2>2 DEF Scheduling!PrioCall
  <2>5. priority'[new] = 2
    BY <1>3, <2>1, <2>2, <2>3 DEF CreateProcess, Create, Crash, IInv, TypeOK
  <2>. QED  BY <1>1, <1>2, <1>6, <1>7, <2>3, <2>4, <2>5, CallKept
<1>8. op # "create" => p_rqs' = [p_rqs EXCEPT ![w] = [pid |-> q.pid, state |-> op]]
  BY <1>1, <1>2, <1>4, PrioRuns DEF Scheduling!PrioCall, PrioTypeOK
<1>9. ASSUME op \in {"niceOwn", "niceMedium"}
      PROVE  PrioKept
  <2>1. PICK prio : SetPriority(q.pid, prio) /\ prio = Scheduling!LastNice(w, op)
    BY <1>2, <1>4, <1>6, <1>9, SchedulingCalls DEF Scheduling!PrioCall
  <2>2. /\ UNCHANGED <<status, parent, foreground, waiting, control, currentPid,
                       shouldKillForeground>>
        /\ priority' = [priority EXCEPT ![q.pid] = prio]
    BY <2>1 DEF SetPriority, waitVars, cpuVars
  <2>3. /\ \A p \in Pids \ {q.pid} : Untouched(p)
        /\ priority'[q.pid] = prio
    BY <1>3, <1>5, <2>2 DEF Untouched, Steady, IInv, TypeOK
  <2>4. Family'
    BY <1>2, <1>3, <2>2 DEF Family, InTable, Alive, TestPid
  <2>5. op = "niceOwn" => status'[q.pid] \in {"READY", "RUNNING"}
    BY <1>5, <2>2 DEF Scheduled
  <2>6. /\ op = "niceMedium" => status'[q.pid] = "BLOCKED"
        /\ priority'[q.pid] = Scheduling!LastNice(w, op)
    BY <1>5, <2>1, <2>2, <2>3
  <2>. QED  BY <1>1, <1>2, <1>4, <1>5, <1>8, <1>9, <2>3, <2>4, <2>5, <2>6, CallKept
<1>10. ASSUME NEW st \in {"READY", "BLOCKED"}, op \in {"block", "unblock"},
              op = "unblock" <=> st = "READY",
              status' = [status EXCEPT ![q.pid] = st],
              UNCHANGED <<parent, priority, foreground, waiting, control, currentPid,
                          shouldKillForeground>>
       PROVE  PrioKept
  <2>1. q.pid \notin {IDLE_PID, SHELL_PID, TestPid} /\ InTable(q.pid)
    BY <1>3, <1>5, <1>10 DEF Scheduled, InTable
  <2>2. /\ \A p \in Pids \ {q.pid} : Untouched(p)
        /\ status'[q.pid] = st
    BY <1>3, <1>5, <1>10 DEF Untouched, Steady, IInv, TypeOK
  <2>3. \A p \in Pids : InTable(p)' => /\ InTable(p) /\ parent'[p] = parent[p]
                                       /\ foreground'[p] = foreground[p]
    BY <1>10, <2>1, <2>2 DEF InTable, Untouched, Steady
  <2>4. Alive(SHELL_PID) => Alive(SHELL_PID)'
    BY <1>3, <2>1, <2>2, FamilyPids DEF Alive, Untouched, Steady
  <2>5. waiting' \subseteq waiting /\ (control' = "kill" => currentPid' = TestPid)
    BY <1>3, <1>10 DEF Family
  <2>6. Family'
    BY <1>2, <1>3, <2>3, <2>4, <2>5, FamilyKept
  <2>7. /\ op = "unblock" => status'[q.pid] \in {"READY", "RUNNING"}
        /\ priority'[q.pid] = Scheduling!LastNice(w, op)
    BY <1>5, <1>6, <1>10, <2>2 DEF CallBefore
  <2>8. op = "block" => status'[q.pid] = "BLOCKED"
    BY <1>10, <2>2
  <2>. QED  BY <1>1, <1>2, <1>4, <1>5, <1>8, <1>10, <2>2, <2>6, <2>7, <2>8, CallKept
<1>11. CASE op = "block"
  <2>1. Block(q.pid)
    BY <1>2, <1>4, <1>11, SchedulingCalls DEF Scheduling!PrioCall
  <2>2. q.pid # IDLE_PID
    BY <1>3, <1>5, <1>11
  <2>3. /\ status' = [status EXCEPT ![q.pid] = "BLOCKED"]
        /\ UNCHANGED <<parent, priority, foreground, waiting, control, currentPid,
                       shouldKillForeground>>
    BY <2>1, <2>2 DEF Block, Suspend, waitVars, cpuVars
  <2>. QED  BY <1>10, <1>11, <2>3
<1>12. CASE op = "unblock"
  <2>1. Unblock(q.pid)
    BY <1>2, <1>4, <1>12, SchedulingCalls DEF Scheduling!PrioCall
  <2>2. /\ status' = [status EXCEPT ![q.pid] = "READY"]
        /\ UNCHANGED <<parent, priority, foreground, waiting, control, currentPid,
                       shouldKillForeground>>
    BY <2>1 DEF Unblock
  <2>. QED  BY <1>10, <1>12, <2>2
<1>13. CASE op = "kill"
  <2>1. KillProcess(q.pid)
    BY <1>2, <1>4, <1>13, SchedulingKills DEF Scheduling!PrioCall, Kill
  <2>2. /\ Family'
        /\ \A p \in Pids \ {q.pid} : p > TestPid => (Alive(p) => Untouched(p))
    BY <1>2, <1>3, <1>5, <1>13, <2>1, WorkerDies
  <2>. QED  BY <1>1, <1>2, <1>4, <1>5, <1>8, <1>13, <2>2, CallKept
<1>. QED  BY <1>1, <1>7, <1>9, <1>11, <1>12, <1>13 DEF Calling

(* testPrio creates one process for each of its first calls, and no other  *)
(* step adds to the table.                                                 *)
Created == IF rq < TOTAL_PROCESSES THEN rq ELSE TOTAL_PROCESSES
PrioCount == processCount <= 3 + Created

LEMMA CountIsNatural == IInv => processCount \in Nat
<1>1. IInv => processCount \in 0 .. MaxProcesses
  BY DEF IInv, TypeOK
<1>. QED  BY <1>1, SizeAssumption

LEMMA CountIsNaturalNext == IInv' => processCount' \in Nat
<1>1. IInv' => processCount' \in 0 .. MaxProcesses
  BY DEF IInv, TypeOK
<1>. QED  BY <1>1, SizeAssumption

LEMMA TableShrinks ==
  ASSUME IInv, Moves
  PROVE  processCount' \in Nat /\ processCount' <= processCount
<1>1. IInv' /\ processCount \in Nat /\ processCount' \in Nat
  <2>1. IInv'
    BY TestCallIsNext, NextIInv
  <2>. QED  BY <2>1, CountIsNatural, CountIsNaturalNext
<1>2. CASE UNCHANGED processCount
  BY <1>1, <1>2
<1>3. ASSUME NEW dead \in SUBSET Pids, NEW ns, NEW np, NEW nz,
             DestroyZombies(dead, ns, np, nz)
      PROVE  processCount' <= processCount
  <2>1. Cardinality(dead) \in Nat
    BY PidsFinite, FS_Subset, FS_CardinalityType
  <2>. QED  BY <1>1, <1>3, <2>1 DEF DestroyZombies
<1>4. ASSUME NEW p \in Pids, KillProcess(p) PROVE processCount' <= processCount
  <2>1. zombieChildren[p] \cup (IF Inherits(parent[p], p) THEN {} ELSE {p}) \in SUBSET Pids
    BY DEF IInv, TypeOK
  <2>. QED  BY <1>3, <1>4, <2>1 DEF KillProcess
<1>5. ASSUME NEW p \in Pids, Reap(p) PROVE processCount' <= processCount
  BY <1>3, <1>5 DEF Reap
<1>6. currentPid \in Pids /\ targetWaitPid[currentPid] \in Pids
  BY DEF IInv, TypeOK
<1>7. CASE UNCHANGED vars \/ TimerTick \/ SoftTick \/ CtrlC \/ Yield
  BY <1>2, <1>7 DEF vars, tableVars, TimerTick, SoftTick, DoSchedule, CtrlC, Yield
<1>8. CASE ForegroundKill \/ Exit \/ \E p \in Pids : Kill(p)
  BY <1>1, <1>4, <1>6, <1>8 DEF ForegroundKill, Exit, Kill
<1>9. CASE WaitReturn
  BY <1>1, <1>2, <1>5, <1>6, <1>9 DEF WaitReturn, Crash, tableVars
<1>10. ASSUME NEW p \in Pids, WaitPid(p) PROVE processCount' <= processCount
  <2>1. Reap(p) \/ UNCHANGED processCount
    BY <1>10 DEF WaitPid, tableVars
  <2>. QED  BY <1>2, <1>5, <2>1
<1>11. ASSUME NEW p \in Pids, Block(p) \/ Unblock(p) PROVE UNCHANGED processCount
  BY <1>11 DEF Block, Unblock, Crash, tableVars
<1>12. CASE \E p \in Pids, prio \in Levels : SetPriority(p, prio)
  BY <1>2, <1>12 DEF SetPriority, tableVars
<1>. QED  BY <1>1, <1>2, <1>7, <1>8, <1>9, <1>10, <1>11, <1>12 DEF Moves

LEMMA CreateCounts ==
  ASSUME NEW prio, NEW fg, Create(prio, fg), processCount \in Nat
  PROVE  processCount' \in Nat /\ processCount' <= processCount + 1
BY DEF Create, Crash, tableVars

LEMMA PrioCalls ==
  ASSUME PrioInv, Scheduling!PrioNext, TOTAL_PROCESSES <= QtyReadyLevels
  PROVE  /\ fault = "none"
         /\ \/ Moves /\ rq' \in {rq, rq + 1}
            \/ Creates /\ label = "prompt" /\ rq' = rq
            \/ Creates /\ rq < TOTAL_PROCESSES /\ rq' = rq + 1
<1>1. /\ 0 \in Levels /\ 1 \in Levels /\ 2 \in Levels /\ TRUE \in BOOLEAN /\ FALSE \in BOOLEAN
      /\ SHELL_PID # IDLE_PID /\ MaxProcesses \in Nat /\ TOTAL_PROCESSES \in Nat \ {0}
      /\ QtyReadyLevels \in Nat
  BY SizeAssumption, UserTestsAssumption
     DEF Scheduling!TestSchedulingAssumption, Levels, SHELL_PID, IDLE_PID
<1>3. CASE Scheduling!Shell
  <2>1. \/ CreateProcess(1, TRUE) /\ label = "prompt"
        \/ WaitPid(TestPid) /\ label # "prompt"
    BY <1>3, SchedulingNames, SchedulingCreates, SchedulingWaits
       DEF Scheduling!Shell, Scheduling!Runs, UserMode
  <2>2. fault = "none"
    BY <1>3, SchedulingNames DEF Scheduling!Shell, Scheduling!Runs, UserMode
  <2>3. CreateProcess(1, TRUE) /\ label = "prompt" => Creates
    BY <1>1 DEF Creates
  <2>4. WaitPid(TestPid) /\ label # "prompt" => Moves
    BY <2>2 DEF Moves, PrioInv, Family
  <2>5. rq' = rq
    BY <1>3 DEF Scheduling!Shell
  <2>. QED  BY <2>1, <2>2, <2>3, <2>4, <2>5
<1>4. CASE Scheduling!Worker
  BY <1>4, SchedulingNames, SchedulingTicks DEF Scheduling!Worker, Scheduling!testVars,
  UserMode,
     Moves
<1>5. CASE Scheduling!TestPrio
  <2>1. fault = "none"
    BY <1>5, SchedulingNames DEF Scheduling!TestPrio, Scheduling!At, Scheduling!Runs, UserMode
  <2>2. rq \in 0 .. 6 * TOTAL_PROCESSES - 1
    BY <1>1, <1>5, <2>1, ScriptIs DEF Scheduling!TestPrio, PrioInv, PrioTypeOK
  <2>3. PICK op \in Calling, w \in Requests :
          /\ Scheduling!Script[rq + 1] = <<op, w>>
          /\ CallOf(w, rq) = CallBefore(op)
    BY <2>2, ScriptIs
  <2>4. Scheduling!PrioCall(op, w)
    BY <1>5, <2>3 DEF Scheduling!TestPrio
  <2>5. PICK p : p = p_rqs[w].pid
    OBVIOUS
  <2>6. p \in Pids /\ w \in Levels /\ p_rqs[w].state = CallBefore(op)
    BY <1>1, <2>1, <2>3, <2>5 DEF PrioInv, PrioTypeOK, Requests, Levels
  <2>7. op \in {"block", "unblock"} => p > TestPid
    <3>1. op \in {"block", "unblock"} => CallBefore(op) \notin {"KILLED", "kill"}
      BY DEF CallBefore
    <3>. QED  BY <2>1, <2>5, <2>6, <3>1 DEF PrioInv, AsCalled
  <2>8. \/ op = "create" /\ CreateProcess(2, FALSE)
        \/ \E prio \in Levels : SetPriority(p, prio)
        \/ Kill(p)
        \/ op \in {"block", "unblock"} /\ (Block(p) \/ Unblock(p))
    BY <1>1, <2>4, <2>5, <2>6, SchedulingCreates, SchedulingKills, SchedulingCalls
       DEF Scheduling!PrioCall
  <2>9. op = "create" => rq < TOTAL_PROCESSES
    BY <1>1, <2>2, <2>3 DEF CallOf, CallBefore, Requests
  <2>10. rq' = rq + 1
    BY <1>5 DEF Scheduling!TestPrio
  <2>. QED  BY <1>1, <2>1, <2>6, <2>7, <2>8, <2>9, <2>10 DEF Moves, Creates
<1>6. CASE Scheduling!Return
  BY <1>6, SchedulingNames, SchedulingKills
     DEF Scheduling!Return, Scheduling!At, Scheduling!Runs, UserMode, Moves
<1>7. CASE Scheduling!Kernel
  <2>1. TimerTick \/ StartShell \/ SoftTick \/ ForegroundKill \/ WaitReturn
    BY <1>7, SchedulingTicks, SchedulingCreates, SchedulingKills, SchedulingWaits
       DEF Scheduling!Kernel
  <2>2. fault = "none"
    BY <2>1 DEF TimerTick, StartShell, SoftTick, ForegroundKill, WaitReturn, UserMode,
    DoSchedule
  <2>3. StartShell => label = "prompt"
    BY <2>2 DEF StartShell, PrioInv, Family, Alive, InTable
  <2>4. rq' = rq
    BY <1>7 DEF Scheduling!Kernel, Scheduling!testVars
  <2>. QED  BY <2>1, <2>2, <2>3, <2>4 DEF Moves, Creates
<1>8. CASE Scheduling!Interrupt
  BY <1>8, SchedulingTicks DEF Scheduling!Interrupt, Scheduling!testVars, CtrlC, UserMode, Moves
<1>. QED  BY <1>3, <1>4, <1>5, <1>6, <1>7, <1>8 DEF Scheduling!PrioNext

LEMMA PrioIsNext ==
  ASSUME PrioInv, Scheduling!PrioNext, TOTAL_PROCESSES <= QtyReadyLevels
  PROVE  fault = "none" /\ [Next]_vars
BY PrioCalls, TestCallIsNext

LEMMA PrioCountStep ==
  ASSUME PrioInv, Scheduling!PrioNext, TOTAL_PROCESSES <= QtyReadyLevels, PrioCount, Fits
  PROVE  PrioCount' /\ (Moves \/ (Creates /\ Room))
<1>1. /\ IInv /\ processCount \in Nat /\ fault = "none" /\ Family /\ PrioTypeOK
      /\ TOTAL_PROCESSES \in Nat \ {0} /\ rq \in 0 .. 6 * TOTAL_PROCESSES
         /\ MaxProcesses \in Nat
  BY PrioCalls, CountIsNatural, UserTestsAssumption, SizeAssumption
     DEF Scheduling!TestSchedulingAssumption, PrioInv, PrioTypeOK
<1>2. CASE Moves /\ rq' \in {rq, rq + 1}
  <2>1. processCount' \in Nat /\ processCount' <= processCount
    BY <1>1, <1>2, TableShrinks
  <2>2. rq' \in Nat /\ rq <= rq'
    BY <1>1, <1>2
  <2>3. PICK c \in Nat : c = Created
    BY <1>1 DEF Created
  <2>4. PICK d \in Nat : d = Created'
    BY <1>1, <2>2 DEF Created
  <2>5. c <= d
    BY <1>1, <2>2, <2>3, <2>4 DEF Created
  <2>6. processCount \in Nat /\ processCount <= 3 + c
    BY <1>1, <2>3 DEF PrioCount
  <2>7. processCount' <= 3 + d
    BY <2>1, <2>5, <2>6
  <2>8. PrioCount'
    BY <2>4, <2>7 DEF PrioCount
  <2>. QED  BY <1>2, <2>8
<1>3. ASSUME Creates PROVE processCount' \in Nat /\ processCount' <= processCount + 1
  BY <1>1, <1>3, CreateCounts DEF Creates, StartShell, CreateProcess
<1>4. CASE Creates /\ label = "prompt" /\ rq' = rq
  <2>1. rq = 0 /\ processCount <= 2
    BY <1>1, <1>4, RoomAtPrompt DEF PrioTypeOK
  <2>. QED  BY <1>1, <1>3, <1>4, <2>1 DEF PrioCount, Created, Room, Fits
<1>5. CASE Creates /\ rq < TOTAL_PROCESSES /\ rq' = rq + 1
  BY <1>1, <1>3, <1>5 DEF PrioCount, Created, Room, Fits
<1>. QED  BY <1>2, <1>4, <1>5, PrioCalls

LEMMA PrioShellKept ==
  ASSUME PrioAlone, Scheduling!Shell
  PROVE  PrioKept
<1>. SUFFICES ASSUME fault' = "none" PROVE PrioKept
  BY DEF PrioKept
<1>1. /\ IInv /\ IInv' /\ RunInv /\ Family /\ PrioTypeOK /\ AsCalled
      /\ UserMode /\ currentPid = SHELL_PID /\ UNCHANGED <<rq, p_rqs>>
      /\ SHELL_PID \in Pids /\ SHELL_PID # TestPid
  BY SchedulingNames, FamilyPids DEF Scheduling!Shell, Scheduling!Runs, PrioAlone, PrioInv
<1>2. CASE label = "prompt" /\ Scheduling!CreateProcess(1, TRUE) /\ label' = "create"
  <2>1. CreateProcess(1, TRUE) /\ Create(1, TRUE)
    BY <1>2, SchedulingCreates DEF CreateProcess
  <2>2. Family'
    BY <1>1, <1>2, <2>1, TestStarts, CreateSteady
  <2>3. \A p \in Pids : p > TestPid => ~Alive(p)
    BY <1>1, <1>2 DEF Family, Alive, InTable, TestPid, IDLE_PID, SHELL_PID
  <2>4. rq' = rq /\ label' # "prompt"
    BY <1>1, <1>2
  <2>. QED  BY <1>1, <1>2, <2>2, <2>3, <2>4, PrioKeep
<1>3. CASE label # "prompt" /\ Scheduling!WaitPid(Scheduling!TEST_PID) /\ UNCHANGED label
  <2>1. WaitPid(TestPid)
    BY <1>3, SchedulingNames, SchedulingWaits
  <2>2. /\ Family'
        /\ \A p \in Pids \ {SHELL_PID, TestPid} : Untouched(p)
    BY <1>1, <1>3, <2>1, ShellWaits
  <2>3. \A p \in Pids : p > TestPid => Untouched(p)
    BY <2>2 DEF TestPid, SHELL_PID
  <2>. QED  BY <1>1, <1>3, <2>2, <2>3, PrioKeep DEF PrioTypeOK
<1>. QED  BY <1>2, <1>3 DEF Scheduling!Shell

LEMMA PrioKernelKept ==
  ASSUME PrioAlone, UNCHANGED schedulingVars,
         DoSchedule \/ StartShell \/ ForegroundKill \/ WaitReturn \/ Yield \/ CtrlC
  PROVE  PrioKept
<1>. SUFFICES ASSUME fault' = "none" PROVE PrioKept
  BY DEF PrioKept
<1>1. /\ IInv /\ IInv' /\ RunInv /\ Family /\ PrioTypeOK
      /\ UNCHANGED <<label, rq, p_rqs>>
  BY DEF PrioAlone, PrioInv, schedulingVars
<1>2. Family' /\ \A p \in Pids : p > TestPid => (Alive(p) => Untouched(p))
  <2>1. CASE DoSchedule
    <3>1. (\A p \in Pids : Untouched(p)) /\ UNCHANGED waiting
      BY <1>1, <2>1, ScheduleSteady
    <3>2. control' = "kill" => currentPid' = TestPid
      BY <1>1, <2>1, ScheduleSteady DEF Family, Scheduled, InTable, Unkillable
    <3>3. \A p \in Pids : InTable(p)' => /\ InTable(p) /\ parent'[p] = parent[p]
                                         /\ foreground'[p] = foreground[p]
      BY <3>1 DEF InTable, Untouched, Steady
    <3>4. \A p \in Pids : Alive(p) => Alive(p)'
      BY <3>1 DEF Alive, Untouched, Steady
    <3>5. Family'
      BY <1>1, <3>1, <3>2, <3>3, <3>4, FamilyPids, FamilyKept
    <3>. QED  BY <3>1, <3>5
  <2>2. CASE StartShell
    <3>1. Family' /\ label = "prompt"
      BY <1>1, <2>2, ShellStarts
    <3>2. \A p \in Pids : p > TestPid => ~Alive(p)
      BY <1>1, <3>1 DEF Family, Alive, InTable, TestPid, IDLE_PID, SHELL_PID
    <3>. QED  BY <3>1, <3>2
  <2>3. CASE ForegroundKill
    <3>1. currentPid = TestPid /\ TestPid \in Pids /\ KillProcess(TestPid)
      BY <1>1, <2>3 DEF Family, ForegroundKill, IInv, TypeOK
    <3>. QED  BY <1>1, <3>1, TestDies
  <2>4. CASE WaitReturn
    <3>1. Family' /\ \A p \in Pids \ {TestPid} : Untouched(p)
      BY <1>1, <2>4, ShellReturns
    <3>2. \A p : p > TestPid => p # TestPid
      BY DEF TestPid, SHELL_PID
    <3>. QED  BY <3>1, <3>2
  <2>5. CASE Yield \/ CtrlC
    <3>1. /\ UNCHANGED <<status, parent, priority, foreground, waiting>>
          /\ control' = "switch"
      BY <2>5 DEF Yield, CtrlC, Yielding, pcbVars, waitVars
    <3>2. \A p \in Pids : Untouched(p)
      BY <3>1 DEF Untouched, Steady
    <3>3. Family'
      BY <1>1, <3>1 DEF Family, InTable, Alive, TestPid
    <3>. QED  BY <3>2, <3>3
  <2>. QED  BY <2>1, <2>2, <2>3, <2>4, <2>5
<1>. QED  BY <1>1, <1>2, PrioKeep DEF PrioTypeOK

LEMMA PrioReturnKept ==
  ASSUME PrioAlone, Scheduling!Return
  PROVE  PrioKept
<1>1. /\ UserMode /\ currentPid = TestPid /\ label' = "done"
      /\ UNCHANGED <<rq, p_rqs>> /\ KillProcess(TestPid)
  BY SchedulingNames, SchedulingKills DEF Scheduling!Return, Scheduling!At, Scheduling!Runs,
  Exit
<1>2. /\ IInv /\ IInv' /\ Family /\ TestPid \in Pids /\ label # "prompt"
  BY <1>1, PrioRuns
<1>3. Family' /\ \A p \in Pids : p > TestPid => (Alive(p) => Untouched(p))
  BY <1>1, <1>2, TestDies
<1>. QED  BY <1>1, <1>3, PrioKeep

LEMMA PrioStep ==
  ASSUME PrioInv, Scheduling!PrioNext, TOTAL_PROCESSES <= QtyReadyLevels
  PROVE  PrioInv'
<1>1. fault = "none" /\ [Next]_vars /\ IInv' /\ RunInv'
  BY PrioIsNext, NextIInv, RunningStep DEF PrioInv
<1>2. PrioAlone
  BY <1>1 DEF PrioAlone
<1>. SUFFICES PrioKept
  BY <1>1 DEF PrioInv, PrioKept
<1>3. CASE Scheduling!Worker
  BY <1>2, <1>3, SchedulingTicks, PrioKernelKept
     DEF Scheduling!Worker, Scheduling!testVars, schedulingVars
<1>4. CASE Scheduling!Kernel
  <2>1. /\ UNCHANGED schedulingVars
        /\ TimerTick \/ StartShell \/ SoftTick \/ ForegroundKill \/ WaitReturn
    BY <1>4, SchedulingTicks, SchedulingCreates, SchedulingKills, SchedulingWaits
       DEF Scheduling!Kernel, Scheduling!testVars, schedulingVars
  <2>. QED  BY <1>2, <2>1, PrioKernelKept DEF TimerTick, SoftTick
<1>5. CASE Scheduling!Interrupt
  BY <1>2, <1>5, SchedulingTicks, PrioKernelKept
     DEF Scheduling!Interrupt, Scheduling!testVars, schedulingVars
<1>. QED
  BY <1>2, <1>3, <1>4, <1>5, PrioShellKept, PrioCallKept, PrioReturnKept DEF Scheduling!PrioNext

LEMMA PrioStarts == Scheduling!TestInit => PrioInv
<1>. SUFFICES ASSUME Scheduling!TestInit PROVE PrioInv
  OBVIOUS
<1>1. Init /\ label = "prompt" /\ rq = 0
  BY SchedulingInit DEF Scheduling!TestInit
<1>2. p_rqs = [r \in Requests |-> [pid |-> IDLE_PID, state |-> "KILLED"]]
  BY SchedulingNames DEF Scheduling!TestInit, Scheduling!Requests, Requests
<1>3. IInv /\ RunInv
  BY <1>1, InitIInv DEF Init, RunInv, RunningIsCurrent, Alive, IInv, TypeOK
<1>4. IDLE_PID \in Pids /\ rq \in 0 .. 6 * TOTAL_PROCESSES
  BY <1>1, <1>3, FamilyPids, UserTestsAssumption DEF Scheduling!TestSchedulingAssumption
<1>5. Family
  BY <1>1 DEF Init, Family, InTable
<1>6. PrioTypeOK
  <2>1. \A r \in Requests : CallOf(r, 0) = "KILLED"
    BY UserTestsAssumption DEF CallOf, Requests, Scheduling!TestSchedulingAssumption
  <2>2. p_rqs \in [Requests -> [pid : Pids, state : Calling \cup {"KILLED"}]]
    BY <1>2, <1>4
  <2>. QED  BY <1>1, <1>2, <1>4, <2>1, <2>2 DEF PrioTypeOK
<1>7. AsCalled
  BY <1>1, <1>2 DEF AsCalled
<1>. QED  BY <1>3, <1>5, <1>6, <1>7 DEF PrioInv

LEMMA PrioStutters ==
  ASSUME PrioInv, UNCHANGED <<vars, schedulingVars>>
  PROVE  PrioInv'
<1>1. UNCHANGED <<vars, label, rq, p_rqs>>
  BY DEF schedulingVars
<1>2. IInv' /\ RunInv'
  BY <1>1, NextIInv, RunningStep DEF PrioInv
<1>3. UNCHANGED <<status, parent, priority, foreground, waiting, control, currentPid, fault,
                  shouldKillForeground>>
  BY <1>1 DEF vars, pcbVars, waitVars, cpuVars
<1>4. fault = "none" => Family' /\ PrioTypeOK' /\ AsCalled'
  BY <1>1, <1>3 DEF PrioInv, Family, InTable, Alive, TestPid, PrioTypeOK, CallOf, Requests,
     AsCalled, Scheduled
<1>. QED  BY <1>2, <1>3, <1>4 DEF PrioInv

-----------------------------------------------------------------------------
(* getZombieRetValue gets what it waited for, and no call faults.          *)
Safe == WaitersOwnTarget /\ WaitersReturn /\ fault = "none"

LEMMA WokenChanges ==
  ASSUME IInv, RunInv, NEW w \in waiting, WokenEarly(w)
  PROVE  /\ w \in Pids /\ status[w] = "BLOCKED" /\ w # currentPid
         /\ \A p \in Pids : status'[p] = IF p = w THEN "READY" ELSE status[p]
<1>1. /\ status' = [status EXCEPT ![w] = "READY"] /\ currentPid # w
      /\ status[w] \in {"BLOCKED", "RUNNING"}
  BY DEF WokenEarly, Unblock, Wake, Calls, UserMode
<1>2. status[w] = "BLOCKED" /\ w \in Pids
  BY <1>1 DEF IInv, TypeOK, RunInv, RunningIsCurrent
<1>. QED  BY <1>1, <1>2 DEF IInv, TypeOK

LEMMA NobodyWoken ==
  ASSUME IInv, RunInv, Family, Moves \/ Creates, NEW w \in waiting
  PROVE  ~WokenEarly(w)
<1>. SUFFICES ASSUME WokenEarly(w) PROVE FALSE
  OBVIOUS
<1>1. /\ w \in Pids /\ status[w] = "BLOCKED" /\ w # currentPid /\ w = SHELL_PID
      /\ \A p \in Pids : status'[p] = IF p = w THEN "READY" ELSE status[p]
  BY WokenChanges DEF Family
<1>2. CASE UNCHANGED status
  BY <1>1, <1>2
<1>3. CASE TimerTick \/ SoftTick
  BY <1>1, <1>3, ScheduleSteady DEF TimerTick, SoftTick, Untouched, Steady
<1>4. ASSUME NEW prio, NEW fg, Create(prio, fg) PROVE FALSE
  <2>1. CASE UNCHANGED status
    BY <1>2, <2>1
  <2>2. CASE fault' = "none"
    BY <1>1, <1>4, <2>2, CreateSteady DEF InTable
  <2>3. UNCHANGED status \/ fault' = "none"
    BY <1>4 DEF Create, Crash, pcbVars, WokenEarly, Unblock, Wake, Calls, UserMode
  <2>. QED  BY <2>1, <2>2, <2>3
<1>5. ASSUME NEW p \in Pids, KillProcess(p) PROVE FALSE
  BY <1>1, <1>5, KillSteady DEF Alive
<1>6. ASSUME NEW p \in Pids, p > TestPid, Block(p) \/ Unblock(p) PROVE FALSE
  <2>1. p # w
    BY <1>1, <1>6 DEF TestPid, SHELL_PID
  <2>2. \/ UNCHANGED status
        \/ Scheduled(p) /\ status'[p] = "BLOCKED"
        \/ status[p] = "BLOCKED" /\ status'[p] = "READY"
    <3>1. CASE Block(p)
      BY <3>1 DEF Block, Suspend, Crash, pcbVars, IInv, TypeOK
    <3>2. CASE Unblock(p)
      BY <3>2 DEF Unblock, IInv, TypeOK
    <3>. QED  BY <1>6, <3>1, <3>2
  <2>. QED  BY <1>1, <1>2, <2>1, <2>2 DEF Scheduled
<1>7. ASSUME NEW p \in Pids, Reap(p), status[p] = "ZOMBIE" PROVE FALSE
  BY <1>1, <1>7, ReapSteady
<1>8. CASE SuspendCurrent
  BY <1>1, <1>8, SuspendChanges DEF IInv, TypeOK
<1>9. ASSUME NEW p \in Pids, WaitPid(p) PROVE FALSE
  BY <1>7, <1>8, <1>9 DEF WaitPid
<1>10. CASE WaitReturn
  BY <1>10 DEF WaitReturn, WokenEarly, Unblock, Wake, Calls, UserMode
<1>11. currentPid \in Pids
  BY DEF IInv, TypeOK
<1>12. CASE UNCHANGED vars \/ CtrlC \/ Yield
  BY <1>2, <1>12 DEF vars, pcbVars, CtrlC, Yield
<1>13. CASE ForegroundKill \/ Exit
  BY <1>5, <1>11, <1>13 DEF ForegroundKill, Exit
<1>14. CASE \E p \in Pids, prio \in Levels : SetPriority(p, prio)
  BY <1>2, <1>14 DEF SetPriority
<1>15. CASE Creates
  BY <1>4, <1>15 DEF Creates, StartShell, CreateProcess
<1>16. CASE \E p \in Pids : Kill(p) \/ WaitPid(p)
  BY <1>5, <1>9, <1>16 DEF Kill
<1>. QED  BY <1>3, <1>6, <1>10, <1>12, <1>13, <1>14, <1>15, <1>16 DEF Moves

LEMMA NodesStay ==
  ASSUME IInv, Family, WaitersOwnTarget, stale = {}, Moves \/ Creates
  PROVE  stale' = {}
<1>1. ASSUME NEW p \in Pids, p > TestPid, Unblock(p) PROVE stale' = {}
  <2>1. ASSUME NEW w \in waiting, targetWaitPid[w] = p PROVE FALSE
    <3>1. w = SHELL_PID /\ InTable(p) /\ parent[p] = SHELL_PID
      BY <2>1, WaiterType DEF OwnsTarget, Family
    <3>2. p \notin {IDLE_PID, SHELL_PID, TestPid} /\ SHELL_PID # TestPid
      BY <1>1 DEF IDLE_PID, SHELL_PID, TestPid
    <3>. QED  BY <3>1, <3>2 DEF Family
  <2>2. {w \in waiting : targetWaitPid[w] = p} = {}
    BY <2>1
  <2>. QED  BY <1>1, <2>2 DEF Unblock
<1>2. CASE UNCHANGED vars \/ TimerTick \/ SoftTick \/ CtrlC \/ Yield \/ WaitReturn
  BY <1>2 DEF vars, waitVars, TimerTick, SoftTick, DoSchedule, CtrlC, Yield, WaitReturn, Crash
<1>3. CASE ForegroundKill \/ Exit
  BY <1>3 DEF ForegroundKill, Exit, KillProcess
<1>4. CASE Creates
  BY <1>4 DEF Creates, StartShell, CreateProcess, Create, Crash, waitVars
<1>5. CASE \E p \in Pids : Kill(p) \/ WaitPid(p)
  BY <1>5 DEF Kill, KillProcess, WaitPid, waitVars
<1>6. CASE \E p \in Pids, prio \in Levels : SetPriority(p, prio)
  BY <1>6 DEF SetPriority, waitVars
<1>7. ASSUME NEW p \in Pids, Block(p) PROVE stale' = {}
  BY <1>7 DEF Block, Crash, waitVars
<1>. QED  BY <1>1, <1>2, <1>3, <1>4, <1>5, <1>6, <1>7 DEF Moves

LEMMA CallsAnswered ==
  ASSUME IInv, Safe, Moves \/ (Creates /\ Room)
  PROVE  fault' = "none"
<1>1. ASSUME NEW prio \in Levels, NEW fg, Room, Create(prio, fg) PROVE fault' = "none"
  BY <1>1, FreeSlot DEF Room, Create, Safe
<1>2. CASE Creates /\ Room
  <2>1. 0 \in Levels
    BY SizeAssumption DEF Levels
  <2>. QED  BY <1>1, <1>2, <2>1 DEF Creates, StartShell, CreateProcess
<1>4. CASE WaitReturn
  <2>1. currentPid \in waiting /\ control = "user"
    BY <1>4 DEF WaitReturn
  <2>2. status[targetWaitPid[currentPid]] = "ZOMBIE" /\ currentPid \notin stale
    BY <2>1 DEF Safe, WaitersReturn, CanReturn
  <2>3. targetWaitPid[currentPid] \in zombieChildren[currentPid]
    BY <2>1, <2>2, WaiterType DEF Safe, OwnsTarget, IInv, ZombiesReachable
  <2>. QED  BY <1>4, <2>2, <2>3 DEF WaitReturn, Reap
<1>5. ASSUME NEW p \in Pids, p > TestPid, Block(p) \/ Unblock(p) PROVE fault' = "none"
  BY <1>5 DEF Block, Unblock, Safe, TestPid, SHELL_PID, IDLE_PID
<1>6. CASE UNCHANGED vars \/ TimerTick \/ SoftTick \/ CtrlC \/ Yield
  BY <1>6 DEF vars, TimerTick, SoftTick, DoSchedule, CtrlC, Yield, Safe
<1>7. CASE ForegroundKill \/ Exit \/ \E p \in Pids : Kill(p) \/ WaitPid(p)
  BY <1>7 DEF ForegroundKill, Exit, Kill, KillProcess, WaitPid, Reap, Safe
<1>8. CASE \E p \in Pids, prio \in Levels : SetPriority(p, prio)
  BY <1>8 DEF SetPriority, Safe
<1>. QED  BY <1>2, <1>4, <1>5, <1>6, <1>7, <1>8 DEF Moves

LEMMA SafeStep ==
  ASSUME IInv, RunInv, Family, Safe, Moves \/ (Creates /\ Room)
  PROVE  Safe'
<1>1. [Next]_vars
  BY TestCallIsNext
<1>2. WaitersOwnTarget'
  BY <1>1, WaitersOwnStep DEF Safe
<1>3. WaitersReturn'
  BY <1>1, NobodyWoken, NodesStay, WaitersReturnStep DEF Safe, WaitersReturn
<1>. QED  BY <1>2, <1>3, CallsAnswered DEF Safe

LEMMA SafeStarts ==
  ASSUME Scheduling!TestInit
  PROVE  Safe /\ PrioCount
<1>1. Init /\ rq = 0
  BY SchedulingInit DEF Scheduling!TestInit
<1>2. Safe
  BY <1>1 DEF Init, Safe, WaitersOwnTarget, WaitersReturn
<1>3. PrioCount
  BY <1>1, UserTestsAssumption
     DEF Scheduling!TestSchedulingAssumption, Init, PrioCount, Created
<1>. QED  BY <1>2, <1>3

LEMMA ProcSafeHolds ==
  ASSUME Fits
  PROVE  UserTestsSpec => [](test = "processes" => ProcInv /\ Safe)
<1>. DEFINE I == test = "processes" => ProcInv /\ Safe
<1>1. UserTestsInit => I
  BY ProcStarts, SafeStarts DEF UserTestsInit
<1>2. I /\ [UserTestsNext]_userTestsVars => I'
  <2>. SUFFICES ASSUME test = "processes", ProcInv, Safe, [UserTestsNext]_userTestsVars
                PROVE  ProcInv' /\ Safe'
    BY OneTest
  <2>1. IInv /\ RunInv /\ Family
    BY DEF ProcInv, Safe
  <2>2. CASE Scheduling!ProcessesNext
    BY <2>1, <2>2, ProcCalls, SafeStep, ProcStep
  <2>3. CASE UNCHANGED <<vars, schedulingVars>>
    BY <2>1, <2>3, SafeStep, ProcStutters DEF Moves
  <2>. QED  BY <2>2, <2>3, OneTest
<1>. HIDE DEF I, UserTestsInit, UserTestsNext, userTestsVars, UserTestsFairness
<1>3. UserTestsSpec => []I
  BY <1>1, <1>2, PTL DEF UserTestsSpec
<1>. QED  BY <1>3 DEF I

LEMMA PrioSafeHolds ==
  ASSUME Fits, TOTAL_PROCESSES <= QtyReadyLevels
  PROVE  UserTestsSpec => [](test = "prio" => PrioInv /\ Safe /\ PrioCount)
<1>. DEFINE I == test = "prio" => PrioInv /\ Safe /\ PrioCount
<1>1. UserTestsInit => I
  BY PrioStarts, SafeStarts DEF UserTestsInit
<1>2. I /\ [UserTestsNext]_userTestsVars => I'
  <2>. SUFFICES ASSUME test = "prio", PrioInv, Safe, PrioCount,
                       [UserTestsNext]_userTestsVars
                PROVE  PrioInv' /\ Safe' /\ PrioCount'
    BY OneTest
  <2>1. IInv /\ RunInv /\ Family
    BY DEF PrioInv, Safe
  <2>2. CASE Scheduling!PrioNext
    BY <2>1, <2>2, PrioCountStep, SafeStep, PrioStep
  <2>3. CASE UNCHANGED <<vars, schedulingVars>>
    <3>1. UNCHANGED <<processCount, rq>>
      BY <2>3 DEF vars, tableVars, schedulingVars
    <3>2. PrioCount'
      BY <3>1 DEF PrioCount, Created
    <3>. QED  BY <2>1, <2>3, <3>2, SafeStep, PrioStutters DEF Moves
  <2>. QED  BY <2>2, <2>3, OneTest
<1>. HIDE DEF I, UserTestsInit, UserTestsNext, userTestsVars, UserTestsFairness
<1>3. UserTestsSpec => []I
  BY <1>1, <1>2, PTL DEF UserTestsSpec
<1>. QED  BY <1>3 DEF I

(* No test prints its error line, for any number of workers, of programs   *)
(* and of bytes: the pids testProcesses holds name its workers in the      *)
(* states it put them in, Ctrl+C and preemption notwithstanding; the bytes *)
(* test_mm wrote are its own until it frees them; no round leaves anything *)
(* behind.  The table must have a slot to spare: createProcess never       *)
(* returns from taking the last one.                                       *)
THEOREM NoTestErrorHolds ==
  ASSUME TOTAL_PROCESSES + 3 < MaxProcesses
  PROVE  UserTestsSpec => []NoTestError
<1>1. (test = "mm" => MMInv) /\ (test = "processes" => ProcInv /\ Safe) => NoTestError
  <2>1. MMInv => MM!NoTestError /\ MM!AllAccounted
    BY DEF MMInv
  <2>. QED  BY <2>1, ProcSays DEF NoTestError, Safe
<1>. QED  BY <1>1, ProcSafeHolds, MMInvHolds, PTL DEF Fits

(* Each worker of testPrio is blocked or not, and has the priority, as the *)
(* last of the script's calls on it say, from its creation to its kill,    *)
(* for any number of workers up to the number of priorities (test_prio.c   *)
(* has 3 of each), wherever the timer preempts the test or Ctrl+C kills it.*)
THEOREM KeepsPriorityHolds ==
  ASSUME TOTAL_PROCESSES <= QtyReadyLevels, TOTAL_PROCESSES + 3 < MaxProcesses
  PROVE  UserTestsSpec => []KeepsPriority
<1>1. (test = "prio" => PrioInv /\ Safe /\ PrioCount) => KeepsPriority
  BY SchedulingNames DEF PrioInv, Safe, PrioTypeOK, AsCalled, Calling, KeepsPriority,
     Scheduling!KeepsPriority, Scheduling!Requests, Requests
<1>. QED  BY <1>1, PrioSafeHolds, PTL DEF Fits

(* While testProcesses and testPrio call it, the kernel neither hangs nor  *)
(* corrupts its memory, and a wait that returns finds the child it waited  *)
(* for, dead: Ctrl+C and the timer may come between any two of the calls.  *)
THEOREM TestsDoNoHarm ==
  ASSUME TOTAL_PROCESSES <= QtyReadyLevels, TOTAL_PROCESSES + 3 < MaxProcesses
  PROVE  UserTestsSpec =>
           [](test \in {"processes", "prio"} => NoFault /\ WaitersResumeSafely)
<1>1. Safe => NoFault /\ WaitersResumeSafely
  BY DEF Safe, NoFault, WaitersOwnTarget, OwnsTarget, WaitersReturn, CanReturn,
         WaitersResumeSafely
<1>2. (test = "processes" => ProcInv /\ Safe)
        /\ (test = "prio" => PrioInv /\ Safe /\ PrioCount)
        => (test \in {"processes", "prio"} => NoFault /\ WaitersResumeSafely)
  BY <1>1
<1>. QED  BY <1>2, ProcSafeHolds, PrioSafeHolds, PTL DEF Fits
=============================================================================
