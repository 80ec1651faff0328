-------------------------- MODULE SemaphoreProofs --------------------------
EXTENDS Semaphore, FiniteSetTheorems, SequenceTheorems, WellFoundedInduction,
        TLAPS

(***************************************************************************)
(* Proofs about Schedule, and then about Semaphore, which is built on it.  *)
(***************************************************************************)

LEMMA MinOfNaturals ==
    ASSUME NEW S, S \subseteq Nat, S # {}
    PROVE  /\ Min(S) \in S
           /\ \A y \in S : Min(S) <= y
<1>. DEFINE R == OpToRel(<, Nat)
<1>1. R = {ss \in Nat \X Nat : ss[1] < ss[2]}
  BY DEF OpToRel
<1>2. IsWellFoundedOn(R, Nat)
  BY NatLessThanWellFounded
<1>. HIDE DEF R
<1>3. PICK x \in S : \A y \in S : ~(<<y, x>> \in R)
  BY <1>2, WFMin
<1>4. ASSUME NEW y \in S PROVE x <= y
  <2>1. x \in Nat /\ y \in Nat
    OBVIOUS
  <2>2. ~(y < x)
    BY <1>1, <1>3, <2>1
  <2>. QED  BY <2>1, <2>2
<1>. QED  BY <1>4 DEF Min

LEMMA RemoveNodeLemma ==
    ASSUME NEW S, NEW list \in Seq(S), NEW p, In(list, p), NoDuplicates(list)
    PROVE  /\ RemoveNode(list, p) \in Seq(S)
           /\ NoDuplicates(RemoveNode(list, p))
           /\ \A x : In(RemoveNode(list, p), x) <=> In(list, x) /\ x # p
<1>. DEFINE i == CHOOSE j \in 1..Len(list) : list[j] = p
            rest == [j \in 1..(Len(list) - 1) |->
                        IF j < i THEN list[j] ELSE list[j + 1]]
<1>1. i \in 1..Len(list) /\ list[i] = p
  BY DEF In
<1>2. Len(list) \in Nat /\ \A j \in 1..Len(list) : list[j] \in S
  OBVIOUS
<1>. HIDE DEF i
<1>3. Len(list) - 1 \in Nat
  BY <1>1, <1>2
<1>4. rest \in Seq(S) /\ Len(rest) = Len(list) - 1
  BY <1>1, <1>2, <1>3
<1>5. NoDuplicates(rest)
  BY <1>1, <1>2, <1>3, <1>4 DEF NoDuplicates
<1>6. ASSUME NEW x PROVE In(rest, x) <=> In(list, x) /\ x # p
  <2>1. ASSUME NEW k \in 1..Len(rest), rest[k] = x
        PROVE  In(list, x) /\ x # p
    BY <1>1, <1>2, <1>3, <1>4, <2>1 DEF In, NoDuplicates
  <2>2. ASSUME NEW k \in 1..Len(list), list[k] = x, x # p
        PROVE  In(rest, x)
    <3>1. CASE k < i
      BY <1>1, <1>2, <1>3, <1>4, <2>2, <3>1 DEF In
    <3>2. CASE ~(k < i)
      <4>1. k - 1 \in 1..Len(rest) /\ rest[k - 1] = list[k]
        BY <1>1, <1>2, <1>3, <1>4, <2>2, <3>2
      <4>. QED  BY <2>2, <4>1 DEF In
    <3>. QED  BY <3>1, <3>2
  <2>. QED  BY <2>1, <2>2 DEF In
<1>. QED  BY <1>4, <1>5, <1>6 DEF RemoveNode, i

LEMMA AppendNodeLemma ==
    ASSUME NEW S, NEW list \in Seq(S), NEW p \in S, ~In(list, p),
           NoDuplicates(list)
    PROVE  /\ AppendNode(list, p) \in Seq(S)
           /\ NoDuplicates(AppendNode(list, p))
           /\ \A x : In(AppendNode(list, p), x) <=> In(list, x) \/ x = p
<1>1. /\ Append(list, p) \in Seq(S) /\ Len(Append(list, p)) = Len(list) + 1
      /\ \A j \in 1..Len(list) : Append(list, p)[j] = list[j]
      /\ Append(list, p)[Len(list) + 1] = p
      /\ Len(list) \in Nat
  OBVIOUS
<1>2. NoDuplicates(Append(list, p))
  BY <1>1 DEF NoDuplicates, In
<1>3. ASSUME NEW x PROVE In(Append(list, p), x) <=> In(list, x) \/ x = p
  <2>1. In(list, x) => In(Append(list, p), x)
    BY <1>1 DEF In
  <2>2. x = p => In(Append(list, p), x)
    <3>1. Len(list) + 1 \in 1..Len(Append(list, p))
      BY <1>1
    <3>. QED  BY <1>1, <3>1 DEF In
  <2>3. In(Append(list, p), x) => In(list, x) \/ x = p
    BY <1>1 DEF In
  <2>. QED  BY <2>1, <2>2, <2>3
<1>. QED  BY <1>1, <1>2, <1>3 DEF AppendNode

LEMMA PrependNodeLemma ==
    ASSUME NEW S, NEW list \in Seq(S), NEW p \in S, ~In(list, p),
           NoDuplicates(list)
    PROVE  /\ PrependNode(list, p) \in Seq(S)
           /\ NoDuplicates(PrependNode(list, p))
           /\ \A x : In(PrependNode(list, p), x) <=> In(list, x) \/ x = p
<1>. DEFINE new == <<p>> \o list
<1>1. /\ new \in Seq(S) /\ Len(new) = Len(list) + 1 /\ Len(list) \in Nat
      /\ new[1] = p
      /\ \A j \in 2..Len(new) : new[j] = list[j - 1]
  OBVIOUS
<1>. HIDE DEF new
<1>2. NoDuplicates(new)
  <2>1. ASSUME NEW j \in 2..Len(new), new[j] = p PROVE FALSE
    BY <1>1, <2>1 DEF In
  <2>2. ASSUME NEW j \in 2..Len(new), NEW k \in 2..Len(new), new[j] = new[k]
        PROVE  j = k
    <3>1. /\ j - 1 \in 1..Len(list) /\ k - 1 \in 1..Len(list)
          /\ list[j - 1] = list[k - 1]
      BY <1>1, <2>2
    <3>2. j - 1 = k - 1
      BY <3>1 DEF NoDuplicates
    <3>. QED  BY <3>2
  <2>3. \A j \in 1..Len(new) : j = 1 \/ j \in 2..Len(new)
    BY <1>1
  <2>. QED  BY <1>1, <2>1, <2>2, <2>3 DEF NoDuplicates
<1>3. ASSUME NEW x PROVE In(new, x) <=> In(list, x) \/ x = p
  <2>1. ASSUME NEW k \in 1..Len(list), list[k] = x PROVE In(new, x)
    <3>1. k + 1 \in 2..Len(new) /\ k + 1 \in 1..Len(new) /\ new[k + 1] = x
      BY <1>1, <2>1
    <3>. QED  BY <3>1 DEF In
  <2>2. x = p => In(new, x)
    <3>1. 1 \in 1..Len(new)
      BY <1>1
    <3>. QED  BY <1>1, <3>1 DEF In
  <2>3. ASSUME NEW k \in 1..Len(new), new[k] = x PROVE In(list, x) \/ x = p
    BY <1>1, <2>3 DEF In
  <2>. QED  BY <2>1, <2>2, <2>3 DEF In
<1>. QED  BY <1>1, <1>2, <1>3 DEF PrependNode, new

LEMMA RotateLemma ==
    ASSUME NEW S, NEW list \in Seq(S), list # <<>>, NoDuplicates(list)
    PROVE  /\ Rotate(list) \in Seq(S)
           /\ NoDuplicates(Rotate(list))
           /\ \A x : In(Rotate(list), x) <=> In(list, x)
           /\ In(list, Head(list))
<1>1. /\ Tail(list) \in Seq(S) /\ Head(list) \in S /\ Head(list) = list[1]
      /\ Len(list) \in Nat /\ Len(list) >= 1 /\ Len(Tail(list)) = Len(list) - 1
      /\ \A j \in 1..Len(Tail(list)) : Tail(list)[j] = list[j + 1]
  OBVIOUS
<1>2. NoDuplicates(Tail(list))
  BY <1>1 DEF NoDuplicates
<1>3. ASSUME NEW x PROVE In(Tail(list), x) <=> In(list, x) /\ x # Head(list)
  <2>1. ASSUME NEW k \in 1..Len(list), list[k] = x, x # Head(list)
        PROVE  In(Tail(list), x)
    <3>1. k - 1 \in 1..Len(Tail(list)) /\ Tail(list)[k - 1] = x
      BY <1>1, <2>1
    <3>. QED  BY <3>1 DEF In
  <2>2. ASSUME NEW k \in 1..Len(Tail(list)), Tail(list)[k] = x
        PROVE  In(list, x) /\ x # Head(list)
    <3>1. k + 1 \in 1..Len(list) /\ list[k + 1] = x /\ 1 \in 1..Len(list)
      BY <1>1, <2>2
    <3>. QED  BY <1>1, <3>1 DEF In, NoDuplicates
  <2>. QED  BY <2>1, <2>2 DEF In
<1>4. In(list, Head(list))
  BY <1>1 DEF In
<1>5. ~In(Tail(list), Head(list))
  BY <1>3
<1>. QED  BY <1>1, <1>2, <1>3, <1>4, <1>5, AppendNodeLemma DEF Rotate

-----------------------------------------------------------------------------
(* The ready lists as a whole: "at" gives the level whose list holds each  *)
(* process, -1 for none.                                                   *)

Places == -1..MAX_PRIORITY

Listing(rl, at) ==
    /\ \A l \in Levels : NoDuplicates(rl[l])
    /\ \A l \in Levels, p \in Pids : In(rl[l], p) <=> at[p] = l

LEMMA RemoveFromLevel ==
    ASSUME NEW rl \in [Levels -> Seq(Pids)], NEW at \in [Pids -> Places],
           Listing(rl, at), NEW p \in Pids, at[p] \in Levels
    PROVE  LET new == [rl EXCEPT ![at[p]] = RemoveNode(@, p)]
           IN  /\ new \in [Levels -> Seq(Pids)]
               /\ Listing(new, [at EXCEPT ![p] = -1])
<1>. DEFINE new == [rl EXCEPT ![at[p]] = RemoveNode(@, p)]
<1>1. -1 \notin Levels
  BY SizeAssumption DEF Levels
<1>2. /\ rl[at[p]] \in Seq(Pids) /\ NoDuplicates(rl[at[p]])
      /\ In(rl[at[p]], p)
  BY DEF Listing
<1>3. /\ RemoveNode(rl[at[p]], p) \in Seq(Pids)
      /\ NoDuplicates(RemoveNode(rl[at[p]], p))
      /\ \A x : In(RemoveNode(rl[at[p]], p), x) <=> In(rl[at[p]], x) /\ x # p
  BY <1>2, RemoveNodeLemma
<1>. QED  BY <1>1, <1>3 DEF Listing

LEMMA AppendToLevel ==
    ASSUME NEW rl \in [Levels -> Seq(Pids)], NEW at \in [Pids -> Places],
           Listing(rl, at), NEW p \in Pids, at[p] = -1, NEW l \in Levels
    PROVE  LET new == [rl EXCEPT ![l] = AppendNode(@, p)]
           IN  /\ new \in [Levels -> Seq(Pids)]
               /\ Listing(new, [at EXCEPT ![p] = l])
<1>1. -1 \notin Levels
  BY SizeAssumption DEF Levels
<1>2. rl[l] \in Seq(Pids) /\ NoDuplicates(rl[l]) /\ ~In(rl[l], p)
  BY <1>1 DEF Listing
<1>3. /\ AppendNode(rl[l], p) \in Seq(Pids)
      /\ NoDuplicates(AppendNode(rl[l], p))
      /\ \A x : In(AppendNode(rl[l], p), x) <=> In(rl[l], x) \/ x = p
  BY <1>2, AppendNodeLemma
<1>. QED  BY <1>1, <1>3 DEF Listing

LEMMA PrependToLevel ==
    ASSUME NEW rl \in [Levels -> Seq(Pids)], NEW at \in [Pids -> Places],
           Listing(rl, at), NEW p \in Pids, at[p] = -1, NEW l \in Levels
    PROVE  LET new == [rl EXCEPT ![l] = PrependNode(@, p)]
           IN  /\ new \in [Levels -> Seq(Pids)]
               /\ Listing(new, [at EXCEPT ![p] = l])
<1>1. -1 \notin Levels
  BY SizeAssumption DEF Levels
<1>2. rl[l] \in Seq(Pids) /\ NoDuplicates(rl[l]) /\ ~In(rl[l], p)
  BY <1>1 DEF Listing
<1>3. /\ PrependNode(rl[l], p) \in Seq(Pids)
      /\ NoDuplicates(PrependNode(rl[l], p))
      /\ \A x : In(PrependNode(rl[l], p), x) <=> In(rl[l], x) \/ x = p
  BY <1>2, PrependNodeLemma
<1>. QED  BY <1>1, <1>3 DEF Listing

LEMMA RotateLevel ==
    ASSUME NEW rl \in [Levels -> Seq(Pids)], NEW at \in [Pids -> Places],
           Listing(rl, at), NEW l \in Levels, rl[l] # <<>>
    PROVE  LET new == [rl EXCEPT ![l] = Rotate(@)]
           IN  /\ new \in [Levels -> Seq(Pids)]
               /\ Listing(new, at)
<1>1. rl[l] \in Seq(Pids) /\ NoDuplicates(rl[l])
  BY DEF Listing
<1>2. /\ Rotate(rl[l]) \in Seq(Pids) /\ NoDuplicates(Rotate(rl[l]))
      /\ \A x : In(Rotate(rl[l]), x) <=> In(rl[l], x)
  BY <1>1, RotateLemma
<1>. QED  BY <1>2 DEF Listing

\* Where the status and the priority of every process say it is listed.
ListOf == [p \in Pids |->
          IF p # IDLE_PID /\ Scheduled(p) THEN priority[p] ELSE -1]

BlockedMatches == blocked = {p \in Pids : status[p] = "BLOCKED"}

LEMMA QueuesAsListing ==
    ASSUME TypeOK
    PROVE  /\ ListOf \in [Pids -> Places]
           /\ QueuesMatchStatus <=> Listing(readyLevels, ListOf) /\ BlockedMatches
<1>1. ListOf \in [Pids -> Places]
  BY SizeAssumption DEF ListOf, Places, TypeOK, Levels, MAX_PRIORITY
<1>2. \A l \in Levels, p \in Pids :
         ListOf[p] = l <=> p # IDLE_PID /\ Scheduled(p) /\ priority[p] = l
  BY SizeAssumption DEF ListOf, Levels
<1>. QED  BY <1>1, <1>2 DEF QueuesMatchStatus, Listing, BlockedMatches

\* The same after a step.
LEMMA ListingAsQueues ==
    ASSUME TypeOK', Listing(readyLevels', ListOf'), BlockedMatches'
    PROVE  QueuesMatchStatus'
<1>1. \A l \in Levels, p \in Pids :
         ListOf'[p] = l <=> p # IDLE_PID /\ Scheduled(p)' /\ priority'[p] = l
  BY SizeAssumption DEF ListOf, Levels
<1>. QED  BY <1>1 DEF QueuesMatchStatus, Listing, BlockedMatches

-----------------------------------------------------------------------------
(* The inductive invariant                                                 *)

\* Idle is never blocked, killed or freed.
IdleScheduled == Scheduled(IDLE_PID)

\* Only inside schedule(), before it sets it anew, is the quantum negative.
QuantumNonNegative == control # "kill" => remainingQuantum >= 0

IInv ==
    /\ TypeOK
    /\ LeastFreePid
    /\ CountMatchesTable
    /\ QueuesMatchStatus
    /\ ZombiesReachable
    /\ IdleScheduled
    /\ QuantumNonNegative

LEMMA PidsFinite ==
    /\ Pids \subseteq Nat /\ IsFiniteSet(Pids)
    /\ Cardinality(Pids) = MaxProcesses
    /\ IDLE_PID \in Pids /\ SHELL_PID \in Pids
    /\ MAX_PRIORITY \in Levels /\ 0 \in Levels
<1>1. 0 \in Int /\ MaxProcesses - 1 \in Int /\ ~(0 > MaxProcesses - 1)
  BY SizeAssumption
<1>2. IsFiniteSet(Pids) /\ Cardinality(Pids) = MaxProcesses - 1 - 0 + 1
  BY <1>1, FS_Interval DEF Pids
<1>. QED  BY <1>2, SizeAssumption
          DEF Pids, IDLE_PID, SHELL_PID, MAX_PRIORITY, Levels

Used == {p \in Pids : InTable(p)}

\* A step that neither creates, kills nor frees.
SameLife ==
    /\ \A p \in Pids : /\ status'[p] = "NONE" <=> status[p] = "NONE"
                       /\ status'[p] = "ZOMBIE" <=> status[p] = "ZOMBIE"
    /\ UNCHANGED <<parent, zombieChildren, tableVars>>

LEMMA SameLifeFrame ==
    ASSUME IInv, SameLife
    PROVE  LeastFreePid' /\ CountMatchesTable' /\ ZombiesReachable'
<1>1. LeastFreePid'
  BY DEF IInv, SameLife, LeastFreePid, InTable, tableVars, TypeOK
<1>2. CountMatchesTable'
  <2>1. {p \in Pids : InTable(p)}' = {p \in Pids : InTable(p)}
    BY DEF SameLife, InTable
  <2>. QED  BY <2>1 DEF IInv, CountMatchesTable, SameLife, tableVars
<1>3. ZombiesReachable'
  BY DEF IInv, SameLife, ZombiesReachable, Alive, TypeOK
<1>. QED  BY <1>1, <1>2, <1>3

\* destroyZombie for the processes of "dead", "st" being the status of every
\* process just before: the table and its two counters stay consistent.
LEMMA DestroyFrame ==
    ASSUME IInv, NEW dead \in SUBSET Used, NEW st \in [Pids -> Statuses],
           \A p \in Pids : st[p] = "NONE" <=> status[p] = "NONE",
           status' = Clear(st, dead, "NONE"),
           processCount' = processCount - Cardinality(dead),
           nextAvailablePid' = Min({nextAvailablePid} \cup dead)
    PROVE  /\ LeastFreePid' /\ CountMatchesTable'
           /\ processCount' \in 0..MaxProcesses /\ nextAvailablePid' \in Pids
<1>. DEFINE low == {nextAvailablePid} \cup dead
<1>1. low \subseteq Pids /\ low # {} /\ low \subseteq Nat
  BY PidsFinite DEF IInv, TypeOK, Used
<1>2. nextAvailablePid' \in low /\ \A p \in low : nextAvailablePid' <= p
  BY <1>1, MinOfNaturals
<1>3. \A p \in Pids : status'[p] = "NONE" <=> status[p] = "NONE" \/ p \in dead
  BY DEF Clear, Statuses
<1>4. LeastFreePid'
  <2>1. ~InTable(nextAvailablePid)'
    BY <1>1, <1>2, <1>3 DEF InTable, IInv, LeastFreePid
  <2>2. ASSUME NEW p \in Pids, p < nextAvailablePid' PROVE InTable(p)'
    <3>1. p < nextAvailablePid /\ p \notin dead
      <4>1. /\ p \in Int /\ nextAvailablePid \in Int
            /\ nextAvailablePid' \in Int
        BY <1>1, <1>2 DEF Pids
      <4>2. nextAvailablePid' <= nextAvailablePid
        BY <1>2
      <4>3. p \in dead => nextAvailablePid' <= p
        BY <1>2
      <4>. QED  BY <2>2, <4>1, <4>2, <4>3
    <3>. QED  BY <3>1, <1>3 DEF InTable, IInv, LeastFreePid
  <2>. QED  BY <2>1, <2>2 DEF LeastFreePid
<1>5. {p \in Pids : InTable(p)}' = Used \ dead
  BY <1>3 DEF InTable, Used
<1>6. IsFiniteSet(Used) /\ IsFiniteSet(dead) /\ Used \cap dead = dead
  BY PidsFinite, FS_Subset, Used \subseteq Pids DEF Used
<1>7. Cardinality(Used \ dead) = Cardinality(Used) - Cardinality(dead)
  BY <1>6, FS_Difference
<1>8. CountMatchesTable'
  BY <1>5, <1>7 DEF CountMatchesTable, IInv, Used
<1>9. processCount' \in 0..MaxProcesses
  <2>1. /\ IsFiniteSet(Used \ dead) /\ Used \ dead \subseteq Pids
        /\ processCount' = Cardinality(Used \ dead)
    BY <1>5, <1>6, <1>8, FS_Difference DEF CountMatchesTable, Used
  <2>2. processCount' \in Nat /\ processCount' <= MaxProcesses
    BY <2>1, PidsFinite, FS_CardinalityType, FS_Subset
  <2>. QED  BY <2>2, SizeAssumption
<1>. QED  BY <1>1, <1>2, <1>4, <1>8, <1>9

-----------------------------------------------------------------------------
(* Every action preserves the invariant.                                   *)

LEMMA LevelAtType == 
    ASSUME TypeOK, NEW i \in Levels
    PROVE  LevelAt(i) \in Levels /\ (LevelAt(i) + 1) % QtyReadyLevels \in Levels
BY SizeAssumption DEF LevelAt, Levels, TypeOK

LEMMA GetNextPidLemma ==
    ASSUME IInv, NEW next \in Pids, GetNextPid(next)
    PROVE  /\ Scheduled(next)
           /\ readyLevels' \in [Levels -> Seq(Pids)] /\ currentLevel' \in Levels
           /\ Listing(readyLevels', ListOf)
<1>1. ListOf \in [Pids -> Places] /\ Listing(readyLevels, ListOf)
  BY QueuesAsListing DEF IInv
<1>2. CASE /\ \A l \in Levels : readyLevels[l] = <<>>
           /\ next = IDLE_PID
           /\ UNCHANGED <<readyLevels, currentLevel>>
  BY <1>1, <1>2, PidsFinite DEF IInv, TypeOK, IdleScheduled
<1>3. ASSUME NEW i \in Levels, NonEmptyFrom(i),
             next = Head(readyLevels[LevelAt(i)]),
             readyLevels' = [readyLevels EXCEPT ![LevelAt(i)] = Rotate(@)],
             currentLevel' = (LevelAt(i) + 1) % QtyReadyLevels
      PROVE  /\ Scheduled(next)
             /\ readyLevels' \in [Levels -> Seq(Pids)] /\ currentLevel' \in Levels
             /\ Listing(readyLevels', ListOf)
  <2>1. LevelAt(i) \in Levels /\ currentLevel' \in Levels
    BY <1>3, LevelAtType DEF IInv
  <2>2. readyLevels \in [Levels -> Seq(Pids)] /\ readyLevels[LevelAt(i)] # <<>>
    BY <1>3 DEF IInv, TypeOK, NonEmptyFrom
  <2>3. readyLevels' \in [Levels -> Seq(Pids)] /\ Listing(readyLevels', ListOf)
    BY <1>1, <1>3, <2>1, <2>2, RotateLevel
  <2>4. In(readyLevels[LevelAt(i)], next)
    BY <1>3, <2>1, <2>2, <1>1, RotateLemma DEF Listing
  <2>5. Scheduled(next)
    BY <2>1, <2>4 DEF IInv, QueuesMatchStatus
  <2>. QED  BY <2>1, <2>3, <2>5
<1>. QED  BY <1>2, <1>3, PidsFinite DEF GetNextPid, IInv, TypeOK

LEMMA DoScheduleStep ==
    ASSUME IInv, DoSchedule, control # "kill"
    PROVE  IInv'
<1>. USE DEF IInv
<1>1. CASE KeepRunning
  <2>0. remainingQuantum' \in -1..QtyReadyLevels
    BY <1>1, SizeAssumption DEF TypeOK, KeepRunning
  <2>1. TypeOK'
    BY <1>1, <2>0
       DEF TypeOK, DoSchedule, KeepRunning, pcbVars, listVars, tableVars,
           waitVars
  <2>2. SameLife
    BY <1>1 DEF DoSchedule, KeepRunning, SameLife, pcbVars
  <2>3. QueuesMatchStatus' /\ IdleScheduled'
    BY <1>1 DEF KeepRunning, QueuesMatchStatus, IdleScheduled, Scheduled,
                pcbVars, listVars
  <2>4. QuantumNonNegative'
    BY <1>1 DEF KeepRunning, QuantumNonNegative, TypeOK
  <2>. QED  BY <2>1, <2>2, <2>3, <2>4, SameLifeFrame
<1>2. ASSUME NEW next \in Pids, SwitchTo(next) PROVE IInv'
  <2>1. /\ Scheduled(next)
        /\ readyLevels' \in [Levels -> Seq(Pids)] /\ currentLevel' \in Levels
        /\ Listing(readyLevels', ListOf)
    BY <1>2, GetNextPidLemma DEF SwitchTo
  <2>2. remainingQuantum - 1 \in -1..0
    BY <1>2 DEF SwitchTo, TypeOK, QuantumNonNegative
  <2>3. /\ \A p \in Pids :
             \/ status'[p] = status[p]
             \/ /\ status[p] \in {"READY", "RUNNING"}
                /\ status'[p] \in {"READY", "RUNNING"}
        /\ status' \in [Pids -> Statuses]
    <3>1. /\ Preempted \in [Pids -> Statuses]
          /\ \A p \in Pids :
               \/ Preempted[p] = status[p]
               \/ status[p] = "RUNNING" /\ Preempted[p] = "READY"
      <4>1. status \in [Pids -> Statuses] /\ currentPid \in Pids
        BY DEF TypeOK
      <4>2. "READY" \in Statuses
        BY DEF Statuses
      <4>. QED  BY <4>1, <4>2 DEF Preempted
    <3>2. status' = Preempted \/ status' = [Preempted EXCEPT ![next] = "RUNNING"]
      BY <1>2 DEF SwitchTo
    <3>. QED  BY <2>1, <3>1, <3>2 DEF Statuses, Scheduled
  <2>4. remainingQuantum' \in -1..QtyReadyLevels /\ QuantumNonNegative'
    BY <1>2, <2>2, SizeAssumption
       DEF SwitchTo, TypeOK, QuantumNonNegative, Levels
  <2>5. TypeOK'
    BY <1>2, <2>1, <2>3, <2>4
       DEF SwitchTo, DoSchedule, TypeOK, tableVars, waitVars
  <2>6. SameLife
    BY <1>2, <2>3 DEF SwitchTo, DoSchedule, SameLife, Statuses
  <2>7. ListOf' = ListOf /\ BlockedMatches'
    <3>1. \A p \in Pids : Scheduled(p)' <=> Scheduled(p)
      BY <2>3 DEF Scheduled
    <3>2. BlockedMatches'
      BY <1>2, <2>3 DEF SwitchTo, BlockedMatches, QueuesMatchStatus
    <3>. QED  BY <1>2, <3>1, <3>2 DEF ListOf, SwitchTo
  <2>8. QueuesMatchStatus'
    BY <2>1, <2>5, <2>7, ListingAsQueues
  <2>9. IdleScheduled'
    BY <2>3, PidsFinite DEF IdleScheduled, Scheduled
  <2>. QED  BY <2>4, <2>5, <2>6, <2>8, <2>9, SameLifeFrame
<1>. QED  BY <1>1, <1>2 DEF DoSchedule

LEMMA CrashStep ==
    ASSUME IInv, NEW what \in {"hang", "corrupt"}, Crash(what)
    PROVE  IInv'
<1>. USE DEF Crash, pcbVars, listVars, tableVars, cpuVars, waitVars
<1>1. TypeOK'
  BY DEF IInv, TypeOK
<1>2. SameLife
  BY DEF SameLife
<1>3. QueuesMatchStatus' /\ IdleScheduled' /\ QuantumNonNegative'
  BY DEF IInv, QueuesMatchStatus, IdleScheduled, Scheduled, QuantumNonNegative
<1>. QED  BY <1>1, <1>2, <1>3, SameLifeFrame DEF IInv

LEMMA NextFreeLemma ==
    ASSUME NEW free \in SUBSET Pids, free # {}, NEW from \in Pids,
           \A p \in free : p >= from
    PROVE  NextFree(free, from) \in free /\ \A p \in free : NextFree(free, from) <= p
<1>1. {q \in free : q >= from} = free
  OBVIOUS
<1>2. NextFree(free, from) = Min(free)
  BY <1>1 DEF NextFree
<1>3. free \subseteq Nat
  BY PidsFinite
<1>4. Min(free) \in free /\ \A p \in free : Min(free) <= p
  BY <1>3, MinOfNaturals
<1>. QED  BY <1>2, <1>4

\* The new process goes into the lowest free slot and to the end of its level.
LEMMA CreateStep ==
    ASSUME IInv, NEW prio \in 0..QtyReadyLevels, NEW fg \in BOOLEAN,
           fault = "none", Create(prio, fg)
    PROVE  IInv'
<1>. DEFINE pid  == nextAvailablePid
            free == {q \in Pids \ {pid} : ~InTable(q)}
<1>1. CASE Crash("corrupt") \/ Crash("hang")
  BY <1>1, CrashStep
<1>2. CASE ~(Crash("corrupt") \/ Crash("hang"))
  <2>1. /\ prio \in Levels /\ free # {}
        /\ processCount < ProcessBound
        /\ status' = [status EXCEPT ![pid] = "READY"]
        /\ parent' = [parent EXCEPT ![pid] = currentPid]
        /\ priority' = [priority EXCEPT ![pid] = prio]
        /\ foreground' = [foreground EXCEPT ![pid] = fg]
        /\ targetWaitPid' = [targetWaitPid EXCEPT ![pid] = 0]
        /\ zombieChildren' = [zombieChildren EXCEPT ![pid] = {}]
        /\ readyLevels' = [readyLevels EXCEPT ![prio] = AppendNode(@, pid)]
        /\ processCount' = processCount + 1
        /\ nextAvailablePid' = NextFree(free, pid)
        /\ UNCHANGED <<blocked, cpuVars, waitVars, shouldKillForeground,
                       control, fault>>
    BY <1>2 DEF Create
  <2>2. pid \in Pids /\ status[pid] = "NONE" /\ pid # IDLE_PID
    BY DEF IInv, TypeOK, LeastFreePid, InTable, IdleScheduled, Scheduled
  <2>3. /\ free \subseteq Pids
        /\ \A p \in free : p > pid
    <3>1. ASSUME NEW p \in free PROVE p > pid
      BY <2>2 DEF IInv, LeastFreePid, Pids
    <3>. QED  BY <3>1
  <2>. HIDE DEF free
  <2>4. /\ nextAvailablePid' \in free
        /\ \A p \in free : nextAvailablePid' <= p
    <3>1. \A p \in free : p >= pid
      BY <2>2, <2>3 DEF Pids
    <3>. QED  BY <2>1, <2>2, <2>3, <3>1, NextFreeLemma
  <2>. USE DEF free
  <2>5. LeastFreePid'
    <3>1. ~InTable(nextAvailablePid)'
      BY <2>1, <2>4 DEF InTable, IInv, TypeOK
    <3>2. ASSUME NEW p \in Pids, p < nextAvailablePid' PROVE InTable(p)'
      <4>1. p \notin free
        BY <2>3, <2>4, <3>2 DEF Pids
      <4>2. CASE p = pid
        BY <2>1, <4>2 DEF InTable, IInv, TypeOK
      <4>3. CASE p # pid
        BY <2>1, <4>1, <4>3 DEF InTable, IInv, TypeOK
      <4>. QED  BY <4>2, <4>3
    <3>. QED  BY <3>1, <3>2 DEF LeastFreePid
  <2>6. CountMatchesTable'
    <3>1. Used' = Used \cup {pid} /\ pid \notin Used
      BY <2>1, <2>2 DEF Used, InTable, IInv, TypeOK
    <3>2. IsFiniteSet(Used)
      BY PidsFinite, FS_Subset, Used \subseteq Pids DEF Used
    <3>3. Cardinality(Used \cup {pid}) = Cardinality(Used) + 1
      BY <3>1, <3>2, FS_AddElement
    <3>. QED  BY <2>1, <3>1, <3>3 DEF CountMatchesTable, IInv, Used
  <2>7. TypeOK'
    <3>1. processCount' \in 0..MaxProcesses
      BY <2>1, SizeAssumption DEF IInv, TypeOK
    <3>2. readyLevels' \in [Levels -> Seq(Pids)]
      BY <2>1, <2>2, AppendProperties DEF IInv, TypeOK, AppendNode
    <3>3. status' \in [Pids -> Statuses]
      BY <2>1 DEF IInv, TypeOK, Statuses
    <3>4. /\ parent' \in [Pids -> Pids] /\ priority' \in [Pids -> Levels]
          /\ foreground' \in [Pids -> BOOLEAN]
      BY <2>1 DEF IInv, TypeOK
    <3>5. /\ targetWaitPid' \in [Pids -> Pids]
          /\ zombieChildren' \in [Pids -> SUBSET Pids]
      BY <2>1, PidsFinite DEF IInv, TypeOK, IDLE_PID
    <3>6. nextAvailablePid' \in Pids
      BY <2>3, <2>4
    <3>. QED  BY <2>1, <3>1, <3>2, <3>3, <3>4, <3>5, <3>6
              DEF IInv, TypeOK, cpuVars, waitVars
  <2>8. QueuesMatchStatus'
    <3>1. ListOf \in [Pids -> Places] /\ Listing(readyLevels, ListOf) /\ BlockedMatches
      BY QueuesAsListing DEF IInv
    <3>2. ListOf[pid] = -1
      BY <2>2 DEF ListOf, Scheduled
    <3>3. ListOf' = [ListOf EXCEPT ![pid] = prio]
      BY <2>1, <2>2 DEF ListOf, Scheduled, IInv, TypeOK
    <3>4. Listing(readyLevels', ListOf')
      BY <2>1, <2>2, <3>1, <3>2, <3>3, AppendToLevel DEF IInv, TypeOK
    <3>5. BlockedMatches'
      BY <2>1, <2>2, <3>1 DEF BlockedMatches, IInv, TypeOK
    <3>. QED  BY <2>7, <3>4, <3>5, ListingAsQueues
  <2>9. ZombiesReachable'
    BY <2>1, <2>2 DEF ZombiesReachable, Alive, IInv, TypeOK
  <2>10. IdleScheduled' /\ QuantumNonNegative'
    BY <2>1, <2>2, PidsFinite
       DEF IdleScheduled, Scheduled, QuantumNonNegative, cpuVars, IInv, TypeOK
  <2>. QED  BY <2>5, <2>6, <2>7, <2>8, <2>9, <2>10 DEF IInv
<1>. QED  BY <1>1, <1>2

LEMMA SuspendLemma ==
    ASSUME IInv, NEW p \in Pids, p # IDLE_PID, Scheduled(p), Suspend(p),
           UNCHANGED priority
    PROVE  /\ status' \in [Pids -> Statuses] /\ blocked' \in SUBSET Pids
           /\ readyLevels' \in [Levels -> Seq(Pids)]
           /\ Listing(readyLevels', ListOf') /\ BlockedMatches'
<1>1. ListOf \in [Pids -> Places] /\ Listing(readyLevels, ListOf) /\ BlockedMatches
  BY QueuesAsListing DEF IInv
<1>2. ListOf[p] = priority[p] /\ priority[p] \in Levels
  BY DEF ListOf, IInv, TypeOK
<1>3. ListOf' = [ListOf EXCEPT ![p] = -1]
  BY DEF ListOf, Suspend, Scheduled, IInv, TypeOK
<1>4. /\ readyLevels' \in [Levels -> Seq(Pids)] /\ Listing(readyLevels', ListOf')
  BY <1>1, <1>2, <1>3, RemoveFromLevel DEF Suspend, IInv, TypeOK
<1>5. BlockedMatches'
  BY <1>1 DEF BlockedMatches, Suspend, IInv, TypeOK
<1>. QED  BY <1>4, <1>5 DEF Suspend, IInv, TypeOK, Statuses

LEMMA CurrentScheduled ==
    ASSUME IInv, SuspendCurrent, currentPid # IDLE_PID, UNCHANGED priority
    PROVE  /\ status' \in [Pids -> Statuses] /\ blocked' \in SUBSET Pids
           /\ readyLevels' \in [Levels -> Seq(Pids)]
           /\ Listing(readyLevels', ListOf') /\ BlockedMatches'
           /\ \A p \in Pids : \/ status'[p] = status[p]
                              \/ /\ p # IDLE_PID /\ Scheduled(p)
                                 /\ status'[p] = "BLOCKED"
<1>1. CASE Scheduled(currentPid) /\ Suspend(currentPid)
  BY <1>1, SuspendLemma DEF IInv, TypeOK, Suspend
<1>2. CASE status[currentPid] = "BLOCKED" /\ UNCHANGED <<status, listVars>>
  <2>1. ListOf' = ListOf
    BY <1>2 DEF ListOf, Scheduled
  <2>. QED  BY <1>2, <2>1, QueuesAsListing
            DEF IInv, TypeOK, listVars, BlockedMatches
<1>. QED  BY <1>1, <1>2 DEF SuspendCurrent

\* Statuses and lists may move, but nobody is born, dies or is freed.
LEMMA MoveStep ==
    ASSUME IInv, TypeOK', Listing(readyLevels', ListOf'), BlockedMatches',
           UNCHANGED <<parent, zombieChildren, tableVars>>,
           \A p \in Pids : \/ status'[p] = status[p]
                           \/ Alive(p) /\ Alive(p)',
           IdleScheduled', QuantumNonNegative'
    PROVE  IInv'
<1>1. SameLife
  BY DEF SameLife, Alive, Statuses
<1>. QED  BY <1>1, SameLifeFrame, ListingAsQueues DEF IInv

LEMMA BlockStep ==
    ASSUME IInv, NEW p \in Pids, Block(p)
    PROVE  IInv'
<1>1. CASE Crash("corrupt")
  BY <1>1, CrashStep
<1>2. CASE /\ p # IDLE_PID /\ Suspend(p) /\ Scheduled(p)
           /\ UNCHANGED <<parent, priority, foreground, targetWaitPid,
                          zombieChildren, tableVars, cpuVars, waitVars,
                          shouldKillForeground, control, fault>>
  <2>1. /\ status' \in [Pids -> Statuses] /\ blocked' \in SUBSET Pids
        /\ readyLevels' \in [Levels -> Seq(Pids)]
        /\ Listing(readyLevels', ListOf') /\ BlockedMatches'
    BY <1>2, SuspendLemma
  <2>2. TypeOK'
    BY <1>2, <2>1 DEF IInv, TypeOK, tableVars, cpuVars, waitVars
  <2>3. /\ \A q \in Pids : \/ status'[q] = status[q]
                           \/ Alive(q) /\ Alive(q)'
        /\ IdleScheduled'
    BY <1>2, PidsFinite
       DEF Suspend, Scheduled, Alive, IInv, TypeOK, IdleScheduled
  <2>4. QuantumNonNegative'
    BY <1>2 DEF QuantumNonNegative, IInv, cpuVars
  <2>. QED  BY <1>2, <2>1, <2>2, <2>3, <2>4, MoveStep
<1>. QED  BY <1>1, <1>2 DEF Block

LEMMA UnblockStep ==
    ASSUME IInv, NEW p \in Pids, Unblock(p)
    PROVE  IInv'
<1>1. /\ status[p] = "BLOCKED" /\ p # IDLE_PID
      /\ status' = [status EXCEPT ![p] = "READY"]
      /\ readyLevels' = [readyLevels EXCEPT ![priority[p]] = AppendNode(@, p)]
      /\ blocked' = blocked \ {p} /\ remainingQuantum' = 0
      /\ stale' \in {stale, stale \cup {w \in waiting : targetWaitPid[w] = p}}
      /\ UNCHANGED <<parent, priority, foreground, targetWaitPid,
                     zombieChildren, tableVars, currentPid, currentLevel,
                     waiting, shouldKillForeground, control, fault>>
  BY DEF Unblock, IInv, IdleScheduled, Scheduled
<1>2. ListOf \in [Pids -> Places] /\ Listing(readyLevels, ListOf) /\ BlockedMatches
  BY QueuesAsListing DEF IInv
<1>3. ListOf[p] = -1 /\ priority[p] \in Levels
  BY <1>1 DEF ListOf, Scheduled, IInv, TypeOK
<1>4. ListOf' = [ListOf EXCEPT ![p] = priority[p]]
  BY <1>1 DEF ListOf, Scheduled, IInv, TypeOK
<1>5. readyLevels' \in [Levels -> Seq(Pids)] /\ Listing(readyLevels', ListOf')
  BY <1>1, <1>2, <1>3, <1>4, AppendToLevel DEF IInv, TypeOK
<1>6. BlockedMatches'
  BY <1>1, <1>2 DEF BlockedMatches, IInv, TypeOK
<1>7. TypeOK'
  <2>1. status' \in [Pids -> Statuses]
    BY <1>1 DEF IInv, TypeOK, Statuses
  <2>2. remainingQuantum' \in -1..QtyReadyLevels /\ stale' \in SUBSET Pids
    BY <1>1, SizeAssumption DEF IInv, TypeOK
  <2>. QED  BY <1>1, <1>5, <2>1, <2>2 DEF IInv, TypeOK, tableVars
<1>8. /\ \A q \in Pids : \/ status'[q] = status[q]
                         \/ Alive(q) /\ Alive(q)'
      /\ IdleScheduled' /\ QuantumNonNegative'
  BY <1>1, PidsFinite
     DEF Alive, IInv, TypeOK, IdleScheduled, Scheduled, QuantumNonNegative
<1>. QED  BY <1>1, <1>5, <1>6, <1>7, <1>8, MoveStep

LEMMA SetPriorityStep ==
    ASSUME IInv, NEW p \in Pids, NEW prio \in Levels, SetPriority(p, prio)
    PROVE  IInv'
<1>. DEFINE rest == [readyLevels EXCEPT ![priority[p]] = RemoveNode(@, p)]
<1>1. /\ p # IDLE_PID /\ priority' = [priority EXCEPT ![p] = prio]
      /\ readyLevels' = IF Scheduled(p)
                        THEN [rest EXCEPT ![prio] = AppendNode(@, p)]
                        ELSE readyLevels
      /\ UNCHANGED <<status, parent, foreground, targetWaitPid, zombieChildren,
                     blocked, tableVars, cpuVars, waitVars,
                     shouldKillForeground, control, fault>>
  BY DEF SetPriority
<1>2. ListOf \in [Pids -> Places] /\ Listing(readyLevels, ListOf) /\ BlockedMatches
  BY QueuesAsListing DEF IInv
<1>3. readyLevels' \in [Levels -> Seq(Pids)] /\ Listing(readyLevels', ListOf')
  <2>1. CASE Scheduled(p)
    <3>1. ListOf[p] = priority[p] /\ priority[p] \in Levels /\ -1 \in Places
      BY <1>1, <2>1, SizeAssumption
         DEF ListOf, IInv, TypeOK, Places, MAX_PRIORITY
    <3>. DEFINE off == [ListOf EXCEPT ![p] = -1]
    <3>2. rest \in [Levels -> Seq(Pids)] /\ Listing(rest, off)
      BY <1>2, <3>1, RemoveFromLevel DEF IInv, TypeOK
    <3>3. off \in [Pids -> Places] /\ off[p] = -1
      BY <1>2, <3>1
    <3>4. ListOf' = [off EXCEPT ![p] = prio]
      BY <1>1, <2>1 DEF ListOf, Scheduled, IInv, TypeOK
    <3>. HIDE DEF off, rest
    <3>. QED  BY <1>1, <2>1, <3>2, <3>3, <3>4, AppendToLevel
  <2>2. CASE ~Scheduled(p)
    <3>1. ListOf' = ListOf
      BY <1>1, <2>2 DEF ListOf, Scheduled, IInv, TypeOK
    <3>. QED  BY <1>1, <1>2, <2>2, <3>1 DEF IInv, TypeOK
  <2>. QED  BY <2>1, <2>2
<1>4. BlockedMatches' /\ TypeOK'
  BY <1>1, <1>2, <1>3
     DEF BlockedMatches, IInv, TypeOK, tableVars, cpuVars, waitVars
<1>5. IdleScheduled' /\ QuantumNonNegative'
  BY <1>1 DEF IInv, IdleScheduled, Scheduled, QuantumNonNegative, cpuVars
<1>. QED  BY <1>1, <1>3, <1>4, <1>5, MoveStep

LEMMA WakeStep ==
    ASSUME IInv, NEW p \in Pids, Wake(p)
    PROVE  IInv'
<1>1. /\ p # IDLE_PID /\ status[p] \in {"BLOCKED", "RUNNING"}
      /\ status' = [status EXCEPT ![p] = "READY"]
      /\ UNCHANGED <<parent, foreground, targetWaitPid, zombieChildren,
                     tableVars, currentPid, currentLevel, waitVars,
                     shouldKillForeground, control, fault>>
  BY DEF Wake
<1>2. ListOf \in [Pids -> Places] /\ Listing(readyLevels, ListOf) /\ BlockedMatches
  BY QueuesAsListing DEF IInv
<1>3. /\ readyLevels' \in [Levels -> Seq(Pids)] /\ Listing(readyLevels', ListOf')
      /\ BlockedMatches' /\ priority' \in [Pids -> Levels]
      /\ remainingQuantum' \in {0, remainingQuantum} /\ blocked' \subseteq Pids
  <2>1. CASE /\ status[p] = "BLOCKED"
             /\ blocked' = blocked \ {p}
             /\ priority' = [priority EXCEPT ![p] = MAX_PRIORITY]
             /\ readyLevels' =
                  [readyLevels EXCEPT ![MAX_PRIORITY] = PrependNode(@, p)]
             /\ remainingQuantum' = 0
    <3>1. ListOf[p] = -1
      BY <2>1 DEF ListOf, Scheduled
    <3>2. ListOf' = [ListOf EXCEPT ![p] = MAX_PRIORITY]
      BY <1>1, <2>1 DEF ListOf, Scheduled, IInv, TypeOK
    <3>3. readyLevels' \in [Levels -> Seq(Pids)] /\ Listing(readyLevels', ListOf')
      BY <1>2, <2>1, <3>1, <3>2, PrependToLevel, PidsFinite DEF IInv, TypeOK
    <3>4. BlockedMatches'
      BY <1>1, <1>2, <2>1 DEF BlockedMatches, IInv, TypeOK
    <3>. QED  BY <2>1, <3>3, <3>4, PidsFinite DEF IInv, TypeOK
  <2>2. CASE /\ status[p] = "RUNNING"
             /\ UNCHANGED <<blocked, priority, readyLevels, remainingQuantum>>
    <3>1. ListOf' = ListOf
      BY <1>1, <2>2 DEF ListOf, Scheduled, IInv, TypeOK
    <3>2. BlockedMatches'
      BY <1>1, <1>2, <2>2 DEF BlockedMatches, IInv, TypeOK
    <3>. QED  BY <1>2, <2>2, <3>1, <3>2 DEF IInv, TypeOK
  <2>. QED  BY <2>1, <2>2 DEF Wake
<1>4. TypeOK'
  <2>1. status' \in [Pids -> Statuses]
    BY <1>1 DEF IInv, TypeOK, Statuses
  <2>2. remainingQuantum' \in -1..QtyReadyLevels
    BY <1>3, SizeAssumption DEF IInv, TypeOK
  <2>. QED  BY <1>1, <1>3, <2>1, <2>2 DEF IInv, TypeOK, tableVars, waitVars
<1>5. /\ \A q \in Pids : \/ status'[q] = status[q]
                         \/ Alive(q) /\ Alive(q)'
      /\ IdleScheduled'
  BY <1>1, PidsFinite DEF Alive, IInv, TypeOK, IdleScheduled, Scheduled
<1>6. QuantumNonNegative'
  BY <1>1, <1>3 DEF QuantumNonNegative, IInv
<1>. QED  BY <1>1, <1>3, <1>4, <1>5, <1>6, MoveStep

LEMMA YieldStep ==
    ASSUME IInv, CtrlC \/ Yield
    PROVE  IInv'
<1>1. /\ UNCHANGED <<pcbVars, listVars, tableVars, currentPid, currentLevel,
                     waitVars, fault>>
      /\ remainingQuantum' \in {0, remainingQuantum} /\ control' = "switch"
      /\ control = "user" /\ shouldKillForeground' \in BOOLEAN
  BY DEF CtrlC, Yield, Yielding, cpuVars, Calls, UserMode, IInv, TypeOK
<1>2. TypeOK' /\ QuantumNonNegative'
  BY <1>1, SizeAssumption
     DEF IInv, TypeOK, QuantumNonNegative, pcbVars, listVars, tableVars, waitVars
<1>3. SameLife
  BY <1>1 DEF SameLife, pcbVars
<1>4. QueuesMatchStatus' /\ IdleScheduled'
  BY <1>1 DEF IInv, QueuesMatchStatus, IdleScheduled, Scheduled, pcbVars,
              listVars
<1>. QED  BY <1>2, <1>3, <1>4, SameLifeFrame DEF IInv

\* The caller goes to sleep: what Sleep and the waiting branch of WaitPid share.
LEMMA SuspendAndYield ==
    ASSUME IInv, currentPid # IDLE_PID, SuspendCurrent, Yielding,
           targetWaitPid' \in [Pids -> Pids], waiting' \in SUBSET Pids,
           UNCHANGED <<parent, priority, foreground, zombieChildren, tableVars,
                       currentPid, currentLevel, stale, shouldKillForeground,
                       fault>>
    PROVE  IInv'
<1>1. /\ status' \in [Pids -> Statuses] /\ blocked' \in SUBSET Pids
      /\ readyLevels' \in [Levels -> Seq(Pids)]
      /\ Listing(readyLevels', ListOf') /\ BlockedMatches'
      /\ \A p \in Pids : \/ status'[p] = status[p]
                         \/ /\ p # IDLE_PID /\ Scheduled(p)
                            /\ status'[p] = "BLOCKED"
  BY CurrentScheduled
<1>2. TypeOK' /\ QuantumNonNegative'
  BY <1>1, SizeAssumption
     DEF IInv, TypeOK, Yielding, QuantumNonNegative, tableVars
<1>3. /\ \A q \in Pids : \/ status'[q] = status[q]
                         \/ Alive(q) /\ Alive(q)'
      /\ IdleScheduled'
  BY <1>1, PidsFinite DEF Alive, Scheduled, IdleScheduled, IInv
<1>. QED  BY <1>1, <1>2, <1>3, MoveStep

LEMMA SleepStep ==
    ASSUME IInv, Sleep
    PROVE  IInv'
<1>1. /\ currentPid # IDLE_PID /\ SuspendCurrent /\ Yielding
      /\ targetWaitPid' \in [Pids -> Pids] /\ waiting' \in SUBSET Pids
  BY DEF Sleep, Calls, IInv, TypeOK, waitVars
<1>. QED  BY <1>1, SuspendAndYield DEF Sleep, waitVars

\* The current process collects its zombie child.
LEMMA ReapStep ==
    ASSUME IInv, NEW child \in Pids, child \in zombieChildren[currentPid],
           control = "user", Reap(child),
           targetWaitPid' \in [Pids -> Pids], waiting' \in SUBSET Pids,
           UNCHANGED stale
    PROVE  IInv'
<1>. DEFINE dead == {child}
            kids == [zombieChildren EXCEPT ![currentPid] = @ \ {child}]
<1>1. /\ status' = Clear(status, dead, "NONE")
      /\ parent' = Clear(parent, dead, IDLE_PID)
      /\ priority' = Clear(priority, dead, 0)
      /\ foreground' = Clear(foreground, dead, FALSE)
      /\ zombieChildren' = Clear(kids, dead, {})
      /\ processCount' = processCount - Cardinality(dead)
      /\ nextAvailablePid' = Min({nextAvailablePid} \cup dead)
      /\ UNCHANGED <<listVars, cpuVars, shouldKillForeground, control, fault>>
  BY DEF Reap, DestroyZombies
<1>2. status[child] = "ZOMBIE" /\ parent[child] = currentPid
  BY DEF IInv, ZombiesReachable, TypeOK
<1>3. currentPid \in Pids /\ child # IDLE_PID
  BY <1>2 DEF IInv, TypeOK, IdleScheduled, Scheduled
<1>4. /\ LeastFreePid' /\ CountMatchesTable'
      /\ processCount' \in 0..MaxProcesses /\ nextAvailablePid' \in Pids
  <2>1. dead \in SUBSET Used
    BY <1>2 DEF Used, InTable
  <2>. QED  BY <1>1, <2>1, DestroyFrame DEF IInv, TypeOK
<1>5. TypeOK'
  <2>1. status' \in [Pids -> Statuses]
    BY <1>1 DEF Clear, IInv, TypeOK, Statuses
  <2>2. /\ parent' \in [Pids -> Pids] /\ priority' \in [Pids -> Levels]
        /\ foreground' \in [Pids -> BOOLEAN]
        /\ zombieChildren' \in [Pids -> SUBSET Pids]
    BY <1>1, PidsFinite DEF Clear, IInv, TypeOK
  <2>. QED  BY <1>1, <1>4, <2>1, <2>2 DEF IInv, TypeOK, listVars, cpuVars
<1>6. QueuesMatchStatus'
  <2>1. \A p \in Pids : Scheduled(p)' <=> Scheduled(p)
    BY <1>1, <1>2 DEF Scheduled, Clear
  <2>2. \A p \in Pids : Scheduled(p) => priority'[p] = priority[p]
    BY <1>1, <1>2 DEF Scheduled, Clear
  <2>3. {p \in Pids : status'[p] = "BLOCKED"} = {p \in Pids : status[p] = "BLOCKED"}
    BY <1>1, <1>2 DEF Clear
  <2>4. UNCHANGED <<readyLevels, blocked>>
    BY <1>1 DEF listVars
  <2>. QED  BY <2>1, <2>2, <2>3, <2>4 DEF IInv, QueuesMatchStatus
<1>7. ZombiesReachable'
  <2>1. \A p \in Pids \ {child} : /\ status'[p] = status[p]
                                  /\ parent'[p] = parent[p]
                                  /\ zombieChildren'[p] = kids[p]
    BY <1>1 DEF Clear
  <2>2. status'[child] = "NONE" /\ zombieChildren'[child] = {}
    BY <1>1 DEF Clear
  <2>3. \A q \in Pids : kids[q] = zombieChildren[q] \ {child}
    BY <1>2, <1>3 DEF IInv, TypeOK, ZombiesReachable
  <2>4. ASSUME NEW p \in Pids, status'[p] = "ZOMBIE"
        PROVE  Alive(parent[p])' /\ p \in zombieChildren'[parent'[p]]
    <3>1. p # child /\ status[p] = "ZOMBIE" /\ parent'[p] = parent[p]
      BY <2>1, <2>2, <2>4
    <3>2. /\ Alive(parent[p]) /\ p \in zombieChildren[parent[p]]
          /\ parent[p] # child /\ parent[p] \in Pids
      BY <1>2, <3>1 DEF IInv, ZombiesReachable, Alive, TypeOK
    <3>. QED  BY <2>1, <2>3, <3>1, <3>2 DEF Alive
  <2>5. ASSUME NEW q \in Pids, NEW p \in zombieChildren'[q]
        PROVE  status'[p] = "ZOMBIE" /\ parent'[p] = q
    <3>1. q # child /\ p \in zombieChildren[q] /\ p # child
      BY <2>1, <2>2, <2>3
    <3>2. status[p] = "ZOMBIE" /\ parent[p] = q /\ p \in Pids
      BY <3>1 DEF IInv, ZombiesReachable, TypeOK
    <3>. QED  BY <2>1, <3>1, <3>2
  <2>. QED  BY <2>4, <2>5 DEF ZombiesReachable
<1>8. IdleScheduled' /\ QuantumNonNegative'
  BY <1>1, <1>3, PidsFinite
     DEF Clear, IInv, IdleScheduled, Scheduled, QuantumNonNegative, cpuVars
<1>. QED  BY <1>4, <1>5, <1>6, <1>7, <1>8 DEF IInv

LEMMA WaitPidStep ==
    ASSUME IInv, NEW child \in Pids, WaitPid(child)
    PROVE  IInv'
<1>1. /\ currentPid # IDLE_PID /\ control = "user" /\ currentPid \in Pids
      /\ parent[child] = currentPid
  BY DEF WaitPid, IsChild, Calls, UserMode, IInv, TypeOK
<1>2. CASE /\ status[child] = "ZOMBIE" /\ Reap(child) /\ UNCHANGED waitVars
           /\ targetWaitPid' =
                Clear([targetWaitPid EXCEPT ![currentPid] = child], {child}, 0)
  <2>1. child \in zombieChildren[currentPid]
    BY <1>1, <1>2 DEF IInv, ZombiesReachable
  <2>2. targetWaitPid' \in [Pids -> Pids] /\ waiting' \in SUBSET Pids
    BY <1>2, PidsFinite DEF Clear, IInv, TypeOK, waitVars, IDLE_PID
  <2>. QED  BY <1>1, <1>2, <2>1, <2>2, ReapStep DEF waitVars
<1>3. CASE status[child] # "ZOMBIE"
  <2>1. /\ SuspendCurrent /\ Yielding
        /\ targetWaitPid' = [targetWaitPid EXCEPT ![currentPid] = child]
        /\ waiting' = waiting \cup {currentPid}
        /\ UNCHANGED <<parent, priority, foreground, zombieChildren, tableVars,
                       currentPid, currentLevel, stale, shouldKillForeground,
                       fault>>
    BY <1>3 DEF WaitPid
  <2>2. targetWaitPid' \in [Pids -> Pids] /\ waiting' \in SUBSET Pids
    BY <1>1, <2>1 DEF IInv, TypeOK
  <2>. QED  BY <1>1, <2>1, <2>2, SuspendAndYield
<1>. QED  BY <1>2, <1>3 DEF WaitPid

LEMMA WaitReturnStep ==
    ASSUME IInv, WaitReturn
    PROVE  IInv'
<1>. DEFINE child == targetWaitPid[currentPid]
<1>1. CASE Crash("corrupt")
  BY <1>1, CrashStep
<1>2. CASE /\ child \in zombieChildren[currentPid] /\ Reap(child)
           /\ targetWaitPid' = Clear(targetWaitPid, {child}, 0)
           /\ waiting' = waiting \ {currentPid} /\ UNCHANGED stale
  <2>1. child \in Pids /\ control = "user"
    BY DEF WaitReturn, IInv, TypeOK
  <2>2. targetWaitPid' \in [Pids -> Pids] /\ waiting' \in SUBSET Pids
    BY <1>2, PidsFinite DEF Clear, IInv, TypeOK, IDLE_PID
  <2>. HIDE DEF child
  <2>. QED  BY <1>2, <2>1, <2>2, ReapStep
<1>. QED  BY <1>1, <1>2 DEF WaitReturn

\* The killed process leaves its list, its zombies leave the table, and it goes
\* to its parent's list or out of the table; its parent may be woken.
LEMMA KillProcessStep ==
    ASSUME IInv, NEW p \in Pids, KillProcess(p),
           control = "user" \/ p = currentPid
    PROVE  IInv'
<1>. DEFINE q     == parent[p]
            heir  == Inherits(q, p)
            wakes == WakesParent(q, p)
            dead  == zombieChildren[p] \cup (IF heir THEN {} ELSE {p})
            st    == [r \in Pids |->
                        IF r = p THEN "ZOMBIE"
                        ELSE IF wakes /\ r = q THEN "READY" ELSE status[r]]
            pr    == [r \in Pids |-> IF wakes /\ r = q THEN MAX_PRIORITY
                                                       ELSE priority[r]]
            kids  == [r \in Pids |->
                        IF r = p THEN {}
                        ELSE IF heir /\ r = q THEN zombieChildren[r] \cup {p}
                        ELSE zombieChildren[r]]
<1>1. /\ Alive(p) /\ p \notin Unkillable
      /\ status' = Clear(st, dead, "NONE")
      /\ parent' = Clear(parent, dead, IDLE_PID)
      /\ priority' = Clear(pr, dead, 0)
      /\ foreground' = Clear(foreground, dead, FALSE)
      /\ zombieChildren' = Clear(kids, dead, {})
      /\ processCount' = processCount - Cardinality(dead)
      /\ nextAvailablePid' = Min({nextAvailablePid} \cup dead)
  BY DEF KillProcess, DestroyZombies
<1>2. /\ targetWaitPid' = Clear(targetWaitPid, dead, 0)
      /\ readyLevels' =
           IF wakes
           THEN [WithoutReady(p) EXCEPT ![MAX_PRIORITY] = PrependNode(@, q)]
           ELSE WithoutReady(p)
      /\ blocked' = blocked \ ({p} \cup (IF wakes THEN {q} ELSE {}))
      /\ waiting' = waiting \ {p} /\ stale' = stale \ {p}
      /\ control' \in {"user", "switch"}
      /\ remainingQuantum' \in {0, remainingQuantum}
      /\ remainingQuantum' >= 0
      /\ UNCHANGED <<currentPid, currentLevel, shouldKillForeground, fault>>
  BY DEF KillProcess, IInv, QuantumNonNegative
<1>3. /\ q \in Pids /\ p # IDLE_PID /\ status[p] # "ZOMBIE"
      /\ status[p] # "NONE"
      /\ \A z \in zombieChildren[p] :
           z \in Pids /\ status[z] = "ZOMBIE" /\ parent[z] = p
  BY <1>1 DEF IInv, TypeOK, ZombiesReachable, Unkillable, Alive
<1>4. /\ heir => q # p /\ q \notin zombieChildren[p] /\ Alive(q)
      /\ wakes => heir /\ q # IDLE_PID /\ status[q] = "BLOCKED"
  BY DEF Inherits, WakesParent
<1>. HIDE DEF heir, wakes, q
<1>5. st \in [Pids -> Statuses] /\ pr \in [Pids -> Levels]
  BY PidsFinite DEF IInv, TypeOK, Statuses
<1>6. dead \in SUBSET Used /\ IDLE_PID \notin dead
  BY <1>3 DEF Used, InTable, IInv, IdleScheduled, Scheduled
<1>7. \A r \in Pids : st[r] = "NONE" <=> status[r] = "NONE"
  BY <1>3, <1>4
<1>8. /\ LeastFreePid' /\ CountMatchesTable'
      /\ processCount' \in 0..MaxProcesses /\ nextAvailablePid' \in Pids
  <2>. HIDE DEF st, dead
  <2>. QED  BY <1>1, <1>5, <1>6, <1>7, DestroyFrame
<1>9. /\ status' \in [Pids -> Statuses] /\ priority' \in [Pids -> Levels]
      /\ parent' \in [Pids -> Pids] /\ foreground' \in [Pids -> BOOLEAN]
      /\ targetWaitPid' \in [Pids -> Pids]
      /\ zombieChildren' \in [Pids -> SUBSET Pids]
  <2>1. kids \in [Pids -> SUBSET Pids]
    BY DEF IInv, TypeOK
  <2>2. "NONE" \in Statuses /\ IDLE_PID \in Pids /\ 0 \in Pids /\ 0 \in Levels
    BY PidsFinite DEF Statuses, IDLE_PID
  <2>. HIDE DEF st, pr, kids, dead
  <2>. QED  BY <1>1, <1>2, <1>5, <2>1, <2>2 DEF Clear, IInv, TypeOK
<1>10. ASSUME NEW r \in Pids
       PROVE  /\ r \in dead => status'[r] = "NONE" /\ zombieChildren'[r] = {}
              /\ r \notin dead => /\ status'[r] = st[r] /\ priority'[r] = pr[r]
                                  /\ parent'[r] = parent[r]
                                  /\ zombieChildren'[r] = kids[r]
  <2>. HIDE DEF dead, st, pr, kids
  <2>. QED  BY <1>1 DEF Clear
<1>11. /\ heir => q \notin dead
       /\ p \in dead <=> ~heir
       /\ \A r \in dead : r # p => r \in zombieChildren[p]
  BY <1>3, <1>4
<1>12. /\ readyLevels' \in [Levels -> Seq(Pids)] /\ Listing(readyLevels', ListOf')
  <2>. DEFINE off == [ListOf EXCEPT ![p] = -1]
  <2>1. ListOf \in [Pids -> Places] /\ Listing(readyLevels, ListOf)
    BY QueuesAsListing DEF IInv
  <2>2. WithoutReady(p) \in [Levels -> Seq(Pids)] /\ Listing(WithoutReady(p), off)
    <3>1. CASE status[p] = "BLOCKED"
      <4>1. off = ListOf
        BY <2>1, <3>1 DEF ListOf, Scheduled
      <4>. QED  BY <2>1, <3>1, <4>1 DEF WithoutReady, IInv, TypeOK
    <3>2. CASE status[p] # "BLOCKED"
      <4>1. Scheduled(p)
        BY <1>3, <3>2 DEF Scheduled, IInv, TypeOK, Statuses
      <4>2. ListOf[p] = priority[p] /\ priority[p] \in Levels
        BY <1>3, <4>1 DEF ListOf, IInv, TypeOK
      <4>. QED  BY <2>1, <3>2, <4>2, RemoveFromLevel
                DEF WithoutReady, IInv, TypeOK
    <3>. QED  BY <3>1, <3>2
  <2>3. off \in [Pids -> Places]
    BY <2>1, SizeAssumption DEF Places, MAX_PRIORITY
  <2>4. ASSUME NEW r \in Pids
        PROVE  ListOf'[r] = IF wakes /\ r = q THEN MAX_PRIORITY ELSE off[r]
    <3>1. CASE r = p
      <4>1. status'[r] \in {"ZOMBIE", "NONE"}
        BY <1>10, <3>1
      <4>2. wakes => r # q
        BY <1>4, <3>1
      <4>. QED  BY <2>1, <3>1, <4>1, <4>2 DEF ListOf, Scheduled
    <3>2. CASE r \in dead /\ r # p
      <4>1. status'[r] = "NONE" /\ status[r] = "ZOMBIE"
        BY <1>3, <1>10, <1>11, <3>2
      <4>2. wakes => r # q
        BY <1>4, <1>11, <3>2
      <4>. QED  BY <2>1, <3>2, <4>1, <4>2 DEF ListOf, Scheduled
    <3>3. CASE r \notin dead /\ r # p
      <4>1. /\ status'[r] = IF wakes /\ r = q THEN "READY" ELSE status[r]
            /\ priority'[r] = IF wakes /\ r = q THEN MAX_PRIORITY ELSE priority[r]
        BY <1>10, <3>3
      <4>2. off[r] = ListOf[r]
        BY <2>1, <3>3
      <4>3. ListOf'[r] = IF r # IDLE_PID /\ status'[r] \in {"READY", "RUNNING"}
                     THEN priority'[r] ELSE -1
        BY DEF ListOf, Scheduled
      <4>4. ListOf[r] = IF r # IDLE_PID /\ status[r] \in {"READY", "RUNNING"}
                    THEN priority[r] ELSE -1
        BY DEF ListOf, Scheduled
      <4>. QED  BY <1>4, <4>1, <4>2, <4>3, <4>4
    <3>. QED  BY <3>1, <3>2, <3>3
  <2>. HIDE DEF off
  <2>5. CASE wakes
    <3>1. off[q] = -1
      BY <1>3, <1>4, <2>1, <2>5 DEF off, ListOf, Scheduled
    <3>2. ListOf' = [off EXCEPT ![q] = MAX_PRIORITY]
      BY <2>3, <2>4, <2>5 DEF ListOf
    <3>. QED  BY <1>2, <1>3, <2>2, <2>3, <2>5, <3>1, <3>2, PidsFinite,
                 PrependToLevel
  <2>6. CASE ~wakes
    <3>1. ListOf' = off
      BY <2>3, <2>4, <2>6 DEF ListOf
    <3>. QED  BY <1>2, <2>2, <2>6, <3>1
  <2>. QED  BY <2>5, <2>6
<1>13. BlockedMatches'
  <2>1. ASSUME NEW r \in Pids
        PROVE  r \in blocked' <=> status'[r] = "BLOCKED"
    <3>1. r \in blocked <=> status[r] = "BLOCKED"
      BY DEF IInv, QueuesMatchStatus
    <3>2. CASE r \in dead
      BY <1>2, <1>3, <1>4, <1>10, <1>11, <3>1, <3>2
    <3>3. CASE r \notin dead
      BY <1>2, <1>4, <1>10, <3>1, <3>3
    <3>. QED  BY <3>2, <3>3
  <2>. QED  BY <1>2, <2>1 DEF BlockedMatches, IInv, TypeOK
<1>14. TypeOK'
  <2>1. remainingQuantum' \in -1..QtyReadyLevels
    BY <1>2, SizeAssumption DEF IInv, TypeOK
  <2>. QED  BY <1>2, <1>8, <1>9, <1>12, <2>1 DEF IInv, TypeOK
<1>15. ZombiesReachable'
  <2>1. ASSUME NEW r \in Pids, status'[r] = "ZOMBIE"
        PROVE  Alive(parent[r])' /\ r \in zombieChildren'[parent'[r]]
    <3>1. r \notin dead /\ st[r] = "ZOMBIE" /\ parent'[r] = parent[r]
      BY <1>10, <2>1
    <3>2. CASE r = p
      <4>1. heir /\ q \notin dead /\ parent'[r] = q /\ Alive(q) /\ q # p
        BY <1>4, <1>11, <3>1, <3>2 DEF q
      <4>2. status'[q] \notin {"NONE", "ZOMBIE"}
        BY <1>3, <1>10, <4>1 DEF Alive
      <4>. QED  BY <1>3, <1>10, <3>2, <4>1, <4>2 DEF Alive
    <3>3. CASE r # p
      <4>1. /\ status[r] = "ZOMBIE" /\ parent[r] \in Pids /\ Alive(parent[r])
            /\ r \in zombieChildren[parent[r]]
        BY <3>1, <3>3 DEF IInv, ZombiesReachable, TypeOK
      <4>2. parent[r] # p /\ parent[r] \notin dead
        BY <1>3, <1>11, <3>1, <4>1 DEF Alive
      <4>3. status'[parent[r]] \notin {"NONE", "ZOMBIE"}
        BY <1>10, <4>1, <4>2 DEF Alive
      <4>4. r \in kids[parent[r]] /\ zombieChildren'[parent[r]] = kids[parent[r]]
        BY <1>10, <4>1, <4>2
      <4>. QED  BY <3>1, <4>3, <4>4 DEF Alive
    <3>. QED  BY <3>2, <3>3
  <2>2. ASSUME NEW o \in Pids, NEW r \in zombieChildren'[o]
        PROVE  status'[r] = "ZOMBIE" /\ parent'[r] = o
    <3>1. o \notin dead /\ r \in kids[o] /\ o # p
      BY <1>10, <2>2
    <3>2. CASE r = p /\ heir /\ o = q
      <4>1. p \notin dead /\ st[p] = "ZOMBIE"
        BY <1>11, <3>2
      <4>. QED  BY <1>10, <3>2, <4>1 DEF q
    <3>3. CASE r \in zombieChildren[o]
      <4>1. r \in Pids /\ status[r] = "ZOMBIE" /\ parent[r] = o
        BY <3>3 DEF IInv, ZombiesReachable, TypeOK
      <4>2. r # p /\ r \notin zombieChildren[p]
        BY <1>3, <3>1, <4>1
      <4>3. r \notin dead /\ st[r] = "ZOMBIE"
        BY <1>4, <1>11, <4>1, <4>2
      <4>. QED  BY <1>10, <4>1, <4>3
    <3>. QED  BY <3>1, <3>2, <3>3
  <2>. QED  BY <2>1, <2>2 DEF ZombiesReachable
<1>16. IdleScheduled'
  BY <1>3, <1>6, <1>10, PidsFinite DEF IInv, IdleScheduled, Scheduled
<1>17. QuantumNonNegative'
  BY <1>2 DEF QuantumNonNegative
<1>. QED  BY <1>8, <1>12, <1>13, <1>14, <1>15, <1>16, <1>17, ListingAsQueues
          DEF IInv

-----------------------------------------------------------------------------
(* The theorems                                                            *)

LEMMA InitIInv == Init => IInv
<1>. SUFFICES ASSUME Init PROVE IInv
  OBVIOUS
<1>. USE DEF Init
<1>1. /\ 0 \in Pids /\ 1 \in Pids /\ 0 \in Levels /\ <<>> \in Seq(Pids)
      /\ 0 \in 0..MaxProcesses /\ 1 \in 0..MaxProcesses
      /\ 1 \in -1..QtyReadyLevels
  BY SizeAssumption DEF Pids, Levels
<1>2. TypeOK
  BY <1>1 DEF TypeOK, Statuses, IDLE_PID
<1>3. LeastFreePid
  BY <1>1 DEF LeastFreePid, InTable, IDLE_PID, Pids
<1>4. CountMatchesTable
  <2>1. {p \in Pids : InTable(p)} = {IDLE_PID}
    BY <1>1 DEF InTable, IDLE_PID
  <2>. QED  BY <2>1, FS_Singleton DEF CountMatchesTable
<1>5. QueuesMatchStatus
  <2>1. \A l \in Levels, p \in Pids : ~In(readyLevels[l], p)
    BY DEF In
  <2>2. \A l \in Levels : NoDuplicates(readyLevels[l])
    BY DEF NoDuplicates
  <2>3. \A p \in Pids : p # IDLE_PID => ~Scheduled(p)
    BY DEF Scheduled
  <2>4. {p \in Pids : status[p] = "BLOCKED"} = {}
    OBVIOUS
  <2>. QED  BY <2>1, <2>2, <2>3, <2>4 DEF QueuesMatchStatus
<1>6. ZombiesReachable /\ IdleScheduled /\ QuantumNonNegative
  BY <1>1 DEF ZombiesReachable, IdleScheduled, Scheduled, QuantumNonNegative,
              IDLE_PID
<1>. QED  BY <1>2, <1>3, <1>4, <1>5, <1>6 DEF IInv

LEMMA NextIInv == IInv /\ [Next]_vars => IInv'
<1>. SUFFICES ASSUME IInv, [Next]_vars PROVE IInv'
  OBVIOUS
<1>1. CASE UNCHANGED vars
  <2>1. TypeOK'
    BY <1>1 DEF IInv, TypeOK, vars, pcbVars, listVars, tableVars, cpuVars,
                waitVars
  <2>2. SameLife
    BY <1>1 DEF SameLife, vars, pcbVars
  <2>3. QueuesMatchStatus' /\ IdleScheduled' /\ QuantumNonNegative'
    BY <1>1 DEF IInv, QueuesMatchStatus, IdleScheduled, Scheduled,
                QuantumNonNegative, vars, pcbVars, listVars, cpuVars
  <2>. QED  BY <2>1, <2>2, <2>3, SameLifeFrame DEF IInv
<1>2. CASE TimerTick \/ SoftTick
  BY <1>2, DoScheduleStep DEF TimerTick, SoftTick, UserMode
<1>3. CASE ForegroundKill
  <2>1. currentPid \in Pids
    BY DEF IInv, TypeOK
  <2>. QED  BY <1>3, <2>1, KillProcessStep DEF ForegroundKill
<1>4. CASE CtrlC \/ Yield
  BY <1>4, YieldStep
<1>5. CASE StartShell
  <2>1. 0 \in 0..QtyReadyLevels /\ TRUE \in BOOLEAN
    BY SizeAssumption
  <2>. QED  BY <1>5, <2>1, CreateStep DEF StartShell, UserMode
<1>6. ASSUME NEW prio \in 0..QtyReadyLevels, NEW fg \in BOOLEAN,
             CreateProcess(prio, fg)
      PROVE  IInv'
  BY <1>6, CreateStep DEF CreateProcess, Calls, UserMode
<1>7. ASSUME NEW p \in Pids, Kill(p) PROVE IInv'
  BY <1>7, KillProcessStep DEF Kill, Calls, UserMode
<1>8. ASSUME NEW p \in Pids, Block(p) \/ Unblock(p) \/ Wake(p) \/ WaitPid(p)
      PROVE  IInv'
  BY <1>8, BlockStep, UnblockStep, WakeStep, WaitPidStep
<1>9. ASSUME NEW p \in Pids, NEW prio \in Levels, SetPriority(p, prio)
      PROVE  IInv'
  BY <1>9, SetPriorityStep
<1>10. CASE Exit
  <2>1. currentPid \in Pids
    BY DEF IInv, TypeOK
  <2>. QED  BY <1>10, <2>1, KillProcessStep DEF Exit, Calls, UserMode
<1>11. CASE Sleep
  BY <1>11, SleepStep
<1>12. CASE WaitReturn
  BY <1>12, WaitReturnStep
<1>. QED  BY <1>1, <1>2, <1>3, <1>4, <1>5, <1>6, <1>7, <1>8, <1>9, <1>10,
             <1>11, <1>12 DEF Next

LEMMA Invariance == Spec => []IInv
BY InitIInv, NextIInv, PTL DEF Spec

\* Every field keeps its type: no list index, pid or quantum leaves its range.
THEOREM TypeCorrect == Spec => []TypeOK
<1>1. IInv => TypeOK
  BY DEF IInv
<1>. QED  BY Invariance, <1>1, PTL

\* The slot createProcess fills is free, and is the lowest free one.
THEOREM LeastFreePidHolds == Spec => []LeastFreePid
<1>1. IInv => LeastFreePid
  BY DEF IInv
<1>. QED  BY Invariance, <1>1, PTL

\* processCount is the number of processes in the table.
THEOREM CountHolds == Spec => []CountMatchesTable
<1>1. IInv => CountMatchesTable
  BY DEF IInv
<1>. QED  BY Invariance, <1>1, PTL

\* Whatever is created, killed, blocked, woken, moved and preempted, every
\* process is in the one list that removeNode will look for it in.
THEOREM QueuesHold == Spec => []QueuesMatchStatus
<1>1. IInv => QueuesMatchStatus
  BY DEF IInv
<1>. QED  BY Invariance, <1>1, PTL

\* No zombie leaks: each is held by exactly its live parent.
THEOREM ZombiesHold == Spec => []ZombiesReachable
<1>1. IInv => ZombiesReachable
  BY DEF IInv
<1>. QED  BY Invariance, <1>1, PTL

-----------------------------------------------------------------------------
(* How the parts of a step change the status of a process.                 *)

LEMMA ScheduleChanges ==
    ASSUME IInv, DoSchedule, NEW p \in Pids
    PROVE  \/ status'[p] = status[p]
           \/ Scheduled(p) /\ status'[p] \in {"READY", "RUNNING"}
<1>1. CASE KeepRunning
  BY <1>1 DEF KeepRunning, pcbVars
<1>2. ASSUME NEW next \in Pids, SwitchTo(next)
      PROVE  \/ status'[p] = status[p]
             \/ Scheduled(p) /\ status'[p] \in {"READY", "RUNNING"}
  <2>1. Scheduled(next)
    BY <1>2, GetNextPidLemma DEF SwitchTo
  <2>2. /\ Preempted \in [Pids -> Statuses]
        /\ \/ Preempted[p] = status[p]
           \/ Scheduled(p) /\ Preempted[p] = "READY"
    BY DEF IInv, TypeOK, Preempted, Scheduled, Statuses
  <2>3. status' = Preempted \/ status' = [Preempted EXCEPT ![next] = "RUNNING"]
    BY <1>2 DEF SwitchTo
  <2>. QED  BY <2>1, <2>2, <2>3
<1>. QED  BY <1>1, <1>2 DEF DoSchedule

LEMMA CreateChanges ==
    ASSUME IInv, NEW prio, NEW fg, Create(prio, fg), NEW p \in Pids
    PROVE  \/ status'[p] = status[p]
           \/ status[p] = "NONE" /\ status'[p] = "READY"
BY DEF Create, Crash, pcbVars, IInv, TypeOK, LeastFreePid, InTable

LEMMA KillChanges ==
    ASSUME IInv, NEW r \in Pids, KillProcess(r), NEW p \in Pids
    PROVE  \/ status'[p] = status[p]
           \/ status[p] = "ZOMBIE" /\ status'[p] = "NONE"
           \/ p = r /\ Alive(p) /\ status'[p] \in {"ZOMBIE", "NONE"}
           \/ /\ status[p] = "BLOCKED" /\ status'[p] = "READY"
              /\ WakesParent(p, r) /\ r # IDLE_PID
<1>. DEFINE q == parent[r]
            dead == zombieChildren[r] \cup (IF Inherits(q, r) THEN {} ELSE {r})
            st == [x \in Pids |-> IF x = r THEN "ZOMBIE"
                                  ELSE IF WakesParent(q, r) /\ x = q THEN "READY"
                                  ELSE status[x]]
<1>1. Alive(r) /\ r # IDLE_PID /\ status' = Clear(st, dead, "NONE")
  BY DEF KillProcess, DestroyZombies, Unkillable
<1>2. \A x \in zombieChildren[r] : status[x] = "ZOMBIE"
  BY DEF IInv, ZombiesReachable
<1>3. CASE p \in dead
  BY <1>1, <1>2, <1>3 DEF Clear
<1>4. CASE p \notin dead
  <2>1. status'[p] = st[p]
    BY <1>1, <1>4 DEF Clear
  <2>. QED  BY <1>1, <2>1 DEF WakesParent
<1>. QED  BY <1>3, <1>4

LEMMA ReapChanges ==
    ASSUME IInv, NEW child, Reap(child), NEW p \in Pids
    PROVE  status'[p] = IF p = child THEN "NONE" ELSE status[p]
BY DEF Reap, DestroyZombies, Clear

LEMMA SuspendChanges ==
    ASSUME IInv, SuspendCurrent, NEW p \in Pids
    PROVE  \/ status'[p] = status[p]
           \/ p = currentPid /\ status'[p] = "BLOCKED"
BY DEF SuspendCurrent, Suspend, IInv, TypeOK, listVars

-----------------------------------------------------------------------------
(* Who runs                                                                *)

\* A dead process only stays current until the tick that replaces it.
RunInv ==
    /\ RunningIsCurrent
    /\ control = "switch" /\ remainingQuantum > 1 => Alive(currentPid)

\* A step after which nobody new is RUNNING and the current process, unless
\* it is about to be replaced, is as alive as it was in user mode.
LEMMA NobodyNewRuns ==
    ASSUME RunInv, UNCHANGED currentPid,
           \A p \in Pids : status'[p] = "RUNNING" => status[p] = "RUNNING",
           \/ control' = "switch" /\ remainingQuantum' = 0
           \/ UNCHANGED <<control, remainingQuantum>> /\ control # "user"
                /\ control # "switch"
           \/ control = "user" /\ Alive(currentPid)'
    PROVE  RunInv'
BY DEF RunInv, RunningIsCurrent

LEMMA ScheduleRuns ==
    ASSUME IInv, RunInv, DoSchedule, control \in {"user", "switch"}
    PROVE  RunInv'
<1>0. currentPid \in Pids /\ remainingQuantum \in Int
  BY SizeAssumption DEF IInv, TypeOK
<1>1. CASE KeepRunning
  BY <1>0, <1>1 DEF KeepRunning, pcbVars, RunInv, RunningIsCurrent, Alive
<1>2. ASSUME NEW next \in Pids, SwitchTo(next) PROVE RunInv'
  <2>1. \A p \in Pids : Preempted[p] # "RUNNING"
    BY DEF Preempted, RunInv, RunningIsCurrent, IInv, TypeOK
  <2>2. Preempted \in [Pids -> Statuses]
    BY DEF Preempted, IInv, TypeOK, Statuses
  <2>3. CASE status' = Preempted /\ control' = "kill"
    BY <2>1, <2>3 DEF RunInv, RunningIsCurrent
  <2>4. CASE /\ status' = [Preempted EXCEPT ![next] = "RUNNING"]
             /\ control' = "user" /\ currentPid' = next
    BY <2>1, <2>2, <2>4 DEF RunInv, RunningIsCurrent, Alive
  <2>. QED  BY <1>2, <2>3, <2>4 DEF SwitchTo
<1>. QED  BY <1>1, <1>2 DEF DoSchedule

LEMMA RunningStep ==
    ASSUME IInv, RunInv, [Next]_vars
    PROVE  RunInv'
<1>0. /\ currentPid \in Pids
      /\ control = "user" => Alive(currentPid)
  BY DEF IInv, TypeOK, RunInv, RunningIsCurrent
<1>1. CASE UNCHANGED <<status, currentPid, control, remainingQuantum>>
  BY <1>1 DEF RunInv, RunningIsCurrent, Alive
<1>2. CASE UNCHANGED vars \/ Crash("corrupt") \/ Crash("hang")
  BY <1>1, <1>2 DEF Crash, vars, pcbVars, cpuVars
<1>3. CASE TimerTick \/ SoftTick
  BY <1>3, ScheduleRuns DEF TimerTick, SoftTick, UserMode
<1>4. CASE CtrlC
  BY <1>0, <1>4 DEF CtrlC, UserMode, pcbVars, cpuVars, RunInv,
                    RunningIsCurrent, Alive
<1>5. CASE Yield
  BY <1>5, NobodyNewRuns DEF Yield, Yielding, pcbVars
<1>6. ASSUME NEW prio, NEW fg, Create(prio, fg), control = "user"
      PROVE  RunInv'
  <2>1. CASE UNCHANGED <<cpuVars, control>>
    <3>1. /\ Alive(currentPid)'
          /\ \A p \in Pids : status'[p] = "RUNNING" => status[p] = "RUNNING"
      BY <1>0, <1>6, CreateChanges DEF Create, Crash, Alive, cpuVars
    <3>. QED  BY <1>6, <2>1, <3>1, NobodyNewRuns DEF cpuVars
  <2>. QED  BY <1>6, <2>1 DEF Create, Crash
<1>7. ASSUME NEW r \in Pids, KillProcess(r), control = "user" \/ r = currentPid
      PROVE  RunInv'
  <2>1. /\ UNCHANGED currentPid
        /\ r = currentPid => control' = "switch" /\ remainingQuantum' = 0
    BY <1>7 DEF KillProcess
  <2>2. \A p \in Pids : status'[p] = "RUNNING" => status[p] = "RUNNING"
    BY <1>7, KillChanges
  <2>3. r # currentPid => Alive(currentPid)'
    <3>1. r # currentPid => \/ status'[currentPid] = status[currentPid]
                            \/ status'[currentPid] = "READY"
      BY <1>0, <1>7, KillChanges DEF Alive
    <3>. QED  BY <1>0, <1>7, <2>1, <3>1 DEF Alive
  <2>. QED  BY <1>7, <2>1, <2>2, <2>3, NobodyNewRuns
<1>8. ASSUME NEW p \in Pids, Block(p) \/ Unblock(p) \/ Wake(p)
      PROVE  RunInv'
  <2>1. /\ control = "user" /\ UNCHANGED currentPid
        /\ \A q \in Pids : \/ status'[q] = status[q]
                           \/ Alive(q) /\ status'[q] \in {"BLOCKED", "READY"}
    BY <1>8 DEF Block, Unblock, Wake, Calls, UserMode, Suspend, Scheduled, Crash,
                Alive, pcbVars, cpuVars, IInv, TypeOK
  <2>. QED  BY <1>0, <2>1, NobodyNewRuns DEF Alive
<1>9. ASSUME NEW p \in Pids, NEW prio \in Levels, SetPriority(p, prio)
      PROVE  RunInv'
  BY <1>1, <1>9 DEF SetPriority, cpuVars
<1>10. ASSUME SuspendCurrent, Yielding, UNCHANGED currentPid PROVE RunInv'
  BY <1>10, SuspendChanges, NobodyNewRuns DEF Yielding
<1>11. ASSUME NEW child \in Pids, status[child] = "ZOMBIE", Reap(child),
              control = "user"
       PROVE  RunInv'
  <2>1. /\ UNCHANGED <<currentPid, control, remainingQuantum>>
        /\ \A p \in Pids : \/ status'[p] = status[p]
                           \/ ~Alive(p) /\ status'[p] = "NONE"
    BY <1>11, ReapChanges DEF Reap, cpuVars, Alive
  <2>. QED  BY <1>0, <1>11, <2>1, NobodyNewRuns DEF Alive
<1>12. CASE StartShell
  BY <1>6, <1>12 DEF StartShell, UserMode
<1>13. ASSUME NEW prio \in 0..QtyReadyLevels, NEW fg \in BOOLEAN,
              CreateProcess(prio, fg)
       PROVE  RunInv'
  BY <1>6, <1>13 DEF CreateProcess, Calls, UserMode
<1>14. ASSUME NEW p \in Pids, Kill(p) PROVE RunInv'
  BY <1>7, <1>14 DEF Kill, Calls, UserMode
<1>15. CASE Exit \/ ForegroundKill
  BY <1>0, <1>7, <1>15 DEF Exit, ForegroundKill, Calls, UserMode
<1>16. ASSUME NEW p \in Pids, WaitPid(p) PROVE RunInv'
  BY <1>10, <1>11, <1>16 DEF WaitPid, Calls, UserMode
<1>17. CASE Sleep
  BY <1>10, <1>17 DEF Sleep
<1>18. CASE WaitReturn
  <2>. DEFINE child == targetWaitPid[currentPid]
  <2>1. CASE child \in zombieChildren[currentPid] /\ Reap(child)
    <3>1. child \in Pids /\ status[child] = "ZOMBIE"
      BY <1>0, <2>1 DEF IInv, TypeOK, ZombiesReachable
    <3>. QED  BY <1>11, <1>18, <2>1, <3>1 DEF WaitReturn
  <2>. QED  BY <1>2, <1>18, <2>1 DEF WaitReturn
<1>. QED  BY <1>2, <1>3, <1>4, <1>5, <1>8, <1>9, <1>12, <1>13, <1>14, <1>15,
             <1>16, <1>17, <1>18 DEF Next

LEMMA RunInvariance == Spec => [](IInv /\ RunInv)
<1>1. Init => RunInv
  <2>. SUFFICES ASSUME Init PROVE RunInv
    OBVIOUS
  <2>1. \A p \in Pids : status[p] = "RUNNING" => p = IDLE_PID
    BY DEF Init
  <2>2. IDLE_PID \in Pids
    BY PidsFinite
  <2>3. status[currentPid] = "RUNNING"
    BY <2>2 DEF Init
  <2>. QED  BY <2>1, <2>3 DEF Init, RunInv, RunningIsCurrent, Alive
<1>2. IInv /\ RunInv /\ [Next]_vars => (IInv /\ RunInv)'
  BY NextIInv, RunningStep
<1>. QED  BY InitIInv, <1>1, <1>2, PTL DEF Spec

\* Only the current process is RUNNING, and no user code runs for the dead.
THEOREM RunningIsCurrentHolds == Spec => []RunningIsCurrent
<1>1. IInv /\ RunInv => RunningIsCurrent
  BY DEF RunInv
<1>. QED  BY RunInvariance, <1>1, PTL

LEMMA DispatchStep ==
    ASSUME IInv, RunInv, Next, currentPid' # currentPid
    PROVE  status[currentPid'] = "READY"
<1>1. TimerTick \/ SoftTick
  BY DEF Next, ForegroundKill, KillProcess, CtrlC, StartShell, Create, Crash,
         CreateProcess, Kill, Block, Unblock, Wake, WaitPid, Reap, SetPriority,
         Exit, Yield, Sleep, WaitReturn, cpuVars
<1>2. PICK next \in Pids : SwitchTo(next)
  BY <1>1 DEF TimerTick, SoftTick, DoSchedule, KeepRunning
<1>3. currentPid' = next
  BY <1>2 DEF SwitchTo
<1>4. Scheduled(next)
  BY <1>2, GetNextPidLemma DEF SwitchTo
<1>. QED  BY <1>3, <1>4 DEF Scheduled, RunInv, RunningIsCurrent

\* The processor is only ever given to a process that is READY.
THEOREM DispatchesReadyHolds == Spec => DispatchesReady
<1>1. /\ IInv /\ RunInv /\ [Next]_vars
      => [currentPid' # currentPid => status[currentPid'] = "READY"]_vars
  BY DispatchStep
<1>. QED  BY RunInvariance, <1>1, PTL DEF Spec, DispatchesReady

-----------------------------------------------------------------------------
(* How processes wait for their children, and how exit values survive      *)
(* until they are collected (getZombieRetValue, killProcess and            *)
(* destroyZombie of schedule.c), on top of the invariant above.            *)

-----------------------------------------------------------------------------
(* Exit values                                                             *)

LEMMA KillFrees ==
    ASSUME IInv, NEW r \in Pids, KillProcess(r), NEW p \in Pids,
           status[p] = "ZOMBIE", status'[p] = "NONE"
    PROVE  status'[parent[p]] \in {"ZOMBIE", "NONE"}
<1>. DEFINE dead == zombieChildren[r] \cup
                    (IF Inherits(parent[r], r) THEN {} ELSE {r})
            st == [x \in Pids |->
                     IF x = r THEN "ZOMBIE"
                     ELSE IF WakesParent(parent[r], r) /\ x = parent[r] THEN "READY"
                     ELSE status[x]]
<1>1. Alive(r) /\ status' = Clear(st, dead, "NONE")
  BY DEF KillProcess, DestroyZombies
<1>2. p \in dead
  BY <1>1 DEF Clear, WakesParent
<1>3. parent[p] = r
  BY <1>1, <1>2 DEF Alive, IInv, ZombiesReachable
<1>. QED  BY <1>1, <1>3 DEF Clear

LEMMA ReapStepFrees ==
    ASSUME IInv, [Next]_vars, NEW p \in Pids,
           status[p] = "ZOMBIE", status'[p] = "NONE"
    PROVE  \/ currentPid = parent[p]
           \/ status'[parent[p]] \in {"ZOMBIE", "NONE"}
<1>0. currentPid \in Pids
  BY DEF IInv, TypeOK
<1>1. CASE UNCHANGED vars \/ CtrlC \/ Yield
  BY <1>1 DEF vars, pcbVars, CtrlC, Yield
<1>2. CASE TimerTick \/ SoftTick
  BY <1>2, ScheduleChanges DEF TimerTick, SoftTick, Scheduled
<1>3. CASE ForegroundKill \/ Exit
  BY <1>0, <1>3, KillFrees DEF ForegroundKill, Exit
<1>4. CASE StartShell \/ \E prio \in 0..QtyReadyLevels, fg \in BOOLEAN :
                           CreateProcess(prio, fg)
  BY <1>4, CreateChanges DEF StartShell, CreateProcess
<1>5. ASSUME NEW q \in Pids, Kill(q)
      PROVE  status'[parent[p]] \in {"ZOMBIE", "NONE"}
  BY <1>5, KillFrees DEF Kill
<1>6. ASSUME NEW q \in Pids, Block(q) \/ Unblock(q) \/ Wake(q) PROVE FALSE
  BY <1>6 DEF Block, Unblock, Wake, Suspend, Crash, pcbVars, IInv, TypeOK
<1>7. ASSUME NEW q \in Pids, NEW prio \in Levels, SetPriority(q, prio)
      PROVE  FALSE
  BY <1>7 DEF SetPriority
<1>8. CASE Sleep
  BY <1>8, SuspendChanges DEF Sleep
<1>9. ASSUME NEW child \in Pids, WaitPid(child)
      PROVE  currentPid = parent[p]
  <2>1. CASE Reap(child)
    <3>1. p = child
      BY <2>1, ReapChanges
    <3>. QED  BY <1>9, <3>1 DEF WaitPid, IsChild
  <2>2. CASE SuspendCurrent
    BY <2>2, SuspendChanges
  <2>. QED  BY <1>9, <2>1, <2>2 DEF WaitPid
<1>10. CASE WaitReturn
  <2>. DEFINE child == targetWaitPid[currentPid]
  <2>1. CASE child \in zombieChildren[currentPid] /\ Reap(child)
    <3>1. p = child
      BY <2>1, ReapChanges
    <3>. QED  BY <1>0, <2>1, <3>1 DEF IInv, ZombiesReachable
  <2>2. CASE Crash("corrupt")
    BY <2>2 DEF Crash, pcbVars
  <2>. QED  BY <1>10, <2>1, <2>2 DEF WaitReturn
<1>. QED  BY <1>1, <1>2, <1>3, <1>4, <1>5, <1>6, <1>7, <1>8, <1>9, <1>10
          DEF Next

\* Whatever is called in whatever order, a zombie leaves the table only by its
\* parent's wait or together with its parent.
THEOREM ReapedByParentHolds == Spec => ReapedByParent
<1>. DEFINE Survives == \A p \in Pids :
                          status[p] = "ZOMBIE" /\ status'[p] = "NONE" =>
                            \/ currentPid = parent[p]
                            \/ status'[parent[p]] \in {"ZOMBIE", "NONE"}
<1>1. IInv /\ [Next]_vars => [Survives]_vars
  BY ReapStepFrees
<1>. QED  BY Invariance, <1>1, PTL DEF Spec, ReapedByParent

-----------------------------------------------------------------------------
(* Who waits, and for whom                                                 *)

\* A process inside getZombieRetValue is alive and waits for a child of its
\* own that is still in the table.
OwnsTarget(w) ==
    /\ w # IDLE_PID /\ Alive(w)
    /\ InTable(targetWaitPid[w]) /\ parent[targetWaitPid[w]] = w
WaitersOwnTarget == \A w \in waiting : OwnsTarget(w)

\* The child of a blocked waiter can still exit; the child of one that is not
\* blocked has exited.
CanHear(w) == status[w] = "BLOCKED" => Alive(targetWaitPid[w])
CanReturn(w) == status[w] # "BLOCKED" => status[targetWaitPid[w]] = "ZOMBIE"

\* What a step must leave to a process that goes on waiting.
StillWaits(w) ==
    /\ OwnsTarget(w)'
    /\ CanHear(w) => CanHear(w)'
    /\ CanReturn(w) => CanReturn(w)'

LEMMA WaiterType ==
    ASSUME IInv, WaitersOwnTarget, NEW w \in waiting
    PROVE  /\ w \in Pids /\ targetWaitPid[w] \in Pids /\ OwnsTarget(w)
BY DEF IInv, TypeOK, WaitersOwnTarget

\* A step that moves processes between READY and RUNNING only.
LEMMA ShuffleKeeps ==
    ASSUME IInv, WaitersOwnTarget, NEW w \in waiting,
           UNCHANGED <<targetWaitPid, parent>>,
           \A p \in Pids : \/ status'[p] = status[p]
                           \/ Scheduled(p) /\ status'[p] \in {"READY", "RUNNING"}
    PROVE  StillWaits(w)
BY WaiterType
   DEF StillWaits, OwnsTarget, CanHear, CanReturn, Alive, InTable, Scheduled

LEMMA CreateKeeps ==
    ASSUME IInv, WaitersOwnTarget, NEW w \in waiting,
           NEW prio, NEW fg, Create(prio, fg)
    PROVE  StillWaits(w)
<1>. DEFINE t == targetWaitPid[w]
<1>1. w \in Pids /\ t \in Pids /\ OwnsTarget(w)
  BY WaiterType
<1>2. /\ status[w] # "NONE" /\ status[t] # "NONE"
      /\ status'[w] = status[w] /\ status'[t] = status[t]
  BY <1>1, CreateChanges DEF OwnsTarget, Alive, InTable
<1>3. targetWaitPid'[w] = t /\ parent'[t] = parent[t]
  BY <1>1, <1>2 DEF Create, Crash, pcbVars, IInv, LeastFreePid, InTable, TypeOK
<1>. QED  BY <1>1, <1>2, <1>3
          DEF StillWaits, OwnsTarget, CanHear, CanReturn, Alive, InTable

\* The death of a waiter's child makes it a zombie and, if the waiter is
\* blocked, wakes it.
LEMMA KillKeeps ==
    ASSUME IInv, WaitersOwnTarget, NEW r \in Pids, KillProcess(r),
           NEW w \in waiting, w # r
    PROVE  StillWaits(w)
<1>. DEFINE t == targetWaitPid[w]
            q == parent[r]
            dead == zombieChildren[r] \cup (IF Inherits(q, r) THEN {} ELSE {r})
            st == [x \in Pids |-> IF x = r THEN "ZOMBIE"
                                  ELSE IF WakesParent(q, r) /\ x = q THEN "READY"
                                  ELSE status[x]]
<1>1. w \in Pids /\ t \in Pids /\ OwnsTarget(w)
  BY WaiterType
<1>2. /\ Alive(r) /\ status' = Clear(st, dead, "NONE")
      /\ parent' = Clear(parent, dead, IDLE_PID)
      /\ targetWaitPid' = Clear(targetWaitPid, dead, 0)
  BY DEF KillProcess, DestroyZombies
<1>3. \A x \in zombieChildren[r] : status[x] = "ZOMBIE" /\ parent[x] = r
  BY DEF IInv, ZombiesReachable
<1>4. w \notin dead
  BY <1>1, <1>3 DEF OwnsTarget, Alive
<1>5. t \notin dead
  <2>1. t \notin zombieChildren[r]
    BY <1>1, <1>3 DEF OwnsTarget
  <2>2. t = r => Inherits(q, r)
    BY <1>1, <1>4 DEF OwnsTarget, Inherits
  <2>. QED  BY <2>1, <2>2
<1>6. /\ status'[w] = st[w] /\ status'[t] = st[t]
      /\ parent'[t] = w /\ targetWaitPid'[w] = t
  BY <1>1, <1>2, <1>4, <1>5 DEF Clear, OwnsTarget
<1>7. CASE t = r
  <2>1. Inherits(w, r) /\ q = w
    BY <1>1, <1>5, <1>7 DEF OwnsTarget
  <2>2. status[w] = "BLOCKED" => WakesParent(w, r)
    BY <1>1, <1>7, <2>1 DEF WakesParent, OwnsTarget
  <2>3. st[w] # "BLOCKED" /\ st[t] = "ZOMBIE" /\ st[w] \notin {"NONE", "ZOMBIE"}
    BY <1>1, <1>7, <2>1, <2>2 DEF OwnsTarget, Alive
  <2>. QED  BY <1>1, <1>6, <2>3
            DEF StillWaits, OwnsTarget, CanHear, CanReturn, Alive, InTable
<1>8. CASE t # r
  <2>1. st[w] = status[w]
    BY <1>1, <1>8 DEF WakesParent
  <2>2. \/ st[t] = status[t]
        \/ status[t] = "BLOCKED" /\ st[t] = "READY"
    BY <1>1, <1>8 DEF WakesParent
  <2>. QED  BY <1>1, <1>6, <2>1, <2>2
            DEF StillWaits, OwnsTarget, CanHear, CanReturn, Alive, InTable
<1>. QED  BY <1>7, <1>8

\* A process reaps its own children: not the one that another waits for.
LEMMA ReapKeeps ==
    ASSUME IInv, WaitersOwnTarget, NEW w \in waiting, w # currentPid,
           NEW child \in Pids, status[child] = "ZOMBIE",
           parent[child] = currentPid, Reap(child),
           targetWaitPid'[w] = IF w = child THEN 0 ELSE targetWaitPid[w]
    PROVE  StillWaits(w)
<1>. DEFINE t == targetWaitPid[w]
<1>1. w \in Pids /\ t \in Pids /\ OwnsTarget(w)
  BY WaiterType
<1>2. w # child /\ t # child
  BY <1>1 DEF OwnsTarget, Alive
<1>3. /\ status'[w] = status[w] /\ status'[t] = status[t]
      /\ parent'[t] = parent[t] /\ targetWaitPid'[w] = t
  BY <1>1, <1>2, ReapChanges DEF Reap, DestroyZombies, Clear
<1>. QED  BY <1>1, <1>3
          DEF StillWaits, OwnsTarget, CanHear, CanReturn, Alive, InTable

\* One process other than w goes to sleep.
LEMMA SuspendKeeps ==
    ASSUME IInv, WaitersOwnTarget, NEW w \in waiting, w # currentPid,
           SuspendCurrent, UNCHANGED parent, targetWaitPid'[w] = targetWaitPid[w]
    PROVE  StillWaits(w)
<1>. DEFINE t == targetWaitPid[w]
<1>1. w \in Pids /\ t \in Pids /\ OwnsTarget(w)
  BY WaiterType
<1>2. status'[w] = status[w]
  BY <1>1, SuspendChanges
<1>3. \/ status'[t] = status[t]
      \/ status[t] \in {"READY", "RUNNING"} /\ status'[t] = "BLOCKED"
  BY <1>1 DEF SuspendCurrent, Suspend, Scheduled, listVars, IInv, TypeOK
<1>. QED  BY <1>1, <1>2, <1>3
          DEF StillWaits, OwnsTarget, CanHear, CanReturn, Alive, InTable

\* Somebody other than its child makes a waiter go on.
WokenEarly(w) == AwaitsExit(w) /\ (Unblock(w) \/ Wake(w))

LEMMA WaiterStep ==
    ASSUME IInv, WaitersOwnTarget, [Next]_vars,
           NEW w \in waiting, w \in waiting'
    PROVE  /\ OwnsTarget(w)'
           /\ "block" \notin Syscalls => (CanHear(w) => CanHear(w)')
           /\ CanReturn(w) => CanReturn(w)' \/ WokenEarly(w)
<1>. DEFINE t == targetWaitPid[w]
<1>0. /\ currentPid \in Pids /\ w \in Pids /\ t \in Pids /\ OwnsTarget(w)
  BY WaiterType DEF IInv, TypeOK
<1>1. CASE UNCHANGED <<status, parent, targetWaitPid>>
  BY <1>1, ShuffleKeeps DEF StillWaits
<1>2. CASE UNCHANGED vars \/ CtrlC \/ Yield
  BY <1>1, <1>2 DEF vars, pcbVars, CtrlC, Yield
<1>3. CASE TimerTick \/ SoftTick
  <2>1. DoSchedule /\ UNCHANGED <<parent, targetWaitPid>>
    BY <1>3 DEF TimerTick, SoftTick, DoSchedule, KeepRunning, SwitchTo, pcbVars
  <2>. QED  BY <2>1, ScheduleChanges, ShuffleKeeps DEF StillWaits
<1>4. CASE ForegroundKill \/ Exit
  <2>1. KillProcess(currentPid) /\ w # currentPid
    BY <1>4 DEF ForegroundKill, Exit, KillProcess
  <2>. QED  BY <1>0, <2>1, KillKeeps DEF StillWaits
<1>5. CASE StartShell \/ \E prio \in 0..QtyReadyLevels, fg \in BOOLEAN :
                           CreateProcess(prio, fg)
  BY <1>5, CreateKeeps DEF StillWaits, StartShell, CreateProcess
<1>6. ASSUME NEW q \in Pids, Kill(q) PROVE StillWaits(w)
  <2>1. KillProcess(q) /\ w # q
    BY <1>6 DEF Kill, KillProcess
  <2>. QED  BY <2>1, KillKeeps
<1>7. ASSUME NEW q \in Pids, Block(q)
      PROVE  /\ OwnsTarget(w)' /\ "block" \in Syscalls
             /\ CanReturn(w) => CanReturn(w)'
  <2>1. UNCHANGED <<parent, targetWaitPid>> /\ "block" \in Syscalls
    BY <1>7 DEF Block, Calls, Crash, pcbVars
  <2>2. \A p \in Pids : \/ status'[p] = status[p]
                        \/ Scheduled(p) /\ status'[p] = "BLOCKED"
    BY <1>7 DEF Block, Suspend, Crash, pcbVars, IInv, TypeOK
  <2>. QED  BY <1>0, <2>1, <2>2
            DEF OwnsTarget, CanReturn, Alive, InTable, Scheduled
<1>8. ASSUME NEW q \in Pids, Unblock(q) \/ Wake(q)
      PROVE  /\ OwnsTarget(w)'
             /\ CanHear(w) => CanHear(w)'
             /\ CanReturn(w) => CanReturn(w)' \/ WokenEarly(w)
  <2>1. /\ UNCHANGED <<parent, targetWaitPid>> /\ PermittedWake(q)
        /\ status[q] \in {"BLOCKED", "RUNNING"}
        /\ status' = [status EXCEPT ![q] = "READY"]
    BY <1>8 DEF Unblock, Wake, PermittedUnblock
  <2>2. /\ status'[w] = IF w = q THEN "READY" ELSE status[w]
        /\ status'[t] = IF t = q THEN "READY" ELSE status[t]
    BY <1>0, <2>1 DEF IInv, TypeOK
  <2>3. w = q => status[t] = "ZOMBIE" \/ WokenEarly(w)
    BY <1>8 DEF WokenEarly, AwaitsExit
  <2>. QED  BY <1>0, <2>1, <2>2, <2>3
            DEF OwnsTarget, CanHear, CanReturn, Alive, InTable
<1>9. ASSUME NEW q \in Pids, NEW prio \in Levels, SetPriority(q, prio)
      PROVE  UNCHANGED <<status, parent, targetWaitPid>>
  BY <1>9 DEF SetPriority
<1>10. CASE Sleep
  <2>1. w # currentPid
    BY <1>10 DEF Sleep, Calls, UserMode
  <2>. QED  BY <1>10, <2>1, SuspendKeeps DEF Sleep, StillWaits
<1>11. ASSUME NEW child \in Pids, WaitPid(child) PROVE StillWaits(w)
  <2>1. w # currentPid /\ parent[child] = currentPid
    BY <1>11 DEF WaitPid, Calls, UserMode, IsChild
  <2>2. CASE /\ status[child] = "ZOMBIE" /\ Reap(child)
             /\ targetWaitPid' = Clear([targetWaitPid EXCEPT ![currentPid] = child],
                                       {child}, 0)
    <3>1. targetWaitPid'[w] = IF w = child THEN 0 ELSE targetWaitPid[w]
      BY <1>0, <2>1, <2>2 DEF Clear, IInv, TypeOK
    <3>. QED  BY <2>1, <2>2, <3>1, ReapKeeps
  <2>3. CASE /\ SuspendCurrent /\ UNCHANGED parent
             /\ targetWaitPid' = [targetWaitPid EXCEPT ![currentPid] = child]
    BY <2>1, <2>3, SuspendKeeps DEF IInv, TypeOK
  <2>. QED  BY <1>11, <2>2, <2>3 DEF WaitPid
<1>12. CASE WaitReturn
  <2>. DEFINE child == targetWaitPid[currentPid]
  <2>1. CASE /\ child \in zombieChildren[currentPid] /\ Reap(child)
             /\ targetWaitPid' = Clear(targetWaitPid, {child}, 0)
             /\ waiting' = waiting \ {currentPid}
    <3>1. child \in Pids /\ status[child] = "ZOMBIE" /\ parent[child] = currentPid
      BY <1>0, <2>1 DEF IInv, TypeOK, ZombiesReachable
    <3>2. targetWaitPid'[w] = IF w = child THEN 0 ELSE targetWaitPid[w]
      BY <1>0, <2>1 DEF Clear
    <3>. QED  BY <2>1, <3>1, <3>2, ReapKeeps DEF StillWaits
  <2>2. CASE Crash("corrupt")
    BY <1>1, <2>2 DEF Crash, pcbVars
  <2>. QED  BY <1>12, <2>1, <2>2 DEF WaitReturn
<1>13. ASSUME NEW q \in Pids,
              Kill(q) \/ Block(q) \/ Unblock(q) \/ Wake(q) \/ WaitPid(q)
       PROVE  /\ OwnsTarget(w)'
              /\ "block" \notin Syscalls => (CanHear(w) => CanHear(w)')
              /\ CanReturn(w) => CanReturn(w)' \/ WokenEarly(w)
  BY <1>6, <1>7, <1>8, <1>11, <1>13 DEF StillWaits
<1>. QED  BY <1>1, <1>2, <1>3, <1>4, <1>5, <1>9, <1>10, <1>12, <1>13 DEF Next

\* Only WaitPid makes a process wait, blocked and for a child that is alive.
LEMMA NewWaiter ==
    ASSUME IInv, [Next]_vars, NEW w \in waiting', w \notin waiting
    PROVE  /\ OwnsTarget(w)' /\ Alive(targetWaitPid[w])' /\ status'[w] = "BLOCKED"
           /\ control' = "switch" /\ remainingQuantum' = 0
<1>1. PICK child \in Pids : WaitPid(child)
  BY DEF vars, waitVars, Next, TimerTick, SoftTick, DoSchedule, ForegroundKill,
         KillProcess, CtrlC, StartShell, Create, Crash, CreateProcess, Kill,
         Block, Unblock, Wake, SetPriority, Exit, Yield, Sleep, WaitReturn
<1>2. /\ currentPid # IDLE_PID /\ InTable(child) /\ status[child] # "ZOMBIE"
      /\ targetWaitPid' = [targetWaitPid EXCEPT ![currentPid] = child]
      /\ parent' = parent /\ parent[child] = currentPid
      /\ SuspendCurrent /\ Yielding /\ w = currentPid
  BY <1>1 DEF WaitPid, Calls, IsChild, waitVars
<1>3. status' = [status EXCEPT ![currentPid] = "BLOCKED"]
  BY <1>2 DEF SuspendCurrent, Suspend, IInv, TypeOK
<1>4. currentPid \in Pids /\ status[child] \notin {"NONE", "ZOMBIE"}
  BY <1>2 DEF IInv, TypeOK, InTable
<1>. QED  BY <1>2, <1>3, <1>4
          DEF OwnsTarget, Alive, InTable, Yielding, IInv, TypeOK

-----------------------------------------------------------------------------
(* The theorems                                                            *)

LEMMA WaitersOwnStep == IInv /\ WaitersOwnTarget /\ [Next]_vars => WaitersOwnTarget'
<1>. SUFFICES ASSUME IInv, WaitersOwnTarget, [Next]_vars, NEW w \in waiting'
              PROVE  OwnsTarget(w)'
  BY DEF WaitersOwnTarget
<1>. QED  BY WaiterStep, NewWaiter

LEMMA WaitInvariance == Spec => [](IInv /\ WaitersOwnTarget)
<1>1. Init => WaitersOwnTarget
  BY DEF Init, WaitersOwnTarget
<1>. QED  BY InitIInv, NextIInv, <1>1, WaitersOwnStep, PTL DEF Spec

\* As long as nobody blocks a process that waits, whatever arguments the other
\* calls are given, the child of a waiter that is blocked can still exit: no
\* exit is missed between the look at the child and the yield().
THEOREM NoLostExitHolds ==
    ASSUME "block" \notin Syscalls
    PROVE  Spec => []NoLostExit
<1>1. Init => NoLostExit
  BY DEF Init, NoLostExit
<1>2. IInv /\ WaitersOwnTarget /\ NoLostExit /\ [Next]_vars => NoLostExit'
  <2>. SUFFICES ASSUME IInv, WaitersOwnTarget, NoLostExit, [Next]_vars,
                       NEW w \in waiting'
                PROVE  CanHear(w)'
    BY DEF NoLostExit, CanHear
  <2>1. CASE w \in waiting
    BY <2>1, WaiterStep DEF NoLostExit, CanHear
  <2>. QED  BY <2>1, NewWaiter DEF CanHear
<1>. QED  BY WaitInvariance, <1>1, <1>2, PTL DEF Spec

\* What a waiter that returns from its yield() finds, for callers that do not
\* wake a process from outside while it waits for a child.
WaitersReturn ==
    /\ stale = {}
    /\ \A w \in waiting : CanReturn(w)
    /\ currentPid \in waiting /\ control = "user" => status[currentPid] # "BLOCKED"
    /\ currentPid \in waiting /\ control = "switch" => remainingQuantum <= 1

LEMMA NothingStale ==
    ASSUME AnyArguments = FALSE, IInv, WaitersReturn, [Next]_vars
    PROVE  stale' = {}
<1>1. ASSUME NEW p \in Pids, Unblock(p) PROVE stale' = {}
  <2>1. status[p] = "BLOCKED" /\ \A w \in waiting : AwaitsExit(w) => targetWaitPid[w] # p
    BY <1>1 DEF Unblock, PermittedUnblock
  <2>2. {w \in waiting : targetWaitPid[w] = p} = {}
    BY <2>1 DEF AwaitsExit
  <2>. QED  BY <1>1, <2>2 DEF Unblock, WaitersReturn
<1>. QED  BY <1>1 DEF WaitersReturn, vars, waitVars, Next, TimerTick, SoftTick,
         DoSchedule, ForegroundKill, KillProcess, CtrlC, StartShell, Create,
         Crash, CreateProcess, Kill, Block, Wake, WaitPid, SetPriority, Exit,
         Yield, Sleep, WaitReturn

\* A waiter gets the processor only from schedule(), which makes it RUNNING.
LEMMA WaiterRuns ==
    ASSUME IInv, WaitersReturn, [Next]_vars, currentPid' \in waiting'
    PROVE  /\ control' = "user" => status'[currentPid'] # "BLOCKED"
           /\ control' = "switch" => remainingQuantum' <= 1
<1>0. currentPid \in Pids /\ remainingQuantum \in Int
  BY SizeAssumption DEF IInv, TypeOK
<1>1. CASE UNCHANGED <<status, waiting, cpuVars, control>>
  BY <1>1 DEF WaitersReturn, cpuVars
<1>2. CASE TimerTick \/ SoftTick
  <2>1. waiting' = waiting /\ DoSchedule
    BY <1>2 DEF TimerTick, SoftTick, DoSchedule, waitVars
  <2>2. ~KeepRunning
    BY <1>0, <1>2, <2>1 DEF TimerTick, SoftTick, UserMode, KeepRunning, WaitersReturn
  <2>3. PICK next \in Pids : SwitchTo(next)
    BY <2>1, <2>2 DEF DoSchedule
  <2>4. Preempted \in [Pids -> Statuses]
    BY DEF Preempted, IInv, TypeOK, Statuses
  <2>. QED  BY <2>3, <2>4 DEF SwitchTo
<1>3. ASSUME NEW w \in waiting', w \notin waiting, w = currentPid'
      PROVE  control' = "switch" /\ remainingQuantum' = 0
  BY <1>3, NewWaiter
<1>4. ASSUME UserMode, UNCHANGED currentPid, currentPid \in waiting'
      PROVE  control' = "switch" /\ remainingQuantum' = 0
  BY <1>3, <1>4 DEF UserMode
<1>5. CASE ForegroundKill \/ Exit
  BY <1>5 DEF ForegroundKill, Exit, KillProcess
<1>6. CASE WaitReturn
  BY <1>1, <1>6 DEF WaitReturn, Crash, Reap, pcbVars, waitVars, cpuVars
<1>7. \/ UNCHANGED vars \/ TimerTick \/ SoftTick \/ ForegroundKill \/ Exit \/ WaitReturn
      \/ UserMode /\ UNCHANGED currentPid
  BY DEF Next, CtrlC, StartShell, Create, Crash, CreateProcess, Calls, Kill,
         KillProcess, Block, Unblock, Wake, SetPriority, Yield, Sleep, WaitPid,
         Reap, cpuVars
<1>8. CASE UNCHANGED vars
  BY <1>1, <1>8 DEF vars, pcbVars, waitVars
<1>. QED  BY <1>2, <1>4, <1>5, <1>6, <1>7, <1>8

LEMMA WaitersReturnStep ==
    ASSUME IInv, WaitersOwnTarget, WaitersReturn, [Next]_vars,
           stale' = {}, \A w \in waiting : ~WokenEarly(w)
    PROVE  WaitersReturn'
<1>1. ASSUME NEW w \in waiting' PROVE CanReturn(w)'
  <2>1. CASE w \in waiting
    BY <2>1, WaiterStep DEF WaitersReturn
  <2>. QED  BY <1>1, <2>1, NewWaiter DEF CanReturn
<1>. QED  BY <1>1, WaiterRuns DEF WaitersReturn

LEMMA ReturnInvariance ==
    ASSUME AnyArguments = FALSE
    PROVE  Spec => [](IInv /\ WaitersOwnTarget /\ WaitersReturn)
<1>1. Init => WaitersOwnTarget /\ WaitersReturn
  BY DEF Init, WaitersOwnTarget, WaitersReturn
<1>2. IInv /\ WaitersOwnTarget /\ WaitersReturn /\ [Next]_vars => WaitersReturn'
  <2>1. \A w : ~WokenEarly(w)
    BY DEF WokenEarly, Unblock, Wake, PermittedUnblock, PermittedWake
  <2>. QED  BY <2>1, NothingStale, WaitersReturnStep
<1>. QED  BY InitIInv, NextIInv, <1>1, <1>2, WaitersOwnStep, PTL DEF Spec

\* Under callers that respect the preconditions, the child and the node that
\* getZombieRetValue read before its yield() are good when it goes on.
THEOREM WaitersResumeHolds ==
    ASSUME AnyArguments = FALSE
    PROVE  Spec => []WaitersResumeSafely
<1>1. WaitersOwnTarget /\ WaitersReturn => WaitersResumeSafely
  BY DEF WaitersOwnTarget, OwnsTarget, WaitersReturn, CanReturn, WaitersResumeSafely
<1>. QED  BY ReturnInvariance, <1>1, PTL

\* createProcess finds its next slot: one process fewer than the table holds.
LEMMA FreeSlot ==
    ASSUME IInv, processCount < MaxProcesses - 1
    PROVE  {q \in Pids \ {nextAvailablePid} : ~InTable(q)} # {}
<1>. SUFFICES ASSUME \A q \in Pids \ {nextAvailablePid} : InTable(q)
              PROVE  FALSE
  OBVIOUS
<1>1. /\ IsFiniteSet(Pids) /\ Cardinality(Pids) = MaxProcesses
      /\ nextAvailablePid \in Pids
  BY PidsFinite DEF IInv, TypeOK
<1>2. /\ IsFiniteSet(Pids \ {nextAvailablePid})
      /\ Cardinality(Pids \ {nextAvailablePid}) = MaxProcesses - 1
  BY <1>1, FS_RemoveElement
<1>3. Used = Pids \ {nextAvailablePid}
  BY <1>1 DEF Used, IInv, LeastFreePid
<1>4. processCount = MaxProcesses - 1
  BY <1>2, <1>3 DEF IInv, CountMatchesTable, Used
<1>. QED  BY <1>4, SizeAssumption

LEMMA NoCrash ==
    ASSUME AnyArguments = FALSE, ProcessBound < MaxProcesses,
           IInv, WaitersOwnTarget, WaitersReturn, [Next]_vars, fault = "none"
    PROVE  fault' = "none"
<1>1. ASSUME NEW prio \in Levels, NEW fg, Create(prio, fg) PROVE fault' = "none"
  <2>1. processCount < ProcessBound => processCount < MaxProcesses - 1
    BY SizeAssumption DEF IInv, TypeOK
  <2>. QED  BY <1>1, <2>1, FreeSlot DEF Create
<1>2. CASE StartShell
  BY <1>1, <1>2, PidsFinite, SizeAssumption DEF StartShell, Levels
<1>3. ASSUME NEW prio \in 0..QtyReadyLevels, NEW fg \in BOOLEAN,
             CreateProcess(prio, fg)
      PROVE  fault' = "none"
  BY <1>1, <1>3 DEF CreateProcess
<1>4. CASE WaitReturn
  <2>1. currentPid \in waiting /\ control = "user"
    BY <1>4 DEF WaitReturn
  <2>2. status[targetWaitPid[currentPid]] = "ZOMBIE" /\ currentPid \notin stale
    BY <2>1 DEF WaitersReturn, CanReturn
  <2>3. targetWaitPid[currentPid] \in zombieChildren[currentPid]
    BY <2>1, <2>2, WaiterType DEF OwnsTarget, IInv, ZombiesReachable
  <2>. QED  BY <1>4, <2>2, <2>3 DEF WaitReturn, Reap
<1>5. ASSUME NEW p \in Pids, Block(p) PROVE fault' = "none"
  BY <1>5 DEF Block
<1>. QED  BY <1>2, <1>3, <1>4, <1>5
          DEF Next, vars, TimerTick, SoftTick, DoSchedule, ForegroundKill,
              KillProcess, CtrlC, Kill, Unblock, Wake, WaitPid, Reap,
              SetPriority, Exit, Yield, Sleep

\* Nothing hangs and no memory is corrupted, for callers that respect the
\* preconditions and as long as one slot of the table is never used.
THEOREM NoFaultHolds ==
    ASSUME AnyArguments = FALSE, ProcessBound < MaxProcesses
    PROVE  Spec => []NoFault
<1>1. Init => NoFault
  BY DEF Init, NoFault
<1>2. IInv /\ WaitersOwnTarget /\ WaitersReturn /\ NoFault /\ [Next]_vars => NoFault'
  BY NoCrash DEF NoFault
<1>. QED  BY ReturnInvariance, <1>1, <1>2, PTL DEF Spec


-----------------------------------------------------------------------------
(* The scheduler's invariant survives what the semaphores do to it.        *)

LEMMA UserStepIsNext == UserStep \/ KernelStep => Next
<1>. SUFFICES ASSUME UserStep \/ KernelStep PROVE Next
  OBVIOUS
<1>1. Levels \subseteq 0..QtyReadyLevels
  BY SizeAssumption DEF Levels
<1>. QED  BY <1>1 DEF UserStep, KernelStep, Next

\* What a post does, by the process that it wakes, if any.
LEMMA PostCases ==
    ASSUME SemTypeOK, NEW s \in Sems, ResumeFirstAvailable(s)
    PROVE  LET queue == waitingQueue[s]
           IN
           \/ \E n \in 1..Len(queue), p \in Pids :
                /\ queue[n] \in {p, Dangling}
                /\ \A i \in 1..(n - 1) : queue[i] = Dangling \/ ~Alive(queue[i])
                /\ Alive(p)
                /\ SetReady(p)
                /\ waitingQueue' = [waitingQueue EXCEPT ![s] =
                                      SubSeq(queue, n + 1, Len(queue))]
           \/ /\ \A i \in 1..Len(queue) : queue[i] = Dangling \/ ~Alive(queue[i])
              /\ waitingQueue' = [waitingQueue EXCEPT ![s] = <<>>]
              /\ UNCHANGED vars
<1>. DEFINE queue == waitingQueue[s]
<1>1. \A i \in 1..Len(queue) : queue[i] \in Pids \cup {Dangling}
  BY DEF SemTypeOK
<1>2. ASSUME NEW i \in 1..Len(queue)
      PROVE  MaySkip(queue[i]) => queue[i] = Dangling \/ ~Alive(queue[i])
  BY DEF MaySkip, PidsRead
<1>3. CASE /\ \A i \in 1..Len(queue) : MaySkip(queue[i])
           /\ waitingQueue' = [waitingQueue EXCEPT ![s] = <<>>]
           /\ UNCHANGED vars
  BY <1>2, <1>3
<1>4. ASSUME NEW n \in 1..Len(queue), NEW p \in PidsRead(queue[n]),
             \A i \in 1..(n - 1) : MaySkip(queue[i]),
             Alive(p), SetReady(p),
             waitingQueue' = [waitingQueue EXCEPT ![s] =
                                SubSeq(queue, n + 1, Len(queue))]
      PROVE  /\ p \in Pids /\ queue[n] \in {p, Dangling}
             /\ \A i \in 1..(n - 1) : queue[i] = Dangling \/ ~Alive(queue[i])
  <2>1. Len(queue) \in Nat /\ \A i \in 1..(n - 1) : i \in 1..Len(queue)
    BY DEF SemTypeOK
  <2>2. p \in Pids /\ queue[n] \in {p, Dangling}
    BY <1>1 DEF PidsRead
  <2>. QED  BY <1>2, <1>4, <2>1, <2>2
<1>. QED  BY <1>3, <1>4 DEF ResumeFirstAvailable

\* What a step of the semaphores is to the scheduler.
LEMMA SchedulerStep ==
    ASSUME SemTypeOK, SemNext
    PROVE  \/ UNCHANGED vars
           \/ UserStep \/ KernelStep \/ Sleep
           \/ Crash("corrupt")
           \/ \E p \in Pids : Wake(p)
<1>1. CASE OtherStep
  BY <1>1 DEF OtherStep
<1>2. ASSUME NEW s \in Sems, NEW v \in InitialValues, SemOpen(s, v)
      PROVE  UNCHANGED vars
  BY <1>2 DEF SemOpen
<1>3. ASSUME NEW s \in Sems, SemClose(s) PROVE UNCHANGED vars
  BY <1>3 DEF SemClose
<1>4. ASSUME NEW s, Decrement(s) \/ Suspended(s)
      PROVE  UNCHANGED vars \/ Sleep
  BY <1>4 DEF Decrement, Suspended
<1>5. ASSUME NEW s \in Sems, SemWait(s) PROVE UNCHANGED vars \/ Sleep
  BY <1>4, <1>5 DEF SemWait
<1>6. CASE SemResume
  BY <1>4, <1>6 DEF SemResume, Retry
<1>7. ASSUME NEW s \in Sems, SemPost(s)
      PROVE  UNCHANGED vars \/ \E p \in Pids : Wake(p)
  <2>1. ResumeFirstAvailable(s)
    BY <1>7 DEF SemPost
  <2>2. UNCHANGED vars \/ \E p \in Pids : SetReady(p)
    BY <2>1, PostCases
  <2>. QED  BY <2>2 DEF SetReady
<1>. QED  BY <1>1, <1>2, <1>3, <1>5, <1>6, <1>7 DEF SemNext

LEMMA SemNextIInv ==
    ASSUME IInv, SemTypeOK, [SemNext]_semaphoreVars
    PROVE  IInv'
<1>1. CASE UNCHANGED semaphoreVars
  BY <1>1, NextIInv DEF semaphoreVars
<1>2. CASE SemNext
  <2>1. CASE UNCHANGED vars
    BY <2>1, NextIInv
  <2>2. CASE UserStep \/ KernelStep
    BY <2>2, UserStepIsNext, NextIInv
  <2>3. CASE Sleep
    BY <2>3, SleepStep
  <2>4. CASE Crash("corrupt")
    BY <2>4, CrashStep
  <2>5. ASSUME NEW p \in Pids, Wake(p) PROVE IInv'
    BY <2>5, WakeStep
  <2>. QED  BY <1>2, <2>1, <2>2, <2>3, <2>4, <2>5, SchedulerStep
<1>. QED  BY <1>1, <1>2

-----------------------------------------------------------------------------
(* Types                                                                   *)

LEMMA KeepSemaphoresType ==
    ASSUME SemTypeOK, KeepSemaphores
    PROVE  SemTypeOK'
<1>1. waitingQueue' \in [Sems -> Seq(Pids \cup {Dangling})]
  <2>1. ASSUME NEW s \in Sems
        PROVE  waitingQueue'[s] \in Seq(Pids \cup {Dangling})
    <3>1. /\ Len(waitingQueue[s]) \in Nat
          /\ \A k \in 1..Len(waitingQueue[s]) :
               waitingQueue[s][k] \in Pids \cup {Dangling}
      BY DEF SemTypeOK
    <3>2. waitingQueue'[s] \in
            [1..Len(waitingQueue[s]) -> Pids \cup {Dangling}]
      BY <3>1 DEF KeepSemaphores
    <3>. QED  BY <3>1, <3>2, SeqDef
  <2>. QED  BY <2>1 DEF KeepSemaphores
<1>2. downOn' \in [Pids -> Sems \cup {None, Freed}]
  BY DEF SemTypeOK, KeepSemaphores
<1>. QED  BY <1>1, <1>2 DEF SemTypeOK, KeepSemaphores

LEMMA DownType ==
    ASSUME SemTypeOK, currentPid \in Pids, NEW s \in Sems,
           Decrement(s) \/ Suspended(s)
    PROVE  SemTypeOK'
<1>1. CASE Decrement(s)
  BY <1>1, SemaphoreAssumption DEF Decrement, SemTypeOK
<1>2. CASE Suspended(s)
  BY <1>2 DEF Suspended, Enqueue, SemTypeOK
<1>. QED  BY <1>1, <1>2

LEMMA SemTypeStep ==
    ASSUME IInv, SemTypeOK, [SemNext]_semaphoreVars
    PROVE  SemTypeOK'
<1>0. currentPid \in Pids
  BY DEF IInv, TypeOK
<1>1. CASE UNCHANGED semaphoreVars
  BY <1>1 DEF semaphoreVars, semVars, SemTypeOK
<1>2. CASE OtherStep
  BY <1>2, KeepSemaphoresType DEF OtherStep
<1>3. ASSUME NEW s \in Sems, NEW v \in InitialValues, SemOpen(s, v)
      PROVE  SemTypeOK'
  <2>1. v \in 0..MaxValue /\ <<>> \in Seq(Pids \cup {Dangling})
    BY SemaphoreAssumption
  <2>. QED  BY <1>3, <2>1 DEF SemOpen, SemTypeOK
<1>4. ASSUME NEW s \in Sems, SemClose(s) PROVE SemTypeOK'
  <2>1. 0 \in 0..MaxValue /\ <<>> \in Seq(Pids \cup {Dangling})
    BY SemaphoreAssumption
  <2>2. downOn' \in [Pids -> Sems \cup {None, Freed}]
    BY <1>4 DEF SemClose, SemTypeOK
  <2>. QED  BY <1>4, <2>1, <2>2 DEF SemClose, SemTypeOK
<1>5. ASSUME NEW s \in Sems, SemWait(s) PROVE SemTypeOK'
  BY <1>0, <1>5, DownType DEF SemWait
<1>6. ASSUME NEW s \in Sems, SemPost(s) PROVE SemTypeOK'
  <2>1. value' \in [Sems -> 0..MaxValue]
    BY <1>6, SemaphoreAssumption DEF SemPost, SemTypeOK
  <2>2. ResumeFirstAvailable(s)
    BY <1>6 DEF SemPost
  <2>3. PICK rest \in Seq(Pids \cup {Dangling}) :
          waitingQueue' = [waitingQueue EXCEPT ![s] = rest]
    <3>1. waitingQueue[s] \in Seq(Pids \cup {Dangling})
      BY DEF SemTypeOK
    <3>2. \A n \in 1..Len(waitingQueue[s]) :
            SubSeq(waitingQueue[s], n + 1, Len(waitingQueue[s]))
              \in Seq(Pids \cup {Dangling})
      BY <3>1, SubSeqProperties
    <3>3. <<>> \in Seq(Pids \cup {Dangling})
      OBVIOUS
    <3>. QED  BY <2>2, <3>2, <3>3, PostCases
  <2>. QED  BY <1>6, <2>1, <2>3 DEF SemPost, SemTypeOK
<1>7. CASE SemResume
  <2>1. CASE Crash("corrupt") /\ UNCHANGED semVars
    BY <2>1 DEF semVars, SemTypeOK
  <2>. QED  BY <1>0, <1>7, <2>1, DownType DEF SemResume, Retry
<1>. QED  BY <1>1, <1>2, <1>3, <1>4, <1>5, <1>6, <1>7 DEF SemNext

LEMMA InitSemType == SemInit => IInv /\ SemTypeOK
<1>. SUFFICES ASSUME SemInit PROVE IInv /\ SemTypeOK
  OBVIOUS
<1>1. 0 \in 0..MaxValue /\ <<>> \in Seq(Pids \cup {Dangling})
  BY SemaphoreAssumption
<1>. QED  BY <1>1, InitIInv DEF SemInit, SemTypeOK

LEMMA SemTypes == SemSpec => [](IInv /\ SemTypeOK)
BY InitSemType, SemNextIInv, SemTypeStep, PTL DEF SemSpec

\* No value leaves 0..MaxValue, however often a woken process finds its unit
\* taken: a semaphore below zero would let everybody through.
THEOREM SemTypeCorrect == SemSpec => []SemTypeOK
<1>1. IInv /\ SemTypeOK => SemTypeOK
  OBVIOUS
<1>. QED  BY SemTypes, <1>1, PTL

\* With the semaphores on top, the scheduler still finds every process in the
\* list that its status and priority name.
THEOREM SemQueuesHold == SemSpec => []QueuesMatchStatus
<1>1. IInv /\ SemTypeOK => QueuesMatchStatus
  BY DEF IInv
<1>. QED  BY SemTypes, <1>1, PTL

-----------------------------------------------------------------------------
(* What a step of the rest of the kernel does to the status of a process   *)
(* when nobody calls block.                                                *)

Changed(p) ==
    \/ status'[p] = status[p]
    \/ Scheduled(p) /\ status'[p] \in {"READY", "RUNNING"}
    \/ status[p] = "NONE" /\ status'[p] = "READY"
    \/ /\ UserStep \/ control = "kill" \/ currentPid \in waiting
       /\ \/ Alive(p) /\ status'[p] \in {"ZOMBIE", "NONE"}
          \/ status[p] = "ZOMBIE" /\ status'[p] = "NONE"
    \/ /\ status[p] = "BLOCKED" /\ status'[p] = "READY"
       /\ \/ "unblock" \in Syscalls
          \/ \E r \in Pids \ {IDLE_PID} : WakesParent(p, r)
    \/ /\ UserStep /\ "wait" \in Syscalls
       /\ p = currentPid /\ status'[p] = "BLOCKED"

LEMMA StatusChanges ==
    ASSUME IInv, "block" \notin Syscalls, UserStep \/ KernelStep, NEW p \in Pids
    PROVE  Changed(p)
<1>0. currentPid \in Pids
  BY DEF IInv, TypeOK
<1>1. CASE TimerTick \/ SoftTick
  BY <1>1, ScheduleChanges DEF TimerTick, SoftTick, Changed
<1>2. CASE CtrlC \/ Yield
  BY <1>2 DEF CtrlC, Yield, pcbVars, Changed
<1>3. CASE StartShell
  BY <1>3, CreateChanges DEF StartShell, Changed
<1>4. ASSUME NEW r \in Pids, KillProcess(r), UserStep \/ control = "kill"
      PROVE  Changed(p)
  <2>1. \/ status'[p] = status[p]
        \/ status[p] = "ZOMBIE" /\ status'[p] = "NONE"
        \/ Alive(p) /\ status'[p] \in {"ZOMBIE", "NONE"}
        \/ /\ status[p] = "BLOCKED" /\ status'[p] = "READY"
           /\ WakesParent(p, r) /\ r # IDLE_PID
    BY <1>4, KillChanges
  <2>. QED  BY <1>4, <2>1, Zenon DEF Changed
<1>5. CASE Exit
  BY <1>0, <1>4, <1>5 DEF Exit, UserStep
<1>6. CASE ForegroundKill
  BY <1>0, <1>4, <1>6 DEF ForegroundKill
<1>7. ASSUME NEW prio \in Levels, NEW fg \in BOOLEAN, CreateProcess(prio, fg)
      PROVE  Changed(p)
  BY <1>7, CreateChanges DEF CreateProcess, Changed
<1>8. ASSUME NEW r \in Pids, Kill(r) PROVE Changed(p)
  BY <1>4, <1>8 DEF Kill, UserStep
<1>9. ASSUME NEW r \in Pids, Block(r) PROVE FALSE
  BY <1>9 DEF Block, Calls
<1>10. ASSUME NEW r \in Pids, Unblock(r) PROVE Changed(p)
  BY <1>10 DEF Unblock, Calls, Changed, IInv, TypeOK
<1>11. ASSUME NEW r \in Pids, WaitPid(r) PROVE Changed(p)
  <2>1. UserStep /\ "wait" \in Syscalls
    BY <1>11 DEF UserStep, WaitPid, Calls
  <2>2. CASE status[r] = "ZOMBIE" /\ Reap(r)
    <3>1. \/ status'[p] = status[p]
          \/ status[p] = "ZOMBIE" /\ status'[p] = "NONE"
      BY <2>2, ReapChanges
    <3>. QED  BY <2>1, <3>1, Zenon DEF Changed
  <2>3. CASE SuspendCurrent
    BY <2>1, <2>3, SuspendChanges DEF Changed
  <2>. QED  BY <1>11, <2>2, <2>3 DEF WaitPid
<1>12. ASSUME NEW r \in Pids, NEW prio \in Levels, SetPriority(r, prio)
       PROVE  Changed(p)
  BY <1>12 DEF SetPriority, Changed
<1>13. CASE WaitReturn
  <2>1. currentPid \in waiting
    BY <1>13 DEF WaitReturn
  <2>2. CASE Crash("corrupt")
    BY <2>2 DEF Crash, pcbVars, Changed
  <2>3. ASSUME NEW child \in Pids, child \in zombieChildren[currentPid], Reap(child)
        PROVE  Changed(p)
    <3>1. status[child] = "ZOMBIE"
      BY <1>0, <2>3 DEF IInv, ZombiesReachable
    <3>2. \/ status'[p] = status[p]
          \/ status[p] = "ZOMBIE" /\ status'[p] = "NONE"
      BY <2>3, <3>1, ReapChanges
    <3>. QED  BY <2>1, <3>2, Zenon DEF Changed
  <2>4. targetWaitPid[currentPid] \in Pids
    BY <1>0 DEF IInv, TypeOK
  <2>. QED  BY <1>13, <2>2, <2>3, <2>4 DEF WaitReturn
<1>. QED  BY <1>1, <1>2, <1>3, <1>5, <1>6, <1>7, <1>8, <1>9, <1>10, <1>11,
             <1>12, <1>13 DEF UserStep, KernelStep

LEMMA UserKernel ==
    /\ UserStep => UserMode
    /\ KernelStep => ~UserMode
<1>1. UserStep => UserMode
  BY DEF UserStep, TimerTick, CtrlC, StartShell, Exit, Yield, CreateProcess,
         Kill, Block, Unblock, WaitPid, SetPriority, Calls
<1>2. KernelStep => ~UserMode
  BY DEF KernelStep, SoftTick, ForegroundKill, WaitReturn, UserMode
<1>. QED  BY <1>1, <1>2

LEMMA SleepChanges ==
    ASSUME IInv, Sleep, NEW p \in Pids
    PROVE  \/ status'[p] = status[p]
           \/ p = currentPid /\ status'[p] = "BLOCKED"
BY SuspendChanges DEF Sleep

\* Where KeepSemaphores leaves a queue entry and the place of a process.
LEMMA KeepLemma ==
    ASSUME SemTypeOK, KeepSemaphores
    PROVE  /\ \A s \in Sems :
                /\ waitingQueue'[s] \in Seq(Pids \cup {Dangling})
                /\ Len(waitingQueue'[s]) = Len(waitingQueue[s])
                /\ \A k \in 1..Len(waitingQueue[s]) :
                     waitingQueue'[s][k] = IF Destroyed(waitingQueue[s][k])
                                           THEN Dangling
                                           ELSE waitingQueue[s][k]
           /\ \A p \in Pids : downOn'[p] = IF status'[p] \in {"NONE", "ZOMBIE"}
                                           THEN None ELSE downOn[p]
<1>1. \A p \in Pids : downOn'[p] = IF status'[p] \in {"NONE", "ZOMBIE"}
                                   THEN None ELSE downOn[p]
  BY DEF KeepSemaphores
<1>2. ASSUME NEW s \in Sems
      PROVE  /\ waitingQueue'[s] \in Seq(Pids \cup {Dangling})
             /\ Len(waitingQueue'[s]) = Len(waitingQueue[s])
             /\ \A k \in 1..Len(waitingQueue[s]) :
                  waitingQueue'[s][k] = IF Destroyed(waitingQueue[s][k])
                                        THEN Dangling
                                        ELSE waitingQueue[s][k]
  <2>1. waitingQueue'[s] \in Seq(Pids \cup {Dangling})
    BY KeepSemaphoresType DEF SemTypeOK
  <2>2. waitingQueue'[s] = [k \in 1..Len(waitingQueue[s]) |->
             IF Destroyed(waitingQueue[s][k]) THEN Dangling
                                              ELSE waitingQueue[s][k]]
    BY DEF KeepSemaphores
  <2>3. Len(waitingQueue[s]) \in Nat
    BY DEF SemTypeOK
  <2>. HIDE DEF Destroyed
  <2>4. Len(waitingQueue'[s]) = Len(waitingQueue[s])
    BY <2>1, <2>2, <2>3
  <2>. QED  BY <2>1, <2>2, <2>4
<1>. QED  BY <1>1, <1>2

-----------------------------------------------------------------------------
(* Who sleeps on an open semaphore can be reached by a post.               *)

DownOpen == \A p \in Pids : downOn[p] \in Sems => open[downOn[p]]

SleepInv == IInv /\ SemTypeOK /\ SleepersQueued /\ DownOpen

LEMMA DownOpenStep ==
    ASSUME IInv, SemTypeOK, DownOpen, [SemNext]_semaphoreVars
    PROVE  DownOpen'
<1>0. currentPid \in Pids
  BY DEF IInv, TypeOK
<1>1. CASE UNCHANGED semaphoreVars
  BY <1>1 DEF semaphoreVars, semVars, DownOpen
<1>2. CASE OtherStep
  <2>1. KeepSemaphores
    BY <1>2 DEF OtherStep
  <2>2. \A p \in Pids : downOn'[p] \in {None, downOn[p]}
    BY <2>1, KeepLemma
  <2>. QED  BY <2>1, <2>2, SemaphoreAssumption DEF DownOpen, KeepSemaphores
<1>3. ASSUME NEW s \in Sems, NEW v \in InitialValues, SemOpen(s, v)
      PROVE  DownOpen'
  BY <1>3 DEF SemOpen, DownOpen, SemTypeOK
<1>4. ASSUME NEW s \in Sems, SemClose(s) PROVE DownOpen'
  BY <1>4, SemaphoreAssumption DEF SemClose, DownOpen, SemTypeOK
<1>5. ASSUME NEW s \in Sems, open[s], Decrement(s) \/ Suspended(s)
      PROVE  DownOpen'
  BY <1>0, <1>5, SemaphoreAssumption
     DEF Decrement, Suspended, DownOpen, SemTypeOK
<1>6. ASSUME NEW s \in Sems, SemWait(s) PROVE DownOpen'
  BY <1>5, <1>6 DEF SemWait
<1>7. ASSUME NEW s \in Sems, SemPost(s) PROVE DownOpen'
  BY <1>7 DEF SemPost, DownOpen
<1>8. CASE SemResume
  <2>1. CASE UNCHANGED semVars
    BY <2>1 DEF semVars, DownOpen
  <2>. QED  BY <1>0, <1>5, <1>8, <2>1 DEF SemResume, Retry, DownOpen
<1>. QED  BY <1>1, <1>2, <1>3, <1>4, <1>6, <1>7, <1>8 DEF SemNext

\* A post that wakes p leaves the status of the others alone.
LEMMA SetReadyLemma ==
    ASSUME IInv, NEW p \in Pids, SetReady(p)
    PROVE  /\ status[p] = "BLOCKED" => status' = [status EXCEPT ![p] = "READY"]
           /\ \A q \in Pids : \/ status'[q] = status[q]
                              \/ q = p /\ status'[q] = "READY" /\ Scheduled(q)
                              \/ q = p /\ status'[q] = "READY"
                                       /\ status[q] = "BLOCKED"
<1>1. status[IDLE_PID] # "BLOCKED"
  BY DEF IInv, IdleScheduled, Scheduled
<1>2. CASE UNCHANGED vars /\ (p = IDLE_PID \/ status[p] = "READY")
  BY <1>1, <1>2 DEF vars, pcbVars
<1>3. CASE Wake(p)
  BY <1>3 DEF Wake, Scheduled, IInv, TypeOK
<1>. QED  BY <1>2, <1>3 DEF SetReady

LEMMA SleepersStep ==
    ASSUME SleepInv, [SemNext]_semaphoreVars, "block" \notin Syscalls
    PROVE  SleepersQueued'
<1>. SUFFICES ASSUME NEW s \in Sems, NEW p \in Pids,
                     downOn'[p] = s, status'[p] = "BLOCKED"
              PROVE  In(waitingQueue'[s], p)
  BY DEF SleepersQueued, Sleeping
<1>0. /\ currentPid \in Pids /\ p # Dangling /\ s # None /\ s # Freed
      /\ waitingQueue[s] \in Seq(Pids \cup {Dangling})
      /\ Len(waitingQueue[s]) \in Nat
  BY SemaphoreAssumption DEF SleepInv, IInv, TypeOK, SemTypeOK
<1>. USE DEF SleepInv
<1>1. downOn[p] = s /\ status[p] = "BLOCKED" => In(waitingQueue[s], p)
  BY DEF SleepersQueued, Sleeping
<1>2. CASE UNCHANGED semaphoreVars
  BY <1>1, <1>2 DEF semaphoreVars, semVars, vars, pcbVars
<1>3. CASE OtherStep
  <2>1. KeepSemaphores /\ (UserStep \/ KernelStep)
    BY <1>3 DEF OtherStep
  <2>2. downOn[p] = s
    BY <2>1, <1>0, KeepLemma
  <2>3. ~(UserStep /\ p = currentPid)
    BY <1>0, <1>3, <2>2, UserKernel DEF OtherStep, InUser
  <2>4. status[p] = "BLOCKED"
    BY <2>1, <2>3, StatusChanges DEF Changed
  <2>5. PICK k \in 1..Len(waitingQueue[s]) : waitingQueue[s][k] = p
    BY <1>1, <2>2, <2>4 DEF In
  <2>6. ~Destroyed(waitingQueue[s][k])
    BY <2>5 DEF Destroyed
  <2>7. /\ Len(waitingQueue'[s]) = Len(waitingQueue[s])
        /\ waitingQueue'[s][k] = p
    BY <2>1, <2>5, <2>6, KeepLemma
  <2>. QED  BY <2>7 DEF In
<1>4. ASSUME NEW t \in Sems, NEW v \in InitialValues, SemOpen(t, v)
      PROVE  In(waitingQueue'[s], p)
  <2>1. status[p] = "BLOCKED" /\ downOn[p] = s /\ ~open[t]
    BY <1>4 DEF SemOpen, vars, pcbVars
  <2>2. t # s
    BY <2>1 DEF DownOpen
  <2>3. waitingQueue'[s] = waitingQueue[s]
    BY <1>4, <2>2 DEF SemOpen, SemTypeOK
  <2>. QED  BY <1>1, <2>1, <2>3
<1>5. ASSUME NEW t \in Sems, SemClose(t) PROVE In(waitingQueue'[s], p)
  <2>1. status[p] = "BLOCKED" /\ downOn[p] = s /\ t # s
    BY <1>0, <1>5 DEF SemClose, vars, pcbVars
  <2>2. waitingQueue'[s] = waitingQueue[s]
    BY <1>5, <2>1 DEF SemClose, SemTypeOK
  <2>. QED  BY <1>1, <2>1, <2>2
<1>6. ASSUME NEW t \in Sems, Decrement(t) PROVE In(waitingQueue'[s], p)
  <2>1. status[p] = "BLOCKED" /\ downOn[p] = s
    BY <1>0, <1>6 DEF Decrement, vars, pcbVars, SemTypeOK
  <2>. QED  BY <1>1, <1>6, <2>1 DEF Decrement
<1>7. ASSUME NEW t \in Sems, Suspended(t) PROVE In(waitingQueue'[s], p)
  <2>1. CASE p = currentPid
    <3>1. t = s
      BY <1>7, <2>1 DEF Suspended, SemTypeOK
    <3>2. waitingQueue'[s] = Append(waitingQueue[s], p)
      BY <1>7, <2>1, <3>1 DEF Suspended, Enqueue, SemTypeOK
    <3>3. /\ Len(waitingQueue'[s]) = Len(waitingQueue[s]) + 1
          /\ waitingQueue'[s][Len(waitingQueue[s]) + 1] = p
      BY <1>0, <3>2
    <3>. QED  BY <1>0, <3>3 DEF In
  <2>2. CASE p # currentPid
    <3>1. downOn[p] = s
      BY <1>7, <2>2 DEF Suspended, SemTypeOK
    <3>2. status[p] = "BLOCKED"
      BY <1>7, <2>2, SleepChanges DEF Suspended
    <3>3. \/ waitingQueue'[s] = waitingQueue[s]
          \/ waitingQueue'[s] = Append(waitingQueue[s], currentPid)
      BY <1>7 DEF Suspended, Enqueue, SemTypeOK
    <3>4. PICK k \in 1..Len(waitingQueue[s]) : waitingQueue[s][k] = p
      BY <1>1, <3>1, <3>2 DEF In
    <3>5. k \in 1..Len(waitingQueue'[s]) /\ waitingQueue'[s][k] = p
      BY <1>0, <3>3, <3>4
    <3>. QED  BY <3>5 DEF In
  <2>. QED  BY <2>1, <2>2
<1>8. ASSUME NEW t \in Sems, SemWait(t) PROVE In(waitingQueue'[s], p)
  BY <1>6, <1>7, <1>8 DEF SemWait
<1>9. CASE SemResume
  <2>1. CASE Crash("corrupt") /\ UNCHANGED semVars
    BY <1>1, <2>1 DEF Crash, pcbVars, semVars
  <2>. QED  BY <1>6, <1>7, <1>9, <2>1 DEF SemResume, Retry
<1>10. ASSUME NEW t \in Sems, SemPost(t) PROVE In(waitingQueue'[s], p)
  <2>1. downOn[p] = s /\ ResumeFirstAvailable(t)
    BY <1>10 DEF SemPost
  <2>2. CASE UNCHANGED vars /\ t # s /\ waitingQueue'[s] = waitingQueue[s]
    BY <1>1, <2>1, <2>2 DEF vars, pcbVars
  <2>. DEFINE queue == waitingQueue[t]
  <2>3. CASE /\ \A k \in 1..Len(queue) : queue[k] = Dangling \/ ~Alive(queue[k])
             /\ waitingQueue' = [waitingQueue EXCEPT ![t] = <<>>]
             /\ UNCHANGED vars
    <3>1. status[p] = "BLOCKED"
      BY <2>3 DEF vars, pcbVars
    <3>2. t # s
      BY <1>0, <1>1, <2>1, <2>3, <3>1 DEF In, Alive
    <3>. QED  BY <2>2, <2>3, <3>2 DEF SemTypeOK
  <2>4. ASSUME NEW n \in 1..Len(queue), NEW r \in Pids,
               queue[n] \in {r, Dangling},
               \A k \in 1..(n - 1) : queue[k] = Dangling \/ ~Alive(queue[k]),
               Alive(r), SetReady(r),
               waitingQueue' = [waitingQueue EXCEPT ![t] =
                                  SubSeq(queue, n + 1, Len(queue))]
        PROVE  In(waitingQueue'[s], p)
    <3>1. status[p] = "BLOCKED" /\ p # r
      BY <2>4, SetReadyLemma DEF IInv, TypeOK
    <3>2. PICK k \in 1..Len(waitingQueue[s]) : waitingQueue[s][k] = p
      BY <1>1, <2>1, <3>1 DEF In
    <3>3. CASE t # s
      BY <2>4, <3>2, <3>3 DEF In, SemTypeOK
    <3>4. CASE t = s
      <4>1. k # n /\ ~(k \in 1..(n - 1))
        BY <1>0, <2>4, <3>1, <3>2, <3>4 DEF Alive
      <4>2. k - n \in 1..(Len(queue) - n) /\ Len(queue) \in Nat
        BY <1>0, <3>2, <3>4, <4>1
      <4>3. waitingQueue'[s] = SubSeq(queue, n + 1, Len(queue))
        BY <2>4, <3>4 DEF SemTypeOK
      <4>4. /\ Len(waitingQueue'[s]) = Len(queue) - n
            /\ waitingQueue'[s][k - n] = queue[k]
        <5>1. /\ Len(queue) \in Int /\ n + 1 \in Int /\ n + 1 <= Len(queue)
              /\ \A j \in (n + 1)..Len(queue) :
                   queue[j] \in Pids \cup {Dangling}
          BY <1>0, <3>4, <4>2
        <5>2. /\ Len(waitingQueue'[s]) = Len(queue) - (n + 1) + 1
              /\ \A j \in 1..(Len(queue) - (n + 1) + 1) :
                   waitingQueue'[s][j] = queue[n + 1 + j - 1]
          BY <4>3, <5>1, SubSeqProperties
        <5>. HIDE DEF queue
        <5>3. k - n \in 1..(Len(queue) - (n + 1) + 1)
          BY <4>2, <5>1
        <5>4. n + 1 + (k - n) - 1 = k /\ Len(queue) - (n + 1) + 1 = Len(queue) - n
          BY <4>2, <5>1
        <5>. QED  BY <5>2, <5>3, <5>4
      <4>. QED  BY <3>2, <3>4, <4>2, <4>4 DEF In
    <3>. QED  BY <3>3, <3>4
  <2>. QED  BY <2>1, <2>3, <2>4, PostCases
<1>. QED  BY <1>2, <1>3, <1>4, <1>5, <1>8, <1>9, <1>10 DEF SemNext

LEMMA SleepInvariance ==
    ASSUME "block" \notin Syscalls
    PROVE  SemSpec => []SleepInv
<1>1. SemInit => SleepInv
  <2>. SUFFICES ASSUME SemInit PROVE SleepInv
    OBVIOUS
  <2>1. \A p \in Pids : downOn[p] = None
    BY DEF SemInit
  <2>. QED  BY <2>1, InitSemType, SemaphoreAssumption
            DEF SleepInv, SleepersQueued, Sleeping, DownOpen
<1>2. SleepInv /\ [SemNext]_semaphoreVars => SleepInv'
  BY SemNextIInv, SemTypeStep, SleepersStep, DownOpenStep DEF SleepInv
<1>. QED  BY <1>1, <1>2, PTL DEF SemSpec

\* Unless somebody calls block on a process inside down(), whoever sleeps on an
\* open semaphore is in its queue: killed neighbours, freed PCBs and wakeups
\* from elsewhere never make a sleeper unreachable.  Only mySemClose does.
THEOREM SleepersReachable ==
    ASSUME "block" \notin Syscalls
    PROVE  SemSpec => []SleepersQueued
<1>1. SleepInv => SleepersQueued
  BY DEF SleepInv
<1>. QED  BY <1>1, SleepInvariance, PTL

-----------------------------------------------------------------------------
(* No wakeup is lost when nobody interferes with a process that is asleep  *)
(* or has just been woken.                                                 *)

PostsOnly ==
    /\ ~AnyKills
    /\ Syscalls \cap {"block", "unblock", "wait", "ctrlC"} = {}

\* Nobody waits for a child or is about to be killed by Ctrl+C, and user code
\* only runs in a process that is scheduled.
Quiet ==
    /\ waiting = {} /\ \A p \in Pids : targetWaitPid[p] = 0
    /\ ~shouldKillForeground /\ control # "kill"
    /\ control = "user" => Scheduled(currentPid)
    /\ control = "switch" => remainingQuantum <= 0 \/ Scheduled(currentPid)

LEMMA QuietChanges ==
    ASSUME IInv, Quiet, PostsOnly, UserStep \/ KernelStep, NEW p \in Pids
    PROVE  \/ status'[p] = status[p]
           \/ Scheduled(p) /\ status'[p] \in {"READY", "RUNNING"}
           \/ status[p] = "NONE" /\ status'[p] = "READY"
           \/ UserStep /\ Alive(p) /\ status'[p] \in {"ZOMBIE", "NONE"}
           \/ UserStep /\ status[p] = "ZOMBIE" /\ status'[p] = "NONE"
<1>1. Changed(p)
  BY StatusChanges DEF PostsOnly
<1>2. ~(control = "kill" \/ currentPid \in waiting)
  BY DEF Quiet
<1>3. \A r \in Pids \ {IDLE_PID} : ~WakesParent(p, r)
  BY DEF Quiet, WakesParent, IDLE_PID
<1>. QED  BY <1>1, <1>2, <1>3 DEF Changed, PostsOnly

LEMMA QuietStep ==
    ASSUME IInv, SemTypeOK, Quiet, PostsOnly, [SemNext]_semaphoreVars
    PROVE  Quiet'
<1>. USE DEF Quiet
<1>0. currentPid \in Pids /\ remainingQuantum \in Int
  BY SizeAssumption DEF IInv, TypeOK
<1>1. CASE UNCHANGED vars
  BY <1>1 DEF vars, pcbVars, cpuVars, waitVars, Scheduled
<1>2. CASE Crash("corrupt")
  BY <1>2 DEF Crash, pcbVars, cpuVars, waitVars, Scheduled
<1>3. CASE Sleep
  BY <1>3 DEF Sleep, Yielding, waitVars
<1>4. ASSUME NEW p \in Pids, Wake(p) PROVE Quiet'
  BY <1>0, <1>4 DEF Wake, Calls, UserMode, waitVars, Scheduled, IInv, TypeOK
<1>5. CASE UserStep \/ KernelStep
  <2>1. CASE DoSchedule /\ (TimerTick \/ SoftTick)
    <3>1. CASE KeepRunning
      BY <1>0, <2>1, <3>1
         DEF DoSchedule, KeepRunning, TimerTick, SoftTick, UserMode, pcbVars,
             waitVars, Scheduled
    <3>2. ASSUME NEW next \in Pids, SwitchTo(next) PROVE Quiet'
      <4>1. /\ currentPid' = next /\ control' = "user"
            /\ status' = [Preempted EXCEPT ![next] = "RUNNING"]
            /\ ~shouldKillForeground'
        BY <3>2 DEF SwitchTo
      <4>2. status'[next] = "RUNNING"
        BY <4>1 DEF Preempted, IInv, TypeOK
      <4>. QED  BY <2>1, <3>2, <4>1, <4>2
                DEF SwitchTo, DoSchedule, waitVars, Scheduled
    <3>. QED  BY <2>1, <3>1, <3>2 DEF DoSchedule
  <2>2. CASE Yield
    BY <1>0, <2>2 DEF Yield, Yielding, pcbVars, waitVars
  <2>3. ASSUME NEW prio, NEW fg, Create(prio, fg), control = "user"
        PROVE  Quiet'
    <3>1. CASE Crash("corrupt") \/ Crash("hang")
      BY <2>3, <3>1 DEF Crash, pcbVars, cpuVars, waitVars, Scheduled
    <3>2. Scheduled(currentPid)'  \/ UNCHANGED pcbVars
      BY <1>0, <2>3, CreateChanges DEF Create, Crash, cpuVars, Scheduled
    <3>3. CASE /\ targetWaitPid' = [targetWaitPid EXCEPT ![nextAvailablePid] = 0]
               /\ UNCHANGED <<blocked, cpuVars, waitVars, shouldKillForeground,
                              control, fault>>
      BY <2>3, <3>2, <3>3 DEF cpuVars, waitVars, pcbVars, Scheduled, IInv, TypeOK
    <3>. QED  BY <2>3, <3>1, <3>3 DEF Create
  <2>4. ASSUME NEW r \in Pids, KillProcess(r), control = "user" PROVE Quiet'
    <3>1. /\ waiting' = waiting \ {r} /\ UNCHANGED shouldKillForeground
          /\ \A p \in Pids : targetWaitPid'[p] \in {0, targetWaitPid[p]}
          /\ UNCHANGED currentPid
          /\ control' = IF r = currentPid THEN "switch" ELSE "user"
          /\ r = currentPid => remainingQuantum' = 0
      BY <2>4 DEF KillProcess, Clear
    <3>2. r # currentPid => Scheduled(currentPid)'
      <4>1. r # currentPid => status'[currentPid] = status[currentPid]
        BY <1>0, <2>4, KillChanges DEF Scheduled
      <4>. QED  BY <2>4, <3>1, <4>1 DEF Scheduled
    <3>. QED  BY <1>0, <3>1, <3>2
  <2>5. ASSUME NEW p \in Pids, NEW prio \in Levels, SetPriority(p, prio)
        PROVE  Quiet'
    BY <2>5 DEF SetPriority, cpuVars, waitVars, Scheduled
  <2>6. CASE TimerTick \/ SoftTick
    BY <2>1, <2>6 DEF TimerTick, SoftTick
  <2>7. CASE CtrlC
    BY <2>7 DEF CtrlC, PostsOnly
  <2>8. CASE StartShell
    BY <2>3, <2>8 DEF StartShell, UserMode
  <2>9. CASE Exit
    BY <1>0, <2>4, <2>9 DEF Exit, Calls, UserMode
  <2>10. ASSUME NEW prio \in Levels, NEW fg \in BOOLEAN, CreateProcess(prio, fg)
         PROVE  Quiet'
    BY <2>3, <2>10 DEF CreateProcess, Calls, UserMode
  <2>11. ASSUME NEW p \in Pids, Kill(p) PROVE Quiet'
    BY <2>4, <2>11 DEF Kill, Calls, UserMode
  <2>12. ASSUME NEW p \in Pids, Block(p) \/ Unblock(p) \/ WaitPid(p) PROVE FALSE
    BY <2>12 DEF Block, Unblock, WaitPid, Calls, PostsOnly
  <2>13. ~ForegroundKill /\ ~WaitReturn
    BY DEF ForegroundKill, WaitReturn
  <2>. QED  BY <1>5, <2>2, <2>5, <2>6, <2>7, <2>8, <2>9, <2>10, <2>11, <2>12,
               <2>13 DEF UserStep, KernelStep
<1>6. CASE UNCHANGED semaphoreVars
  BY <1>1, <1>6 DEF semaphoreVars
<1>. QED  BY <1>1, <1>2, <1>3, <1>4, <1>5, <1>6, SchedulerStep

\* A queue holds a process once, and every entry that is alive sleeps there.
EntrySleeps(s, p) ==
    /\ p \in Pids /\ InTable(p)
    /\ Alive(p) => downOn[p] = s /\ status[p] = "BLOCKED"

QueueInv ==
    /\ \A s \in Sems :
         /\ NoDuplicates(waitingQueue[s])
         /\ \A k \in 1..Len(waitingQueue[s]) : EntrySleeps(s, waitingQueue[s][k])
    /\ \A p \in Pids : downOn[p] # None => Alive(p)

PostInv == SleepInv /\ Quiet /\ QueueInv

\* The process that runs user code is in no queue.
LEMMA CurrentNotQueued ==
    ASSUME PostInv, control = "user", NEW s \in Sems
    PROVE  ~In(waitingQueue[s], currentPid) /\ Scheduled(currentPid)
BY DEF PostInv, Quiet, QueueInv, EntrySleeps, In, Scheduled, Alive

\* Nothing the rest of the kernel does disturbs a queue.
LEMMA OtherKeeps ==
    ASSUME PostInv, PostsOnly, OtherStep, NEW s \in Sems
    PROVE  /\ Len(waitingQueue'[s]) = Len(waitingQueue[s])
           /\ \A k \in 1..Len(waitingQueue[s]) :
                /\ waitingQueue'[s][k] = waitingQueue[s][k]
                /\ status'[waitingQueue[s][k]] # "NONE"
           /\ \A p \in Woken(s) : p \in Woken(s)'
<1>. USE DEF PostInv, SleepInv
<1>1. KeepSemaphores /\ (UserStep => Careful) /\ (UserStep \/ KernelStep)
  BY UserKernel DEF OtherStep
<1>2. ASSUME NEW k \in 1..Len(waitingQueue[s])
      PROVE  ~Destroyed(waitingQueue[s][k])
  <2>. DEFINE p == waitingQueue[s][k]
  <2>1. p \in Pids /\ InTable(p)
    BY DEF QueueInv, EntrySleeps
  <2>2. CASE UserStep
    BY <1>1, <2>2 DEF Careful, PostsOnly
  <2>3. CASE ~UserStep
    <3>1. status'[p] # "NONE"
      BY <1>1, <2>1, <2>3, QuietChanges DEF InTable
    <3>. QED  BY <3>1 DEF Destroyed
  <2>. QED  BY <2>2, <2>3
<1>3. ASSUME NEW k \in 1..Len(waitingQueue[s])
      PROVE  /\ waitingQueue'[s][k] = waitingQueue[s][k]
             /\ status'[waitingQueue[s][k]] # "NONE"
  <2>1. /\ waitingQueue[s][k] \in Pids /\ InTable(waitingQueue[s][k])
    BY DEF QueueInv, EntrySleeps
  <2>2. status'[waitingQueue[s][k]] # "NONE"
    BY <1>2, <2>1, SemaphoreAssumption DEF Destroyed
  <2>. QED  BY <1>1, <1>2, <2>2, KeepLemma
<1>4. ASSUME NEW p \in Woken(s) PROVE p \in Woken(s)'
  <2>1. p \in Pids /\ downOn[p] = s /\ status[p] # "BLOCKED" /\ s # None
    BY SemaphoreAssumption DEF Woken
  <2>2. Alive(p)
    BY <2>1 DEF QueueInv
  <2>3. status'[p] # "BLOCKED"
    BY <1>1, <2>1, QuietChanges
  <2>4. downOn'[p] = s
    <3>1. CASE UserStep
      BY <1>1, <3>1 DEF Careful, PostsOnly
    <3>2. CASE ~UserStep
      <4>1. status'[p] \notin {"NONE", "ZOMBIE"}
        BY <1>1, <2>1, <2>2, <3>2, QuietChanges DEF Alive
      <4>. QED  BY <1>1, <2>1, <4>1, KeepLemma
    <3>. QED  BY <3>1, <3>2
  <2>. QED  BY <2>1, <2>3, <2>4 DEF Woken
<1>5. Len(waitingQueue'[s]) = Len(waitingQueue[s])
  BY <1>1, KeepLemma
<1>. QED  BY <1>3, <1>4, <1>5

LEMMA OtherQueueInv ==
    ASSUME PostInv, PostsOnly, OtherStep
    PROVE  QueueInv'
<1>. USE DEF PostInv, SleepInv
<1>1. KeepSemaphores /\ (UserStep \/ KernelStep)
  BY DEF OtherStep
<1>2. ASSUME NEW p \in Pids, downOn'[p] # None PROVE Alive(p)'
  BY <1>1, <1>2, KeepLemma DEF Alive
<1>3. ASSUME NEW s \in Sems PROVE NoDuplicates(waitingQueue[s])'
  BY OtherKeeps DEF QueueInv, NoDuplicates
<1>4. ASSUME NEW s \in Sems, NEW k \in 1..Len(waitingQueue'[s])
      PROVE  EntrySleeps(s, waitingQueue[s][k])'
  <2>. DEFINE p == waitingQueue[s][k]
  <2>1. k \in 1..Len(waitingQueue[s]) /\ waitingQueue'[s][k] = p
        /\ status'[p] # "NONE"
    BY OtherKeeps
  <2>2. EntrySleeps(s, p)
    BY <2>1 DEF QueueInv
  <2>. HIDE DEF p
  <2>3. p \in Pids /\ InTable(p)
    BY <2>2 DEF EntrySleeps
  <2>4. ASSUME status'[p] \notin {"NONE", "ZOMBIE"}
        PROVE  downOn'[p] = s /\ status'[p] = "BLOCKED"
    <3>1. Alive(p)
      BY <1>1, <2>3, <2>4, QuietChanges DEF Alive, InTable, Scheduled
    <3>2. downOn[p] = s /\ status[p] = "BLOCKED"
      BY <2>2, <3>1 DEF EntrySleeps
    <3>3. downOn'[p] = s
      BY <1>1, <2>3, <2>4, <3>2, KeepLemma
    <3>4. status'[p] = "BLOCKED"
      BY <1>1, <2>3, <2>4, <3>2, QuietChanges DEF Scheduled
    <3>. QED  BY <3>3, <3>4
  <2>. QED  BY <2>1, <2>3, <2>4 DEF EntrySleeps, InTable, Alive
<1>. QED  BY <1>2, <1>3, <1>4 DEF QueueInv

LEMMA DownQueueInv ==
    ASSUME PostInv, control = "user", NEW t \in Sems,
           Decrement(t) \/ Suspended(t)
    PROVE  QueueInv'
<1>. USE DEF PostInv, SleepInv
<1>0. /\ currentPid \in Pids /\ Scheduled(currentPid) /\ status \in [Pids -> Statuses]
      /\ \A s \in Sems : ~In(waitingQueue[s], currentPid)
      /\ \A s \in Sems : waitingQueue[s] \in Seq(Pids)
  <2>1. ASSUME NEW s \in Sems PROVE waitingQueue[s] \in Seq(Pids)
    <3>1. /\ waitingQueue[s] \in Seq(Pids \cup {Dangling})
          /\ \A k \in 1..Len(waitingQueue[s]) : waitingQueue[s][k] \in Pids
      BY DEF SemTypeOK, QueueInv, EntrySleeps
    <3>. QED  BY <3>1
  <2>. QED  BY <2>1, CurrentNotQueued DEF IInv, TypeOK
<1>1. CASE Decrement(t)
  <2>1. \A p \in Pids : /\ status'[p] = status[p]
                        /\ downOn'[p] = IF p = currentPid THEN None ELSE downOn[p]
    BY <1>1 DEF Decrement, SemTypeOK, vars, pcbVars
  <2>2. \A p \in Pids : downOn'[p] # None => Alive(p)'
    BY <2>1 DEF QueueInv, Alive
  <2>3. ASSUME NEW s \in Sems, NEW k \in 1..Len(waitingQueue[s])
        PROVE  /\ waitingQueue[s][k] # currentPid
               /\ EntrySleeps(s, waitingQueue[s][k])
    BY <1>0 DEF QueueInv, In
  <2>4. waitingQueue' = waitingQueue
    BY <1>1 DEF Decrement
  <2>. QED  BY <2>1, <2>2, <2>3, <2>4
            DEF QueueInv, EntrySleeps, InTable, Alive
<1>2. CASE Suspended(t)
  <2>1. /\ status'[currentPid] = "BLOCKED" /\ downOn'[currentPid] = t
        /\ \A p \in Pids \ {currentPid} : /\ status'[p] = status[p]
                                          /\ downOn'[p] = downOn[p]
    <3>1. SuspendCurrent
      BY <1>2 DEF Suspended, Sleep
    <3>2. status'[currentPid] = "BLOCKED"
      BY <1>0, <3>1 DEF SuspendCurrent, Suspend, Scheduled
    <3>. QED  BY <1>0, <1>2, <3>1, <3>2, SuspendChanges DEF Suspended, SemTypeOK
  <2>2. \A p \in Pids : downOn'[p] # None => Alive(p)'
    BY <2>1 DEF QueueInv, Alive
  <2>3. /\ waitingQueue'[t] = AppendNode(waitingQueue[t], currentPid)
        /\ \A s \in Sems : s # t => waitingQueue'[s] = waitingQueue[s]
    BY <1>2 DEF Suspended, Enqueue, SemTypeOK, AppendNode
  <2>4. /\ NoDuplicates(waitingQueue'[t])
        /\ \A x : In(waitingQueue'[t], x)
                    <=> In(waitingQueue[t], x) \/ x = currentPid
    BY <1>0, <2>3, AppendNodeLemma DEF QueueInv
  <2>5. ASSUME NEW s \in Sems PROVE NoDuplicates(waitingQueue'[s])
    BY <2>3, <2>4 DEF QueueInv
  <2>6. ASSUME NEW s \in Sems, NEW p, In(waitingQueue'[s], p)
        PROVE  /\ p \in Pids /\ status'[p] # "NONE"
               /\ status'[p] \notin {"NONE", "ZOMBIE"} =>
                    downOn'[p] = s /\ status'[p] = "BLOCKED"
    <3>1. CASE p = currentPid
      BY <1>0, <2>1, <2>3, <2>6, <3>1
    <3>2. CASE p # currentPid
      <4>1. In(waitingQueue[s], p)
        BY <2>3, <2>4, <2>6, <3>2
      <4>2. EntrySleeps(s, p)
        BY <4>1 DEF QueueInv, In
      <4>. QED  BY <2>1, <3>2, <4>2 DEF EntrySleeps, InTable, Alive
    <3>. QED  BY <3>1, <3>2
  <2>7. ASSUME NEW s \in Sems, NEW k \in 1..Len(waitingQueue'[s])
        PROVE  EntrySleeps(s, waitingQueue[s][k])'
    <3>1. In(waitingQueue'[s], waitingQueue'[s][k])
      BY DEF In
    <3>. QED  BY <2>6, <3>1 DEF EntrySleeps, InTable, Alive
  <2>. QED  BY <2>2, <2>5, <2>7 DEF QueueInv
<1>. QED  BY <1>1, <1>2

\* Taking the first n entries off a queue.
LEMMA Popped ==
    ASSUME NEW S, NEW queue \in Seq(S), NEW n \in 1..Len(queue),
           NoDuplicates(queue)
    PROVE  LET rest == SubSeq(queue, n + 1, Len(queue))
           IN  /\ NoDuplicates(rest)
               /\ \A k \in 1..Len(rest) :
                    /\ rest[k] = queue[n + k] /\ n + k \in 1..Len(queue)
                    /\ rest[k] # queue[n]
<1>. DEFINE rest == SubSeq(queue, n + 1, Len(queue))
<1>1. /\ Len(queue) \in Int /\ n + 1 \in Int /\ n \in Int /\ n >= 1
      /\ \A j \in (n + 1)..Len(queue) : queue[j] \in S
  OBVIOUS
<1>2. /\ Len(rest) = IF n + 1 <= Len(queue) THEN Len(queue) - (n + 1) + 1 ELSE 0
      /\ \A j \in 1..(Len(queue) - (n + 1) + 1) : rest[j] = queue[n + 1 + j - 1]
  BY <1>1, SubSeqProperties
<1>. HIDE DEF rest
<1>3. ASSUME NEW k \in 1..Len(rest)
      PROVE  rest[k] = queue[n + k] /\ n + k \in 1..Len(queue)
  <2>1. k \in 1..(Len(queue) - (n + 1) + 1) /\ n + 1 + k - 1 = n + k
    BY <1>1, <1>2
  <2>. QED  BY <1>1, <1>2, <2>1
<1>4. ASSUME NEW k \in 1..Len(rest) PROVE rest[k] # queue[n]
  BY <1>1, <1>3 DEF NoDuplicates
<1>5. NoDuplicates(rest)
  <2>1. Len(rest) \in Nat
    BY <1>1, <1>2
  <2>. SUFFICES ASSUME NEW j \in 1..Len(rest), NEW k \in 1..Len(rest),
                       rest[j] = rest[k]
                PROVE  j = k
    BY DEF NoDuplicates
  <2>2. n + j = n + k
    BY <1>3 DEF NoDuplicates
  <2>. QED  BY <1>1, <2>1, <2>2
<1>. QED  BY <1>3, <1>4, <1>5 DEF rest

\* What a post is here: the first entry that is alive sleeps, and is woken.
LEMMA PostWakes ==
    ASSUME PostInv, NEW t \in Sems, SemPost(t)
    PROVE  \/ /\ Sleeping(t) = {}
              /\ waitingQueue' = [waitingQueue EXCEPT ![t] = <<>>]
              /\ UNCHANGED status
           \/ \E n \in 1..Len(waitingQueue[t]), r \in Sleeping(t) :
                /\ r = waitingQueue[t][n]
                /\ status' = [status EXCEPT ![r] = "READY"]
                /\ waitingQueue' = [waitingQueue EXCEPT ![t] =
                     SubSeq(waitingQueue[t], n + 1, Len(waitingQueue[t]))]
<1>. USE DEF PostInv, SleepInv
<1>. DEFINE queue == waitingQueue[t]
<1>0. \A k \in 1..Len(queue) : /\ queue[k] # Dangling
                               /\ EntrySleeps(t, queue[k])
  BY SemaphoreAssumption DEF QueueInv, EntrySleeps
<1>1. ResumeFirstAvailable(t)
  BY DEF SemPost
<1>2. CASE /\ \A k \in 1..Len(queue) : queue[k] = Dangling \/ ~Alive(queue[k])
           /\ waitingQueue' = [waitingQueue EXCEPT ![t] = <<>>]
           /\ UNCHANGED vars
  <2>1. Sleeping(t) = {}
    BY <1>0, <1>2 DEF SleepersQueued, Sleeping, In, Alive
  <2>. QED  BY <1>2, <2>1 DEF vars, pcbVars
<1>3. ASSUME NEW n \in 1..Len(queue), NEW r \in Pids,
             queue[n] \in {r, Dangling}, Alive(r), SetReady(r),
             waitingQueue' = [waitingQueue EXCEPT ![t] =
                                SubSeq(queue, n + 1, Len(queue))]
      PROVE  /\ r = queue[n] /\ r \in Sleeping(t)
             /\ status' = [status EXCEPT ![r] = "READY"]
  <2>1. r = queue[n] /\ EntrySleeps(t, r)
    BY <1>0, <1>3
  <2>2. downOn[r] = t /\ status[r] = "BLOCKED"
    BY <1>3, <2>1 DEF EntrySleeps
  <2>. QED  BY <1>3, <2>1, <2>2, SetReadyLemma DEF Sleeping
<1>. QED  BY <1>1, <1>2, <1>3, PostCases

LEMMA PostQueueInv ==
    ASSUME PostInv, NEW t \in Sems, SemPost(t)
    PROVE  QueueInv'
<1>. USE DEF PostInv, SleepInv
<1>0. UNCHANGED downOn /\ status \in [Pids -> Statuses]
  BY DEF SemPost, IInv, TypeOK
<1>1. CASE /\ waitingQueue' = [waitingQueue EXCEPT ![t] = <<>>]
           /\ UNCHANGED status
  <2>1. \A s \in Sems : waitingQueue'[s] \in {<<>>, waitingQueue[s]}
    BY <1>1 DEF SemTypeOK
  <2>2. NoDuplicates(<<>>) /\ \A k \in 1..Len(<<>>) : FALSE
    BY DEF NoDuplicates
  <2>3. ASSUME NEW s \in Sems
        PROVE  /\ NoDuplicates(waitingQueue'[s])
               /\ \A k \in 1..Len(waitingQueue'[s]) :
                    EntrySleeps(s, waitingQueue[s][k])'
    <3>1. CASE waitingQueue'[s] = <<>>
      BY <2>2, <3>1
    <3>2. CASE waitingQueue'[s] = waitingQueue[s]
      BY <1>0, <1>1, <3>2 DEF QueueInv, EntrySleeps, InTable, Alive
    <3>. QED  BY <2>1, <3>1, <3>2
  <2>4. \A p \in Pids : downOn'[p] # None => Alive(p)'
    BY <1>0, <1>1 DEF QueueInv, Alive
  <2>. QED  BY <2>3, <2>4 DEF QueueInv
<1>2. ASSUME NEW n \in 1..Len(waitingQueue[t]), NEW r \in Sleeping(t),
             r = waitingQueue[t][n],
             status' = [status EXCEPT ![r] = "READY"],
             waitingQueue' = [waitingQueue EXCEPT ![t] =
                 SubSeq(waitingQueue[t], n + 1, Len(waitingQueue[t]))]
      PROVE  QueueInv'
  <2>0. r \in Pids /\ downOn[r] = t
    BY DEF Sleeping
  <2>1. \A p \in Pids : downOn'[p] # None => Alive(p)'
    BY <1>0, <1>2 DEF QueueInv, Alive
  <2>2. ASSUME NEW s \in Sems, NEW p \in Pids, EntrySleeps(s, p), p # r
        PROVE  /\ p \in Pids /\ status'[p] # "NONE"
               /\ status'[p] \notin {"NONE", "ZOMBIE"} =>
                    downOn'[p] = s /\ status'[p] = "BLOCKED"
    BY <1>0, <1>2, <2>2 DEF EntrySleeps, InTable, Alive
  <2>3. /\ NoDuplicates(waitingQueue'[t])
        /\ \A k \in 1..Len(waitingQueue'[t]) :
             EntrySleeps(t, waitingQueue[t][k])'
    <3>1. /\ waitingQueue[t] \in Seq(Pids \cup {Dangling})
          /\ NoDuplicates(waitingQueue[t])
      BY DEF SemTypeOK, QueueInv
    <3>2. /\ NoDuplicates(waitingQueue'[t])
          /\ \A k \in 1..Len(waitingQueue'[t]) :
               /\ waitingQueue'[t][k] = waitingQueue[t][n + k]
               /\ n + k \in 1..Len(waitingQueue[t])
               /\ waitingQueue'[t][k] # r
      <4>1. waitingQueue'[t] =
              SubSeq(waitingQueue[t], n + 1, Len(waitingQueue[t]))
        BY <1>2 DEF SemTypeOK
      <4>. DEFINE rest == SubSeq(waitingQueue[t], n + 1, Len(waitingQueue[t]))
      <4>2. /\ NoDuplicates(rest)
            /\ \A k \in 1..Len(rest) :
                 /\ rest[k] = waitingQueue[t][n + k]
                 /\ n + k \in 1..Len(waitingQueue[t])
                 /\ rest[k] # waitingQueue[t][n]
        BY <3>1, Popped
      <4>. HIDE DEF rest
      <4>3. waitingQueue'[t] = rest
        BY <4>1 DEF rest
      <4>. QED  BY <1>2, <4>2, <4>3
    <3>3. ASSUME NEW k \in 1..Len(waitingQueue'[t])
          PROVE  EntrySleeps(t, waitingQueue[t][k])'
      <4>. DEFINE p == waitingQueue'[t][k]
      <4>1. EntrySleeps(t, p) /\ p # r
        BY <3>2 DEF QueueInv
      <4>2. p \in Pids
        BY <4>1 DEF EntrySleeps
      <4>3. /\ status'[p] # "NONE"
            /\ status'[p] \notin {"NONE", "ZOMBIE"} =>
                 downOn'[p] = t /\ status'[p] = "BLOCKED"
        BY <2>2, <4>1, <4>2
      <4>. QED  BY <4>2, <4>3 DEF EntrySleeps, InTable, Alive
    <3>. QED  BY <3>2, <3>3
  <2>4. ASSUME NEW s \in Sems, s # t
        PROVE  /\ NoDuplicates(waitingQueue'[s])
               /\ \A k \in 1..Len(waitingQueue'[s]) :
                    EntrySleeps(s, waitingQueue[s][k])'
    <3>1. waitingQueue'[s] = waitingQueue[s]
      BY <1>2, <2>4 DEF SemTypeOK
    <3>2. ASSUME NEW k \in 1..Len(waitingQueue[s])
          PROVE  EntrySleeps(s, waitingQueue[s][k])'
      <4>1. EntrySleeps(s, waitingQueue[s][k])
        BY DEF QueueInv
      <4>2. waitingQueue[s][k] # r
        BY <2>0, <2>4, <4>1 DEF EntrySleeps, Sleeping, Alive
      <4>. QED  BY <2>2, <3>1, <4>1, <4>2 DEF EntrySleeps, InTable, Alive
    <3>. QED  BY <3>1, <3>2 DEF QueueInv
  <2>. QED  BY <2>1, <2>3, <2>4 DEF QueueInv
<1>. QED  BY <1>1, <1>2, PostWakes

LEMMA QueueInvStep ==
    ASSUME PostInv, PostsOnly, [SemNext]_semaphoreVars
    PROVE  QueueInv'
<1>. USE DEF PostInv, SleepInv
<1>1. CASE UNCHANGED <<status, waitingQueue, downOn>>
  BY <1>1 DEF QueueInv, EntrySleeps, InTable, Alive
<1>2. CASE OtherStep
  BY <1>2, OtherQueueInv
<1>3. ASSUME NEW t \in Sems, SemOpen(t, value'[t]) \/ SemClose(t)
      PROVE  QueueInv'
  <2>1. /\ UNCHANGED status
        /\ waitingQueue' = [waitingQueue EXCEPT ![t] = <<>>]
        /\ \A p \in Pids : \/ downOn'[p] = downOn[p]
                           \/ downOn'[p] = Freed /\ downOn[p] = t
    BY <1>3 DEF SemOpen, SemClose, vars, pcbVars, SemTypeOK
  <2>2. NoDuplicates(<<>>) /\ \A k \in 1..Len(<<>>) : FALSE
    BY DEF NoDuplicates
  <2>3. ASSUME NEW s \in Sems
        PROVE  /\ NoDuplicates(waitingQueue'[s])
               /\ \A k \in 1..Len(waitingQueue'[s]) :
                    EntrySleeps(s, waitingQueue[s][k])'
    <3>1. CASE s = t
      <4>1. waitingQueue'[s] = <<>>
        BY <2>1, <3>1 DEF SemTypeOK
      <4>. QED  BY <2>2, <4>1
    <3>2. CASE s # t
      <4>1. waitingQueue'[s] = waitingQueue[s]
        BY <2>1, <3>2 DEF SemTypeOK
      <4>2. ASSUME NEW k \in 1..Len(waitingQueue[s])
            PROVE  EntrySleeps(s, waitingQueue[s][k])'
        <5>1. EntrySleeps(s, waitingQueue[s][k])
          BY DEF QueueInv
        <5>. QED  BY <2>1, <3>2, <4>1, <5>1 DEF EntrySleeps, InTable, Alive
      <4>. QED  BY <4>1, <4>2 DEF QueueInv
    <3>. QED  BY <3>1, <3>2
  <2>4. \A p \in Pids : downOn'[p] # None => Alive(p)'
    BY <2>1, SemaphoreAssumption DEF QueueInv, Alive
  <2>. QED  BY <2>3, <2>4 DEF QueueInv
<1>4. ASSUME NEW t \in Sems, NEW v \in InitialValues, SemOpen(t, v)
      PROVE  QueueInv'
  BY <1>3, <1>4 DEF SemOpen, SemTypeOK
<1>5. ASSUME NEW t \in Sems, SemWait(t) PROVE QueueInv'
  BY <1>5, DownQueueInv DEF SemWait, Calls, UserMode
<1>6. ASSUME NEW t \in Sems, SemPost(t) PROVE QueueInv'
  BY <1>6, PostQueueInv
<1>7. CASE SemResume
  <2>1. CASE Crash("corrupt") /\ UNCHANGED semVars
    BY <1>1, <2>1 DEF Crash, pcbVars, semVars
  <2>. QED  BY <1>7, <2>1, DownQueueInv DEF SemResume, Retry
<1>8. CASE UNCHANGED semaphoreVars
  BY <1>1, <1>8 DEF semaphoreVars, semVars, vars, pcbVars
<1>. QED  BY <1>2, <1>3, <1>4, <1>5, <1>6, <1>7, <1>8 DEF SemNext

-----------------------------------------------------------------------------
(* Counting the woken                                                      *)

LEMMA WokenFinite ==
    ASSUME NEW s
    PROVE  IsFiniteSet(Woken(s)) /\ Cardinality(Woken(s)) \in Nat
<1>1. Woken(s) \in SUBSET Pids
  BY DEF Woken
<1>2. IsFiniteSet(Woken(s))
  BY <1>1, PidsFinite, FS_Subset
<1>. QED  BY <1>2, FS_CardinalityType

\* The counters of s are as good after a step that takes no sleeper on, loses
\* no woken process and leaves the value alone.
LEMMA CountKept ==
    ASSUME NEW s \in Sems, SemTypeOK,
           Sleeping(s) # {} => value[s] <= Cardinality(Woken(s)),
           value'[s] = value[s],
           Sleeping(s)' \subseteq Sleeping(s), Woken(s) \subseteq Woken(s)'
    PROVE  Sleeping(s)' # {} => value'[s] <= Cardinality(Woken(s)')
<1>1. Woken(s)' \in SUBSET Pids
  BY DEF Woken
<1>2. IsFiniteSet(Woken(s)')
  BY <1>1, PidsFinite, FS_Subset
<1>3. Cardinality(Woken(s)) <= Cardinality(Woken(s)')
  BY <1>2, FS_Subset
<1>4. Cardinality(Woken(s)) \in Nat /\ Cardinality(Woken(s)') \in Nat
  BY <1>2, WokenFinite, FS_CardinalityType
<1>. QED  BY <1>3, <1>4 DEF SemTypeOK

LEMMA DownCount ==
    ASSUME PostInv, NoLostWakeup, control = "user", NEW t \in Sems,
           downOn[currentPid] \in {None, t}, Decrement(t) \/ Suspended(t)
    PROVE  NoLostWakeup'
<1>. USE DEF PostInv, SleepInv
<1>. SUFFICES ASSUME NEW s \in Sems
              PROVE  Sleeping(s)' # {} => value'[s] <= Cardinality(Woken(s)')
  BY DEF NoLostWakeup
<1>0. /\ currentPid \in Pids /\ status[currentPid] # "BLOCKED"
      /\ value[s] \in Int /\ s # None
      /\ Sleeping(s) # {} => value[s] <= Cardinality(Woken(s))
  <2>1. Scheduled(currentPid)
    BY CurrentNotQueued
  <2>. QED  BY <2>1, SemaphoreAssumption
            DEF Scheduled, IInv, TypeOK, SemTypeOK, NoLostWakeup
<1>1. CASE Decrement(t)
  <2>1. \A p \in Pids : /\ status'[p] = status[p]
                        /\ downOn'[p] = IF p = currentPid THEN None ELSE downOn[p]
    BY <1>1 DEF Decrement, SemTypeOK, vars, pcbVars
  <2>2. Sleeping(s)' = Sleeping(s)
    BY <1>0, <2>1 DEF Sleeping
  <2>3. CASE downOn[currentPid] = s
    <3>1. Woken(s)' = Woken(s) \ {currentPid} /\ currentPid \in Woken(s)
      BY <1>0, <2>1, <2>3 DEF Woken
    <3>2. Cardinality(Woken(s)') = Cardinality(Woken(s)) - 1
      BY <3>1, WokenFinite, FS_RemoveElement
    <3>3. value'[s] = value[s] - 1
      BY <1>0, <1>1, <2>3 DEF Decrement, SemTypeOK
    <3>. QED  BY <1>0, <2>2, <3>2, <3>3, WokenFinite
  <2>4. CASE downOn[currentPid] # s
    <3>1. Woken(s)' = Woken(s)
      BY <1>0, <2>1, <2>4 DEF Woken
    <3>2. value'[s] \in {value[s] - 1, value[s]}
      BY <1>1 DEF Decrement, SemTypeOK
    <3>. QED  BY <1>0, <2>2, <3>1, <3>2, WokenFinite
  <2>. QED  BY <2>3, <2>4
<1>2. CASE Suspended(t)
  <2>1. value'[s] = value[s]
    BY <1>2 DEF Suspended
  <2>2. CASE s = t
    <3>1. value'[s] = 0
      BY <1>2, <2>1, <2>2 DEF Suspended
    <3>2. Cardinality(Woken(s)') \in Nat
      <4>1. Woken(s)' \in SUBSET Pids
        BY DEF Woken
      <4>. QED  BY <4>1, PidsFinite, FS_Subset, FS_CardinalityType
    <3>. QED  BY <3>1, <3>2
  <2>3. CASE s # t
    <3>1. /\ downOn'[currentPid] = t
          /\ \A p \in Pids \ {currentPid} : /\ status'[p] = status[p]
                                            /\ downOn'[p] = downOn[p]
      BY <1>0, <1>2, SleepChanges DEF Suspended, SemTypeOK
    <3>2. Sleeping(s)' \subseteq Sleeping(s) /\ Woken(s) \subseteq Woken(s)'
      BY <1>0, <2>3, <3>1 DEF Sleeping, Woken
    <3>. QED  BY <1>0, <2>1, <3>2, CountKept
  <2>. QED  BY <2>2, <2>3
<1>. QED  BY <1>1, <1>2

LEMMA PostCount ==
    ASSUME PostInv, NoLostWakeup, NEW t \in Sems, SemPost(t)
    PROVE  NoLostWakeup'
<1>. USE DEF PostInv, SleepInv
<1>. SUFFICES ASSUME NEW s \in Sems
              PROVE  Sleeping(s)' # {} => value'[s] <= Cardinality(Woken(s)')
  BY DEF NoLostWakeup
<1>0. /\ UNCHANGED downOn /\ status \in [Pids -> Statuses] /\ value[s] \in Int
      /\ Sleeping(s) # {} => value[s] <= Cardinality(Woken(s))
      /\ value'[s] = IF s = t THEN value[s] + 1 ELSE value[s]
  BY DEF SemPost, IInv, TypeOK, SemTypeOK, NoLostWakeup
<1>1. CASE Sleeping(t) = {} /\ UNCHANGED status
  <2>1. Sleeping(s)' = Sleeping(s) /\ Woken(s)' = Woken(s)
    BY <1>0, <1>1 DEF Sleeping, Woken
  <2>. QED  BY <1>0, <1>1, <2>1
<1>2. ASSUME NEW r \in Sleeping(t), status' = [status EXCEPT ![r] = "READY"]
      PROVE  Sleeping(s)' # {} => value'[s] <= Cardinality(Woken(s)')
  <2>0. r \in Pids /\ downOn[r] = t /\ status[r] = "BLOCKED"
    BY DEF Sleeping
  <2>1. CASE s = t
    <3>1. Woken(s)' = Woken(s) \cup {r} /\ r \notin Woken(s)
      BY <1>0, <1>2, <2>0, <2>1 DEF Woken
    <3>2. Cardinality(Woken(s)') = Cardinality(Woken(s)) + 1
      BY <3>1, WokenFinite, FS_AddElement
    <3>3. Sleeping(s) # {}
      BY <2>1
    <3>. QED  BY <1>0, <2>1, <3>2, <3>3, WokenFinite
  <2>2. CASE s # t
    <3>1. Sleeping(s)' = Sleeping(s) /\ Woken(s)' = Woken(s)
      BY <1>0, <1>2, <2>0, <2>2 DEF Sleeping, Woken
    <3>. QED  BY <1>0, <2>2, <3>1
  <2>. QED  BY <2>1, <2>2
<1>. QED  BY <1>1, <1>2, PostWakes

LEMMA WakeupStep ==
    ASSUME PostInv, PostsOnly, NoLostWakeup, [SemNext]_semaphoreVars
    PROVE  NoLostWakeup'
<1>. USE DEF PostInv, SleepInv
<1>1. CASE UNCHANGED <<status, value, downOn>>
  BY <1>1 DEF NoLostWakeup, Sleeping, Woken
<1>2. CASE OtherStep
  <2>1. KeepSemaphores /\ (UserStep \/ KernelStep)
    BY <1>2 DEF OtherStep
  <2>2. ASSUME NEW s \in Sems
        PROVE  /\ Woken(s) \subseteq Woken(s)'
               /\ Sleeping(s)' \subseteq Sleeping(s)
    <3>1. Woken(s) \subseteq Woken(s)'
      BY <1>2, OtherKeeps
    <3>2. ASSUME NEW p \in Sleeping(s)' PROVE p \in Sleeping(s)
      <4>1. p \in Pids /\ downOn'[p] = s /\ status'[p] = "BLOCKED"
        BY DEF Sleeping
      <4>2. downOn[p] = s
        BY <2>1, <4>1, KeepLemma
      <4>3. status[p] = "BLOCKED"
        BY <2>1, <4>1, QuietChanges
      <4>. QED  BY <4>1, <4>2, <4>3 DEF Sleeping
    <3>. QED  BY <3>1, <3>2
  <2>3. UNCHANGED value
    BY <2>1 DEF KeepSemaphores
  <2>. QED  BY <2>2, <2>3, CountKept DEF NoLostWakeup
<1>3. ASSUME NEW t \in Sems, SemOpen(t, value'[t]) \/ SemClose(t)
      PROVE  NoLostWakeup'
  <2>1. /\ UNCHANGED status
        /\ \A s \in Sems : s # t => value'[s] = value[s]
        /\ \A p \in Pids : \/ downOn'[p] = downOn[p]
                           \/ downOn'[p] = Freed /\ downOn[p] = t
        /\ \A p \in Pids : downOn'[p] # t
    <3>1. CASE SemOpen(t, value'[t])
      BY <3>1 DEF SemOpen, vars, pcbVars, SemTypeOK, DownOpen
    <3>2. CASE SemClose(t)
      BY <3>2, SemaphoreAssumption DEF SemClose, vars, pcbVars, SemTypeOK
    <3>. QED  BY <1>3, <3>1, <3>2
  <2>2. ASSUME NEW s \in Sems
        PROVE  Sleeping(s)' # {} => value'[s] <= Cardinality(Woken(s)')
    <3>1. CASE s = t
      BY <2>1, <3>1 DEF Sleeping
    <3>2. CASE s # t
      <4>1. Sleeping(s)' \subseteq Sleeping(s) /\ Woken(s) \subseteq Woken(s)'
        BY <2>1, <3>2, SemaphoreAssumption DEF Sleeping, Woken
      <4>. QED  BY <2>1, <3>2, <4>1, CountKept DEF NoLostWakeup
    <3>. QED  BY <3>1, <3>2
  <2>. QED  BY <2>2 DEF NoLostWakeup
<1>4. ASSUME NEW t \in Sems, NEW v \in InitialValues, SemOpen(t, v)
      PROVE  NoLostWakeup'
  BY <1>3, <1>4 DEF SemOpen, SemTypeOK
<1>5. ASSUME NEW t \in Sems, SemWait(t) PROVE NoLostWakeup'
  BY <1>5, DownCount DEF SemWait, Calls, UserMode, InUser
<1>6. ASSUME NEW t \in Sems, SemPost(t) PROVE NoLostWakeup'
  BY <1>6, PostCount
<1>7. CASE SemResume
  <2>1. CASE Crash("corrupt") /\ UNCHANGED semVars
    BY <1>1, <2>1 DEF Crash, pcbVars, semVars
  <2>. QED  BY <1>7, <2>1, DownCount DEF SemResume, Retry
<1>8. CASE UNCHANGED semaphoreVars
  BY <1>1, <1>8 DEF semaphoreVars, semVars, vars, pcbVars
<1>. QED  BY <1>2, <1>3, <1>4, <1>5, <1>6, <1>7, <1>8 DEF SemNext

\* When the only ways to wake and to kill are those of the semaphores and of
\* careful callers, a unit is never left over while somebody sleeps and no
\* woken process is on its way to it: for any number of processes and
\* semaphores, any priorities, and deaths among the sleepers.
THEOREM NoWakeupLost ==
    ASSUME PostsOnly
    PROVE  SemSpec => []NoLostWakeup
<1>0. "block" \notin Syscalls
  BY DEF PostsOnly
<1>1. SemInit => PostInv /\ NoLostWakeup
  <2>. SUFFICES ASSUME SemInit PROVE PostInv /\ NoLostWakeup
    OBVIOUS
  <2>1. /\ \A p \in Pids : downOn[p] = None
        /\ \A s \in Sems : waitingQueue[s] = <<>>
    BY DEF SemInit
  <2>2. SleepInv
    BY <2>1, InitSemType, SemaphoreAssumption
       DEF SleepInv, SleepersQueued, Sleeping, DownOpen
  <2>3. Quiet
    <3>1. 0 \in Pids
      BY PidsFinite DEF IDLE_PID
    <3>. QED  BY <3>1 DEF SemInit, Init, Quiet, Scheduled, IDLE_PID
  <2>4. QueueInv
    BY <2>1 DEF QueueInv, NoDuplicates
  <2>5. NoLostWakeup
    BY <2>1, SemaphoreAssumption DEF NoLostWakeup, Sleeping
  <2>. QED  BY <2>2, <2>3, <2>4, <2>5 DEF PostInv
<1>2. PostInv /\ NoLostWakeup /\ [SemNext]_semaphoreVars
        => (PostInv /\ NoLostWakeup)'
  <2>. SUFFICES ASSUME PostInv, NoLostWakeup, [SemNext]_semaphoreVars
                PROVE  PostInv' /\ NoLostWakeup'
    OBVIOUS
  <2>1. SleepInv'
    BY <1>0, SemNextIInv, SemTypeStep, SleepersStep, DownOpenStep
       DEF PostInv, SleepInv
  <2>2. Quiet'
    BY QuietStep DEF PostInv, SleepInv
  <2>. QED  BY <2>1, <2>2, QueueInvStep, WakeupStep DEF PostInv
<1>3. PostInv /\ NoLostWakeup => NoLostWakeup
  OBVIOUS
<1>. QED  BY <1>1, <1>2, <1>3, PTL DEF SemSpec
=============================================================================
