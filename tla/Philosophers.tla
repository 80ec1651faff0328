---------------------------- MODULE Philosophers ----------------------------
(***************************************************************************)
(* The program phylo (Userland/.../programs/phylo.c): a table of dining    *)
(* philosophers, one process each, whose number the user changes with 'a'  *)
(* and 'r' while they eat; 'q' ends it, and it may be started again with   *)
(* the static variables as they were left.                                 *)
(*                                                                         *)
(* The semaphores are those of the kernel (module Semaphore): MUTEX guards *)
(* the table, and semaphore i lets philosopher i eat.  Waiting on a closed *)
(* one returns at once; whoever sleeps on it when it is closed stays, or   *)
(* reads the freed semaphore once more if a post had already reached it.   *)
(* The dangling entries a killed sleeper leaves in MUTEX's queue are       *)
(* module Semaphore's subject.                                             *)
(***************************************************************************)
EXTENDS Integers, FiniteSets

CONSTANTS InitialPhilosophers, MAX_PHILOSOPHERS, MIN_PHILOSOPHERS,
          MAX_CONSECUTIVE_MEALS, HUNGER_THRESHOLD,
          Inputs,      \* the keys the user presses, of "a", "r" and "q"
          Pids,        \* bound: the pids philosophers get
          MaxRuns      \* bound: how often the command is started

(* What the constants must satisfy; assumed where they are given values.  *)
TableAssumption ==
  /\ InitialPhilosophers \in MIN_PHILOSOPHERS .. MAX_PHILOSOPHERS
  /\ MAX_PHILOSOPHERS \in Nat /\ MIN_PHILOSOPHERS \in Nat \ {0, 1}
  /\ MAX_CONSECUTIVE_MEALS \in Nat /\ HUNGER_THRESHOLD \in Nat
  /\ Inputs \subseteq {"a", "r", "q"}
  /\ Pids \subseteq Nat \ {0} /\ IsFiniteSet(Pids)

VARIABLES numPhilosophers, pids, indexPids,
          states, consecutiveMeals, hungerTime,
          sem,         \* value of MUTEX and of each semaphores[i], or Closed
          id, pc,      \* per process: argv[1], and where it is
          main, i,     \* where phylo itself is, and its loop's counter
          runs

tableVars == <<states, consecutiveMeals, hungerTime>>
pidVars == <<numPhilosophers, pids, indexPids>>
mainVars == <<main, i, runs>>
vars == <<tableVars, pidVars, sem, id, pc, mainVars>>

Ids == 0 .. MAX_PHILOSOPHERS - 1
MUTEX == MAX_PHILOSOPHERS       \* any number that is no philosopher's
Closed == -1
LEFT(j) == (j + numPhilosophers - 1) % numPhilosophers
RIGHT(j) == (j + 1) % numPhilosophers
AtMost(n, m) == IF n < m THEN n ELSE m

Init ==
  /\ numPhilosophers = InitialPhilosophers /\ indexPids = 0
  /\ pids = [k \in Ids |-> 0]
  /\ states = [j \in Ids |-> "THINKING"]
  /\ consecutiveMeals = [j \in Ids |-> 0] /\ hungerTime = [j \in Ids |-> 0]
  /\ sem = [s \in Ids \cup {MUTEX} |-> Closed]
  /\ id = [p \in Pids |-> 0] /\ pc = [p \in Pids |-> "none"]
  /\ main = "start" /\ i = 0 /\ runs = 0

SemOpen(sems, s, value) == IF sems[s] = Closed THEN [sems EXCEPT ![s] = value] ELSE sems

SemPost(sems, s) == IF sems[s] = Closed THEN sems ELSE [sems EXCEPT ![s] = @ + 1]
SemWait(s) == sem[s] # 0 /\ sem' = [sem EXCEPT ![s] = IF @ = Closed THEN @ ELSE @ - 1]
SemClose(j) ==    \* what becomes of those who sleep on it
  {[p \in Pids |-> IF pc[p] = "asleep" /\ id[p] = j THEN fate ELSE pc[p]] :
     fate \in IF sem[j] > 0 THEN {"lost", "look"} ELSE {"lost"}}
Goto(p, from, to) == pc[p] = from /\ pc' = [pc EXCEPT ![p] = to]

-----------------------------------------------------------------------------
(* test(): a philosopher starts to eat if it may.  The table is a record   *)
(* so that one critical section can test several, one after another.       *)
Table == [s |-> states, meals |-> consecutiveMeals, hunger |-> hungerTime, sems |-> sem]
MayEatOneSided(t, j, left, right) ==    \* mutants of MayEat
  /\ t.s[j] = "HUNGRY" /\ t.s[left] # "EATING" /\ right \in Ids
  /\ t.meals[j] < MAX_CONSECUTIVE_MEALS \/ t.hunger[j] > HUNGER_THRESHOLD

MayEat(t, j, left, right) ==
  /\ t.s[j] = "HUNGRY" /\ t.s[left] # "EATING" /\ t.s[right] # "EATING"
  /\ t.meals[j] < MAX_CONSECUTIVE_MEALS \/ t.hunger[j] > HUNGER_THRESHOLD
Test(t, j, left, right) ==
  IF MayEat(t, j, left, right)
  THEN [t EXCEPT !.s[j] = "EATING", !.hunger[j] = 0,
                 !.meals[j] = AtMost(@ + 1, MAX_CONSECUTIVE_MEALS),
                 !.sems = SemPost(@, j)]
  ELSE t
TestAt(t, j) == Test(t, j, LEFT(j), RIGHT(j))
Leave(t) ==       \* the section ends: post(MUTEX)
  /\ states' = t.s /\ consecutiveMeals' = t.meals /\ hungerTime' = t.hunger
  /\ sem' = SemPost(t.sems, MUTEX)

(* philosopher(): it returns at once if its seat is gone when it starts.   *)
Begin(p) ==
  /\ Goto(p, "begin", IF id[p] < numPhilosophers THEN "thinking" ELSE "dead")
  /\ UNCHANGED <<tableVars, sem>>
Enter(p, from, to) == Goto(p, from, to) /\ SemWait(MUTEX) /\ UNCHANGED tableVars
(* takeForks, and the wait for the philosopher's own semaphore.            *)
Take(p) ==
  /\ Goto(p, "taking", "forks")
  /\ Leave(TestAt([Table EXCEPT !.s[id[p]] = "HUNGRY", !.hunger[id[p]] = 0], id[p]))
AwaitForks(p) ==
  /\ \/ (Goto(p, "forks", "look") \/ Goto(p, "asleep", "look")) /\ SemWait(id[p])
     \/ Goto(p, "forks", "asleep") /\ sem[id[p]] = 0 /\ UNCHANGED sem
  /\ UNCHANGED tableVars
PrintTable(p) == Goto(p, "looking", "eating") /\ Leave(Table)
PutUntested(p) ==    \* mutant: the neighbours are not tested
  Goto(p, "putting", "count") /\ Leave([Table EXCEPT !.s[id[p]] = "THINKING"])

(* putForks: the counter is cleared when a neighbour is hungry.            *)
Put(p) ==
  LET j == id[p]
      down == [Table EXCEPT !.s[j] = "THINKING"]
      wanted == \E k \in {LEFT(j), RIGHT(j)} : down.s[k] = "HUNGRY"
      cleared == IF wanted THEN [down EXCEPT !.meals[j] = 0] ELSE down
  IN Goto(p, "putting", "count") /\ Leave(TestAt(TestAt(cleared, LEFT(j)), RIGHT(j)))
(* The others who are hungry have waited one meal longer; counts past the  *)
(* threshold's successor are the same to test().                           *)
Count(p) ==
  /\ Goto(p, "counting", "thinking")
  /\ Leave([Table EXCEPT !.hunger = [j \in Ids |->
       IF j < numPhilosophers /\ j # id[p] /\ states[j] = "HUNGRY"
       THEN AtMost(hungerTime[j] + 1, HUNGER_THRESHOLD + 1) ELSE hungerTime[j]]])

Philosopher(p) ==
  /\ \/ Begin(p)
     \/ Enter(p, "thinking", "taking") \/ Take(p) \/ AwaitForks(p)
     \/ Enter(p, "look", "looking") \/ PrintTable(p)
     \/ Enter(p, "eating", "putting") \/ Put(p)
     \/ Enter(p, "count", "counting") \/ Count(p)
  /\ UNCHANGED <<pidVars, id, mainVars>>

-----------------------------------------------------------------------------
Alive(p) == pc[p] \notin {"none", "dead"}
(* pids[indexPids], which nothing keeps inside the array (214, 218, 244):  *)
(* what is read outside may be any pid.  What is written behind its end    *)
(* lands in indexPids, which the build puts there; what is written before  *)
(* its beginning is not looked at.                                         *)
PidRead == IF indexPids \in Ids THEN {pids[indexPids]} ELSE Pids \cup {0}
PutPid(pid, next, overwritten) ==
  IF indexPids \in Ids THEN pids' = [pids EXCEPT ![indexPids] = pid] /\ indexPids' = next
  ELSE /\ UNCHANGED pids
       /\ indexPids' = IF indexPids = MAX_PHILOSOPHERS THEN overwritten ELSE next
(* create_process_with_fds(philosopher, j), its pid put at indexPids.      *)
Spawn(j) ==
  \E p \in Pids :
    /\ pc[p] = "none" /\ \A q \in Pids : q < p => pc[q] # "none"
    /\ pc' = [pc EXCEPT ![p] = "begin"] /\ id' = [id EXCEPT ![p] = j]
    /\ PutPid(p, indexPids + 1, p + 1)
Killed(pcs, pid) == [p \in Pids |-> IF p = pid /\ pcs[p] # "none" THEN "dead" ELSE pcs[p]]

(* initPhilosophers: the table, then the processes one by one.             *)
Reset(f, seats, v) == [j \in DOMAIN f |-> IF j \in seats THEN v ELSE f[j]]
InitPhilosophers ==
  /\ main = "start" /\ runs < MaxRuns /\ runs' = runs + 1 /\ main' = "spawn" /\ i' = 0
  /\ LET seats == 0 .. numPhilosophers - 1
     IN /\ states' = Reset(states, seats, "THINKING") /\ pids' = Reset(pids, seats, 0)
        /\ consecutiveMeals' = Reset(consecutiveMeals, seats, 0)
        /\ hungerTime' = Reset(hungerTime, seats, 0)
        /\ sem' = [s \in DOMAIN sem |-> IF s \notin seats \cup {MUTEX} THEN sem[s]
                     ELSE SemOpen(sem, s, IF s = MUTEX THEN 1 ELSE 0)[s]]
  /\ UNCHANGED <<numPhilosophers, indexPids, id, pc>>
SpawnNext ==
  /\ main = "spawn" /\ Spawn(i)
  /\ i' = (i + 1) % numPhilosophers /\ main' = IF i' = 0 THEN "input" ELSE "spawn"
  /\ UNCHANGED <<tableVars, numPhilosophers, sem, runs>>

(* adjustPhilosophers                                                      *)
GetChar(key) ==
  /\ main = "input" /\ main' = key
  /\ IF key = "q" THEN UNCHANGED sem ELSE SemWait(MUTEX)
  /\ UNCHANGED <<tableVars, pidVars, id, pc, i, runs>>
Refuse ==
  /\ \/ main = "a" /\ numPhilosophers = MAX_PHILOSOPHERS
     \/ main = "r" /\ numPhilosophers = MIN_PHILOSOPHERS
  /\ main' = "input" /\ Leave(Table) /\ UNCHANGED <<pidVars, id, pc, i, runs>>
Add ==
  LET new == numPhilosophers
  IN /\ main = "a" /\ new < MAX_PHILOSOPHERS
     /\ Leave([s |-> [states EXCEPT ![new] = "THINKING"],
               meals |-> [consecutiveMeals EXCEPT ![new] = 0],
               hunger |-> [hungerTime EXCEPT ![new] = 0],
               sems |-> SemOpen(sem, new, 0)])
     /\ Spawn(new) /\ numPhilosophers' = new + 1
     /\ main' = "input" /\ UNCHANGED <<i, runs>>
Remove ==
  LET gone == numPhilosophers - 1
      left == (gone + gone - 1) % gone
      right == (gone + 1) % gone
      At(t, j) == Test(t, j, (j + gone - 1) % gone, (j + 1) % gone)
      closed == [s |-> states, meals |-> [consecutiveMeals EXCEPT ![gone] = 0],
                 hunger |-> [hungerTime EXCEPT ![gone] = 0],
                 sems |-> [sem EXCEPT ![gone] = Closed]]
  IN /\ main = "r" /\ numPhilosophers > MIN_PHILOSOPHERS
     /\ Leave(IF left = right THEN At(closed, left) ELSE At(At(closed, left), right))
     /\ pc' \in {Killed(pcs, pid) : pcs \in SemClose(gone), pid \in PidRead}
     /\ PutPid(0, indexPids - 1, 0)
     /\ numPhilosophers' = gone /\ main' = "input" /\ UNCHANGED <<id, i, runs>>
(* 'q': seat by seat, without MUTEX.  A second run finds indexPids,        *)
(* numPhilosophers, MUTEX and the seats' counters as this one left them.   *)
QuitClose ==
  /\ main = "q" /\ main' = "kill" /\ sem' = [sem EXCEPT ![i] = Closed]
  /\ pc' \in SemClose(i) /\ UNCHANGED <<tableVars, pidVars, id, i, runs>>
QuitKill ==
  /\ main = "kill" /\ pc' = Killed(pc, pids[i])
  /\ i' = (i + 1) % numPhilosophers /\ main' = IF i' = 0 THEN "start" ELSE "q"
  /\ UNCHANGED <<tableVars, pidVars, sem, id, runs>>

Next ==
  \/ \E p \in Pids : Philosopher(p)
  \/ InitPhilosophers \/ SpawnNext \/ \E key \in Inputs : GetChar(key)
  \/ Refuse \/ Add \/ Remove \/ QuitClose \/ QuitKill
Spec == Init /\ [][Next]_vars

-----------------------------------------------------------------------------
PhilosophersTypeOK ==
  /\ numPhilosophers \in MIN_PHILOSOPHERS .. MAX_PHILOSOPHERS
  /\ indexPids \in 0 .. MAX_PHILOSOPHERS /\ i \in Ids
  /\ sem[MUTEX] \in {Closed, 0, 1} /\ \A j \in Ids : sem[j] \in {Closed, 0, 1}
  /\ \A j \in Ids : /\ states[j] \in {"THINKING", "HUNGRY", "EATING"}
                    /\ consecutiveMeals[j] \in 0 .. MAX_CONSECUTIVE_MEALS
                    /\ hungerTime[j] \in 0 .. HUNGER_THRESHOLD + 1

(* No two philosophers whose seats are next to each other are between      *)
(* takeForks and putForks at once, also while the table grows: what test,  *)
(* the private semaphores and MUTEX are for.                               *)
Eating(p) == pc[p] \in {"look", "looking", "eating", "putting"}
NeighboursExclusive ==
  \A p, q \in Pids : p # q /\ Eating(p) /\ Eating(q)
                       => id[p] \notin {id[q], LEFT(id[q]), RIGHT(id[q])}
(* Nobody is forgotten: a hungry philosopher has a neighbour that eats     *)
(* (and will test it), or has had its number of meals, or sits beside      *)
(* somebody who was added: whoever had to wait for the former neighbour is *)
(* not tested when that one puts its forks down.                           *)
NoForgottenHunger ==
  \A j \in 0 .. numPhilosophers - 1 :
    states[j] = "HUNGRY" => \/ "EATING" \in {states[LEFT(j)], states[RIGHT(j)]}
                            \/ consecutiveMeals[j] = MAX_CONSECUTIVE_MEALS
                            \/ \E k \in {LEFT(j), RIGHT(j)} : k >= InitialPhilosophers
(* Even so they do not all wait for each other: when everybody is hungry,  *)
(* somebody has had its number of meals.                                   *)
NotAllWait ==
  \E j \in 0 .. numPhilosophers - 1 :
    states[j] # "HUNGRY" \/ consecutiveMeals[j] = MAX_CONSECUTIVE_MEALS
(* MUTEX is held by one at a time, the survivors of a removal or of a quit *)
(* and phylo itself included, and is never free while somebody is inside.  *)
MutexExclusive ==
  Cardinality({p \in Pids : pc[p] \in {"taking", "looking", "putting", "counting"}})
    + (IF main \in {"a", "r"} THEN 1 ELSE 0) + sem[MUTEX] <= 1
(* "Press 'a' to add a philosopher, 'r' to remove one": between two keys   *)
(* there are as many philosophers as seats.                                *)
RemoveRemoves ==
  main = "input" => Cardinality({p \in Pids : Alive(p)}) = numPhilosophers
(* "'q' to quit": the philosophers are gone when phylo returns.            *)
QuitStopsAll == main = "start" => \A p \in Pids : ~Alive(p)
=============================================================================
