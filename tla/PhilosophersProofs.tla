------------------------- MODULE PhilosophersProofs -------------------------
(***************************************************************************)
(* Proofs about the dining philosophers, for every number of seats, of     *)
(* processes, of meals and of runs.  Whatever keys are pressed MUTEX is    *)
(* held by one at a time and they never all wait for each other; while the *)
(* table only grows neighbours do not eat at once, and only who sits       *)
(* beside somebody new can be forgotten.                                   *)
(***************************************************************************)
EXTENDS Philosophers, FiniteSetTheorems, TLAPS

Seats == 0 .. numPhilosophers - 1
Moods == {"THINKING", "HUNGRY", "EATING"}
Places == {"none", "begin", "thinking", "taking", "forks", "asleep", "look",
           "looking", "eating", "putting", "count", "counting", "dead", "lost"}
Inside(p) == pc[p] \in {"taking", "looking", "putting", "counting"}
Tables == [s : [Ids -> Moods], meals : [Ids -> 0 .. MAX_CONSECUTIVE_MEALS],
           hunger : [Ids -> 0 .. HUNGER_THRESHOLD + 1],
           sems : [Ids \cup {MUTEX} -> Nat \cup {Closed}]]

(* What holds whatever the user does.                                      *)
Typed ==
  /\ numPhilosophers \in MIN_PHILOSOPHERS .. MAX_PHILOSOPHERS
  /\ Table \in Tables
  /\ id \in [Pids -> Ids] /\ pc \in [Pids -> Places]
  /\ main \in {"start", "spawn", "input", "a", "r", "q", "kill"}
  /\ i \in Seats /\ (main \in {"start", "input", "a", "r"} => i = 0)
Alone ==
  /\ sem[MUTEX] \in {Closed, 0, 1}
  /\ sem[MUTEX] = Closed => main = "start" /\ \A p \in Pids : pc[p] = "none"
  /\ main \in {"a", "r"} => sem[MUTEX] = 0
  /\ \A p \in Pids : Inside(p) => sem[MUTEX] = 0 /\ main \notin {"a", "r"}
  /\ \A p, q \in Pids : Inside(p) /\ Inside(q) => p = q
ChangingInv == Typed /\ Alone /\ NotAllWait

(* What holds besides while philosophers only come: who sits where, and    *)
(* what state and private semaphore each has at each place.                *)
Seated ==
  /\ numPhilosophers >= InitialPhilosophers /\ DOMAIN pids = Ids
  /\ indexPids \in 0 .. numPhilosophers
  /\ main \in {"start", "spawn", "input", "a"}
  /\ main \in {"start", "spawn"} => indexPids = i /\ numPhilosophers = InitialPhilosophers
  /\ main \in {"input", "a"} => indexPids = numPhilosophers
  /\ \A p \in Pids : pc[p] \notin {"dead", "lost"}
  /\ \A p \in Pids : pc[p] # "none" => id[p] < indexPids
  /\ \A p, q \in Pids : pc[p] # "none" /\ pc[q] # "none" /\ id[p] = id[q] => p = q
Fits(t, place, j) ==
  /\ place \in {"begin", "thinking", "taking", "count", "counting"}
       => t.s[j] = "THINKING" /\ t.sems[j] = 0
  /\ place \in {"forks", "asleep"}
       => \/ t.s[j] = "HUNGRY" /\ t.sems[j] = 0
          \/ t.s[j] = "EATING" /\ t.sems[j] = 1
  /\ place \in {"look", "looking", "eating", "putting"}
       => t.s[j] = "EATING" /\ t.sems[j] = 0
Matched(t, places) ==
  /\ \A j \in Ids : j >= indexPids =>
       /\ t.s[j] = "THINKING"
       /\ t.sems[j] = IF main # "start" /\ j < numPhilosophers THEN 0 ELSE Closed
  /\ \A j \in Ids : t.s[j] = "HUNGRY" => t.sems[j] = 0
  /\ \A j \in Ids : t.sems[j] \in {Closed, 0, 1}
  /\ \A p \in Pids : Fits(t, places[p], id[p])
Apart(t) ==
  \A j \in Seats : t.s[j] = "EATING" => "EATING" \notin {t.s[LEFT(j)], t.s[RIGHT(j)]}
Fed(t, j) ==
  t.s[j] = "HUNGRY" => \/ "EATING" \in {t.s[LEFT(j)], t.s[RIGHT(j)]}
                       \/ t.meals[j] = MAX_CONSECUTIVE_MEALS
                       \/ \E k \in {LEFT(j), RIGHT(j)} : k >= InitialPhilosophers
GrowingInv ==
  ChangingInv /\ Seated /\ Matched(Table, pc) /\ Apart(Table) /\ \A j \in Seats : Fed(Table, j)

-----------------------------------------------------------------------------
(* The round table and test()                                              *)

LEMMA Turn ==
    ASSUME NEW n \in Nat \ {0, 1}
    PROVE  /\ \A j \in 0 .. n - 1 : /\ (j + n - 1) % n = IF j = 0 THEN n - 1 ELSE j - 1
                                    /\ (j + 1) % n = IF j = n - 1 THEN 0 ELSE j + 1
           /\ \A j \in Nat : (j + n - 1) % n \in 0 .. n - 1 /\ (j + 1) % n \in 0 .. n - 1
<1>1. \A x \in 0 .. n - 1 : x % n = x /\ (x + n) % n = x
  OBVIOUS
<1>2. ASSUME NEW j \in 0 .. n - 1
      PROVE  (j + n - 1) % n = IF j = 0 THEN n - 1 ELSE j - 1
  <2>1. CASE j = 0
    <3>1. j + n - 1 = n - 1 /\ n - 1 \in 0 .. n - 1
      BY <2>1
    <3>. QED  BY <3>1, <2>1, <1>1
  <2>2. CASE j # 0
    <3>1. j + n - 1 = (j - 1) + n /\ j - 1 \in 0 .. n - 1
      BY <2>2
    <3>. QED  BY <3>1, <2>2, <1>1
  <2>. QED  BY <2>1, <2>2
<1>3. ASSUME NEW j \in 0 .. n - 1
      PROVE  (j + 1) % n = IF j = n - 1 THEN 0 ELSE j + 1
  <2>1. CASE j = n - 1
    <3>1. j + 1 = 0 + n /\ 0 \in 0 .. n - 1
      BY <2>1
    <3>. QED  BY <3>1, <2>1, <1>1
  <2>2. CASE j # n - 1
    <3>1. j + 1 \in 0 .. n - 1
      BY <2>2
    <3>. QED  BY <3>1, <2>2, <1>1
  <2>. QED  BY <2>1, <2>2
<1>4. \A x \in Nat : x % n \in 0 .. n - 1
  OBVIOUS
<1>5. \A j \in Nat : j + n - 1 \in Nat /\ j + 1 \in Nat
  OBVIOUS
<1>. QED  BY <1>2, <1>3, <1>4, <1>5

(* What tests may do to a table: some of the hungry start to eat, and      *)
(* their semaphores are posted; nothing else.                              *)
Granted(t, u) ==
  /\ u \in Tables /\ u.sems[MUTEX] = t.sems[MUTEX]
  /\ \A k \in Ids :
       \/ u.s[k] = t.s[k] /\ u.sems[k] = t.sems[k] /\ u.meals[k] = t.meals[k]
       \/ /\ t.s[k] = "HUNGRY" /\ u.s[k] = "EATING"
          /\ u.sems[k] = IF t.sems[k] = Closed THEN Closed ELSE t.sems[k] + 1

LEMMA TableOf ==
    ASSUME NEW a \in [Ids -> Moods], NEW m \in [Ids -> 0 .. MAX_CONSECUTIVE_MEALS],
           NEW h \in [Ids -> 0 .. HUNGER_THRESHOLD + 1],
           NEW v \in [Ids \cup {MUTEX} -> Nat \cup {Closed}]
    PROVE  [s |-> a, meals |-> m, hunger |-> h, sems |-> v] \in Tables
BY DEF Tables

LEMMA MutexIsNoSeat == ASSUME TableAssumption PROVE MUTEX \notin Ids
BY DEF TableAssumption, MUTEX, Ids

LEMMA TestGrants ==
    ASSUME TableAssumption, NEW t \in Tables, NEW j \in Ids, NEW left \in Ids, NEW right \in Ids
    PROVE  /\ Granted(t, Test(t, j, left, right))
           /\ \A k \in Ids : Test(t, j, left, right).s[k] # t.s[k]
                => k = j /\ t.s[left] # "EATING" /\ t.s[right] # "EATING"
           /\ Test(t, j, left, right).s[j] = "HUNGRY"
                => \/ t.s[left] = "EATING" \/ t.s[right] = "EATING"
                   \/ t.meals[j] = MAX_CONSECUTIVE_MEALS
<1>1. CASE ~MayEat(t, j, left, right)
  <2>1. Test(t, j, left, right) = t
    BY <1>1 DEF Test
  <2>2. t.s[j] = "HUNGRY" => \/ t.s[left] = "EATING" \/ t.s[right] = "EATING"
                             \/ t.meals[j] >= MAX_CONSECUTIVE_MEALS
    BY <1>1 DEF MayEat, TableAssumption, Tables
  <2>3. t.meals[j] \in 0 .. MAX_CONSECUTIVE_MEALS
    BY DEF Tables
  <2>4. t.meals[j] >= MAX_CONSECUTIVE_MEALS => t.meals[j] = MAX_CONSECUTIVE_MEALS
    BY <2>3 DEF TableAssumption
  <2>5. Granted(t, t)
    BY DEF Granted
  <2>. QED  BY <2>1, <2>2, <2>4, <2>5
<1>2. CASE MayEat(t, j, left, right)
  <2>. DEFINE m == AtMost(t.meals[j] + 1, MAX_CONSECUTIVE_MEALS)
              u == [s |-> [t.s EXCEPT ![j] = "EATING"],
                    meals |-> [t.meals EXCEPT ![j] = m],
                    hunger |-> [t.hunger EXCEPT ![j] = 0],
                    sems |-> SemPost(t.sems, j)]
  <2>1. m \in 0 .. MAX_CONSECUTIVE_MEALS
    BY DEF AtMost, Tables, TableAssumption
  <2>2. Test(t, j, left, right) = u
    BY <1>2 DEF Test, Tables
  <2>3. /\ SemPost(t.sems, j) \in [Ids \cup {MUTEX} -> Nat \cup {Closed}]
        /\ SemPost(t.sems, j)[MUTEX] = t.sems[MUTEX]
        /\ SemPost(t.sems, j)[j] = IF t.sems[j] = Closed THEN Closed ELSE t.sems[j] + 1
        /\ \A k \in Ids : k # j => SemPost(t.sems, j)[k] = t.sems[k]
    BY MutexIsNoSeat DEF SemPost, Tables, Closed
  <2>. HIDE DEF m
  <2>4. u.s \in [Ids -> Moods] /\ u.meals \in [Ids -> 0 .. MAX_CONSECUTIVE_MEALS]
    BY <2>1 DEF Tables, Moods
  <2>5. u.hunger \in [Ids -> 0 .. HUNGER_THRESHOLD + 1]
    BY DEF Tables, TableAssumption
  <2>6. u \in Tables
    BY <2>3, <2>4, <2>5 DEF Tables
  <2>7. \A k \in Ids : k # j => u.s[k] = t.s[k] /\ u.sems[k] = t.sems[k] /\ u.meals[k] = t.meals[k]
    BY <2>3 DEF Tables
  <2>8. u.s[j] = "EATING" /\ t.s[j] = "HUNGRY" /\ t.s[left] # "EATING" /\ t.s[right] # "EATING"
    BY <1>2 DEF Tables, MayEat
  <2>9. Granted(t, u)
    BY <2>3, <2>6, <2>7, <2>8 DEF Granted
  <2>. HIDE DEF u
  <2>. QED  BY <2>2, <2>7, <2>8, <2>9
<1>. QED  BY <1>1, <1>2

LEMMA GrantsAddUp ==
    ASSUME NEW t, NEW u, NEW v, Granted(t, u), Granted(u, v)
    PROVE  Granted(t, v)
BY DEF Granted

NotAllWaitAt(t, n) ==
  \E j \in 0 .. n - 1 : t.s[j] # "HUNGRY" \/ t.meals[j] = MAX_CONSECUTIVE_MEALS

LEMMA GrantsFeed ==
    ASSUME TableAssumption, NEW n \in 0 .. MAX_PHILOSOPHERS, NEW t, NEW u,
           Granted(t, u), NotAllWaitAt(t, n)
    PROVE  NotAllWaitAt(u, n)
<1>1. PICK j \in 0 .. n - 1 : t.s[j] # "HUNGRY" \/ t.meals[j] = MAX_CONSECUTIVE_MEALS
  BY DEF NotAllWaitAt
<1>2. j \in Ids
  BY DEF Ids, TableAssumption
<1>3. u.s[j] # "HUNGRY" \/ u.meals[j] = MAX_CONSECUTIVE_MEALS
  BY <1>1, <1>2 DEF Granted
<1>. QED  BY <1>3 DEF NotAllWaitAt

LEMMA LeaveLemma ==
    ASSUME TableAssumption, NEW t \in Tables, Leave(t)
    PROVE  /\ Table' \in Tables
           /\ states' = t.s /\ consecutiveMeals' = t.meals /\ hungerTime' = t.hunger
           /\ sem'[MUTEX] = IF t.sems[MUTEX] = Closed THEN Closed ELSE t.sems[MUTEX] + 1
           /\ \A k \in Ids : sem'[k] = t.sems[k]
           /\ \A n : NotAllWaitAt(t, n) => NotAllWaitAt(Table', n)
<1>1. /\ sem' \in [Ids \cup {MUTEX} -> Nat \cup {Closed}]
      /\ sem'[MUTEX] = IF t.sems[MUTEX] = Closed THEN Closed ELSE t.sems[MUTEX] + 1
      /\ \A k \in Ids : sem'[k] = t.sems[k]
  BY MutexIsNoSeat DEF Leave, SemPost, Tables, Closed
<1>2. Table' \in Tables
  BY <1>1 DEF Leave, Table, Tables
<1>3. Table.s' = t.s /\ Table.meals' = t.meals
  BY DEF Leave, Table
<1>4. \A n : NotAllWaitAt(t, n) => NotAllWaitAt(Table', n)
  BY <1>3 DEF NotAllWaitAt
<1>. QED  BY <1>1, <1>2, <1>4 DEF Leave

LEMMA TypedFacts ==
    ASSUME TableAssumption, Typed
    PROVE  /\ numPhilosophers \in Nat \ {0, 1} /\ numPhilosophers \in 0 .. MAX_PHILOSOPHERS
           /\ Seats \subseteq Ids
           /\ states \in [Ids -> Moods] /\ consecutiveMeals \in [Ids -> 0 .. MAX_CONSECUTIVE_MEALS]
           /\ hungerTime \in [Ids -> 0 .. HUNGER_THRESHOLD + 1]
           /\ sem \in [Ids \cup {MUTEX} -> Nat \cup {Closed}]
           /\ \A j \in Ids : LEFT(j) \in Seats /\ RIGHT(j) \in Seats
           /\ \A j \in Seats : LEFT(j) # j /\ RIGHT(j) # j
           /\ \A j \in Seats : LEFT(RIGHT(j)) = j /\ RIGHT(LEFT(j)) = j
           /\ Table.s = states /\ Table.meals = consecutiveMeals
           /\ Table.hunger = hungerTime /\ Table.sems = sem
           /\ NotAllWait <=> NotAllWaitAt(Table, numPhilosophers)
<1>1. /\ numPhilosophers \in Nat \ {0, 1} /\ numPhilosophers \in 0 .. MAX_PHILOSOPHERS
      /\ Seats \subseteq Ids
  BY DEF Typed, TableAssumption, Seats, Ids
<1>2. /\ states \in [Ids -> Moods] /\ consecutiveMeals \in [Ids -> 0 .. MAX_CONSECUTIVE_MEALS]
      /\ hungerTime \in [Ids -> 0 .. HUNGER_THRESHOLD + 1]
      /\ sem \in [Ids \cup {MUTEX} -> Nat \cup {Closed}]
      /\ Table.s = states /\ Table.meals = consecutiveMeals
      /\ Table.hunger = hungerTime /\ Table.sems = sem
  BY DEF Typed, Table, Tables
<1>3. \A j \in Ids : LEFT(j) \in Seats /\ RIGHT(j) \in Seats
  <2>1. \A j \in Ids : j \in Nat
    BY DEF Ids
  <2>. QED  BY <1>1, <2>1, Turn DEF LEFT, RIGHT, Seats
<1>4. \A j \in Seats : /\ LEFT(j) = IF j = 0 THEN numPhilosophers - 1 ELSE j - 1
                       /\ RIGHT(j) = IF j = numPhilosophers - 1 THEN 0 ELSE j + 1
  BY <1>1, Turn DEF LEFT, RIGHT, Seats
<1>5. \A j \in Seats : LEFT(j) # j /\ RIGHT(j) # j
  BY <1>1, <1>4 DEF Seats
<1>6. ASSUME NEW j \in Seats PROVE LEFT(RIGHT(j)) = j /\ RIGHT(LEFT(j)) = j
  <2>1. LEFT(j) \in Seats /\ RIGHT(j) \in Seats
    BY <1>1, <1>3
  <2>2. /\ LEFT(RIGHT(j)) = IF RIGHT(j) = 0 THEN numPhilosophers - 1 ELSE RIGHT(j) - 1
        /\ RIGHT(LEFT(j)) = IF LEFT(j) = numPhilosophers - 1 THEN 0 ELSE LEFT(j) + 1
    BY <2>1, <1>4
  <2>3. /\ LEFT(j) = IF j = 0 THEN numPhilosophers - 1 ELSE j - 1
        /\ RIGHT(j) = IF j = numPhilosophers - 1 THEN 0 ELSE j + 1
    BY <1>4
  <2>4. j \in Int /\ 0 <= j /\ j <= numPhilosophers - 1
    BY <1>1 DEF Seats
  <2>. QED  BY <2>2, <2>3, <2>4, <1>1
<1>7. NotAllWait <=> NotAllWaitAt(Table, numPhilosophers)
  BY <1>2 DEF NotAllWait, NotAllWaitAt
<1>. QED  BY <1>1, <1>2, <1>3, <1>5, <1>6, <1>7

-----------------------------------------------------------------------------
(* Whatever the user does                                                  *)

LEMMA TestAtGrants ==
    ASSUME TableAssumption, Typed, NEW t \in Tables, NEW j \in Ids
    PROVE  /\ Granted(t, TestAt(t, j))
           /\ \A k \in Ids : TestAt(t, j).s[k] # t.s[k]
                => k = j /\ t.s[LEFT(j)] # "EATING" /\ t.s[RIGHT(j)] # "EATING"
           /\ TestAt(t, j).s[j] = "HUNGRY"
                => \/ t.s[LEFT(j)] = "EATING" \/ t.s[RIGHT(j)] = "EATING"
                   \/ t.meals[j] = MAX_CONSECUTIVE_MEALS
<1>1. LEFT(j) \in Ids /\ RIGHT(j) \in Ids
  BY TypedFacts
<1>. QED  BY <1>1, TestGrants DEF TestAt

Asking(j) == [Table EXCEPT !.s[j] = "HUNGRY", !.hunger[j] = 0]
LEMMA AskingLemma ==
    ASSUME TableAssumption, Typed, NEW j \in Ids
    PROVE  /\ Asking(j) \in Tables
           /\ Asking(j).sems = sem /\ Asking(j).meals = consecutiveMeals
           /\ \A k \in Ids : Asking(j).s[k] = IF k = j THEN "HUNGRY" ELSE states[k]
           /\ NotAllWait => NotAllWaitAt(TestAt(Asking(j), j), numPhilosophers)
<1>1. /\ Asking(j).s = [states EXCEPT ![j] = "HUNGRY"]
      /\ Asking(j).meals = consecutiveMeals /\ Asking(j).sems = sem
      /\ Asking(j).hunger = [hungerTime EXCEPT ![j] = 0]
  BY TypedFacts DEF Asking, Table
<1>2. Asking(j) = [s |-> [states EXCEPT ![j] = "HUNGRY"], meals |-> consecutiveMeals,
                   hunger |-> [hungerTime EXCEPT ![j] = 0], sems |-> sem]
  <2>. DEFINE one == [s |-> [states EXCEPT ![j] = "HUNGRY"], meals |-> consecutiveMeals,
                      hunger |-> hungerTime, sems |-> sem]
  <2>1. one = [Table EXCEPT !.s[j] = "HUNGRY"]
    BY DEF Table
  <2>2. [one EXCEPT !.hunger[j] = 0]
          = [s |-> [states EXCEPT ![j] = "HUNGRY"], meals |-> consecutiveMeals,
             hunger |-> [hungerTime EXCEPT ![j] = 0], sems |-> sem]
    OBVIOUS
  <2>3. Asking(j) = [one EXCEPT !.hunger[j] = 0]
    <3>. HIDE DEF one
    <3>. QED  BY <2>1 DEF Asking
  <2>. QED  BY <2>2, <2>3
<1>3. /\ [states EXCEPT ![j] = "HUNGRY"] \in [Ids -> Moods]
      /\ [hungerTime EXCEPT ![j] = 0] \in [Ids -> 0 .. HUNGER_THRESHOLD + 1]
  BY TypedFacts DEF Moods, TableAssumption
<1>4. Asking(j) \in Tables
  BY <1>2, <1>3, TypedFacts DEF Tables
<1>5. \A k \in Ids : Asking(j).s[k] = IF k = j THEN "HUNGRY" ELSE states[k]
  BY <1>1, TypedFacts
<1>6. ASSUME NotAllWait PROVE NotAllWaitAt(TestAt(Asking(j), j), numPhilosophers)
  <2>. DEFINE t == Asking(j)
              u == TestAt(t, j)
  <2>1. /\ t \in Tables /\ Granted(t, u)
        /\ u.s[j] = "HUNGRY" => \/ t.s[LEFT(j)] = "EATING" \/ t.s[RIGHT(j)] = "EATING"
                                \/ t.meals[j] = MAX_CONSECUTIVE_MEALS
    BY <1>4, TestAtGrants
  <2>2. \A k \in Seats : k \in Ids /\ k \in 0 .. numPhilosophers - 1
    BY TypedFacts DEF Seats
  <2>3. numPhilosophers \in 0 .. MAX_PHILOSOPHERS
    BY TypedFacts
  <2>4. ASSUME NEW k \in Seats, t.s[k] # "HUNGRY" \/ t.meals[k] = MAX_CONSECUTIVE_MEALS
        PROVE  NotAllWaitAt(u, numPhilosophers)
    <3>1. NotAllWaitAt(t, numPhilosophers)
      BY <2>2, <2>4 DEF NotAllWaitAt
    <3>. HIDE DEF t, u
    <3>. QED  BY <3>1, <2>1, <2>3, GrantsFeed
  <2>5. ASSUME \A k \in Seats : t.s[k] = "HUNGRY" /\ t.meals[k] # MAX_CONSECUTIVE_MEALS
        PROVE  NotAllWaitAt(u, numPhilosophers)
    <3>1. PICK k \in Seats : states[k] # "HUNGRY" \/ consecutiveMeals[k] = MAX_CONSECUTIVE_MEALS
      BY <1>6 DEF NotAllWait, Seats
    <3>2. k \in Ids
      BY <2>2
    <3>3. k = j
      BY <3>1, <3>2, <2>5, <1>1, <1>5
    <3>4. LEFT(j) \in Seats /\ RIGHT(j) \in Seats
      BY TypedFacts
    <3>5. u.s[j] # "HUNGRY"
      BY <2>1, <2>5, <3>3, <3>4
    <3>. HIDE DEF u
    <3>. QED  BY <3>3, <3>5, <2>2 DEF NotAllWaitAt
  <2>. QED  BY <2>4, <2>5
<1>. QED  BY <1>1, <1>4, <1>5, <1>6

(* The table while j puts its forks down, before the neighbours are tested. *)
Down(j) == [Table EXCEPT !.s[j] = "THINKING"]
Cleared(j) ==
  IF \E k \in {LEFT(j), RIGHT(j)} : Down(j).s[k] = "HUNGRY"
  THEN [Down(j) EXCEPT !.meals[j] = 0] ELSE Down(j)
LEMMA ClearedLemma ==
    ASSUME TableAssumption, Typed, NEW j \in Ids
    PROVE  /\ Cleared(j) \in Tables /\ Cleared(j).sems = sem
           /\ \A k \in Ids :
                /\ Cleared(j).s[k] = IF k = j THEN "THINKING" ELSE states[k]
                /\ k # j => Cleared(j).meals[k] = consecutiveMeals[k]
           /\ NotAllWait => NotAllWaitAt(Cleared(j), numPhilosophers)
<1>1. [states EXCEPT ![j] = "THINKING"] \in [Ids -> Moods]
  BY TypedFacts DEF Moods
<1>2. [consecutiveMeals EXCEPT ![j] = 0] \in [Ids -> 0 .. MAX_CONSECUTIVE_MEALS]
  BY TypedFacts DEF TableAssumption
<1>3. PICK m \in {consecutiveMeals, [consecutiveMeals EXCEPT ![j] = 0]} :
        Cleared(j) = [s |-> [states EXCEPT ![j] = "THINKING"], meals |-> m,
                      hunger |-> hungerTime, sems |-> sem]
  BY DEF Cleared, Down, Table
<1>4. Cleared(j) \in Tables
  <2>1. m \in [Ids -> 0 .. MAX_CONSECUTIVE_MEALS]
    BY <1>2, TypedFacts
  <2>2. /\ hungerTime \in [Ids -> 0 .. HUNGER_THRESHOLD + 1]
        /\ sem \in [Ids \cup {MUTEX} -> Nat \cup {Closed}]
    BY TypedFacts
  <2>3. [s |-> [states EXCEPT ![j] = "THINKING"], meals |-> m,
         hunger |-> hungerTime, sems |-> sem] \in Tables
    BY <1>1, <2>1, <2>2, TableOf
  <2>. QED  BY <1>3, <2>3, Zenon
<1>5. \A k \in Ids : /\ Cleared(j).s[k] = IF k = j THEN "THINKING" ELSE states[k]
                     /\ k # j => Cleared(j).meals[k] = consecutiveMeals[k]
  BY <1>3, TypedFacts
<1>6. ASSUME NotAllWait PROVE NotAllWaitAt(Cleared(j), numPhilosophers)
  <2>1. PICK k \in Seats : states[k] # "HUNGRY" \/ consecutiveMeals[k] = MAX_CONSECUTIVE_MEALS
    BY <1>6 DEF NotAllWait, Seats
  <2>2. k \in Ids /\ k \in 0 .. numPhilosophers - 1
    BY TypedFacts DEF Seats
  <2>3. Cleared(j).s[k] # "HUNGRY" \/ Cleared(j).meals[k] = MAX_CONSECUTIVE_MEALS
    BY <2>1, <2>2, <1>5
  <2>. QED  BY <2>2, <2>3 DEF NotAllWaitAt
<1>. QED  BY <1>3, <1>4, <1>5, <1>6

Counted(j) ==
  [Table EXCEPT !.hunger = [k \in Ids |->
     IF k < numPhilosophers /\ k # j /\ states[k] = "HUNGRY"
     THEN AtMost(hungerTime[k] + 1, HUNGER_THRESHOLD + 1) ELSE hungerTime[k]]]
LEMMA CountedLemma ==
    ASSUME TableAssumption, Typed, NEW j \in Ids
    PROVE  /\ Counted(j) \in Tables /\ Counted(j).sems = sem /\ Counted(j).s = states
           /\ Counted(j).meals = consecutiveMeals
<1>. DEFINE h == [k \in Ids |->
                    IF k < numPhilosophers /\ k # j /\ states[k] = "HUNGRY"
                    THEN AtMost(hungerTime[k] + 1, HUNGER_THRESHOLD + 1) ELSE hungerTime[k]]
<1>1. \A n \in Nat : AtMost(n, HUNGER_THRESHOLD + 1) \in 0 .. HUNGER_THRESHOLD + 1
  BY DEF AtMost, TableAssumption
<1>2. \A k \in Ids : hungerTime[k] \in 0 .. HUNGER_THRESHOLD + 1 /\ hungerTime[k] + 1 \in Nat
  BY TypedFacts DEF TableAssumption
<1>3. h \in [Ids -> 0 .. HUNGER_THRESHOLD + 1]
  BY <1>1, <1>2
<1>4. Counted(j) = [s |-> states, meals |-> consecutiveMeals, hunger |-> h, sems |-> sem]
  BY DEF Counted, Table
<1>. HIDE DEF h
<1>. QED  BY <1>3, <1>4, TypedFacts DEF Tables

(* The tables a philosopher leaves behind.                                 *)
PutDown(j) == TestAt(TestAt(Cleared(j), LEFT(j)), RIGHT(j))
LEMMA PutDownLemma ==
    ASSUME TableAssumption, Typed, NEW j \in Ids
    PROVE  /\ PutDown(j) \in Tables /\ Granted(Cleared(j), PutDown(j))
           /\ NotAllWait => NotAllWaitAt(PutDown(j), numPhilosophers)
<1>. DEFINE t == Cleared(j)
            u == TestAt(t, LEFT(j))
            v == TestAt(u, RIGHT(j))
<1>1. LEFT(j) \in Ids /\ RIGHT(j) \in Ids
  BY TypedFacts
<1>2. t \in Tables /\ (NotAllWait => NotAllWaitAt(t, numPhilosophers))
  BY ClearedLemma
<1>. HIDE DEF t
<1>3. Granted(t, u)
  BY <1>1, <1>2, TestAtGrants
<1>4. u \in Tables
  BY <1>3 DEF Granted
<1>. HIDE DEF u
<1>5. Granted(u, v)
  BY <1>1, <1>4, TestAtGrants
<1>. HIDE DEF v
<1>6. Granted(t, v) /\ v \in Tables
  <2>1. Granted(t, v)
    BY <1>3, <1>5, GrantsAddUp
  <2>. QED  BY <2>1 DEF Granted
<1>7. numPhilosophers \in 0 .. MAX_PHILOSOPHERS
  BY TypedFacts
<1>8. NotAllWait => NotAllWaitAt(v, numPhilosophers)
  BY <1>2, <1>6, <1>7, GrantsFeed
<1>. QED  BY <1>6, <1>8 DEF PutDown, t, u, v

Left(p) ==
  CASE pc[p] = "taking"   -> TestAt(Asking(id[p]), id[p])
    [] pc[p] = "looking"  -> Table
    [] pc[p] = "putting"  -> PutDown(id[p])
    [] pc[p] = "counting" -> Counted(id[p])
LEMMA LeftLemma ==
    ASSUME TableAssumption, Typed, NEW p \in Pids, Inside(p)
    PROVE  /\ Left(p) \in Tables /\ Left(p).sems[MUTEX] = sem[MUTEX]
           /\ NotAllWait => NotAllWaitAt(Left(p), numPhilosophers)
<1>1. id[p] \in Ids
  BY DEF Typed
<1>2. CASE pc[p] = "taking"
  <2>1. Left(p) = TestAt(Asking(id[p]), id[p])
    BY <1>2 DEF Left
  <2>2. Granted(Asking(id[p]), Left(p))
    BY <1>1, <2>1, AskingLemma, TestAtGrants
  <2>3. Left(p) \in Tables /\ Left(p).sems[MUTEX] = Asking(id[p]).sems[MUTEX]
    BY <2>2 DEF Granted
  <2>. QED  BY <1>1, <2>1, <2>3, AskingLemma
<1>3. CASE pc[p] = "looking"
  <2>1. Left(p) = Table
    BY <1>3 DEF Left
  <2>. QED  BY <2>1, TypedFacts DEF Typed
<1>4. CASE pc[p] = "putting"
  <2>1. Left(p) = PutDown(id[p])
    BY <1>4 DEF Left
  <2>2. Granted(Cleared(id[p]), Left(p))
    BY <1>1, <2>1, PutDownLemma
  <2>3. Left(p) \in Tables /\ Left(p).sems[MUTEX] = Cleared(id[p]).sems[MUTEX]
    BY <2>2 DEF Granted
  <2>. QED  BY <1>1, <2>1, <2>3, ClearedLemma, PutDownLemma
<1>5. CASE pc[p] = "counting"
  <2>1. Left(p) = Counted(id[p])
    BY <1>5 DEF Left
  <2>2. Left(p).s = Table.s /\ Left(p).meals = Table.meals
    BY <1>1, <2>1, CountedLemma, TypedFacts
  <2>3. NotAllWait => NotAllWaitAt(Left(p), numPhilosophers)
    BY <2>2, TypedFacts DEF NotAllWaitAt
  <2>. QED  BY <1>1, <2>1, <2>3, CountedLemma
<1>. QED  BY <1>2, <1>3, <1>4, <1>5 DEF Inside

(* A philosopher's step: it stays out of MUTEX, goes in, or comes out.     *)
To(p, q) == pc' = [pc EXCEPT ![p] = q]
StaysOut(p) ==
  /\ pc[p] \notin {"none", "dead", "lost"} /\ ~Inside(p)
  /\ \E q \in Places \ {"none", "taking", "looking", "putting", "counting"} : To(p, q)
  /\ UNCHANGED tableVars
  /\ UNCHANGED sem \/ SemWait(id[p])
GoesIn(p) ==
  /\ pc[p] \in {"thinking", "look", "eating", "count"}
  /\ \E q \in {"taking", "looking", "putting", "counting"} : To(p, q)
  /\ UNCHANGED tableVars /\ SemWait(MUTEX)
ComesOut(p) ==
  /\ Inside(p) /\ \E q \in {"forks", "eating", "count", "thinking"} : To(p, q)
  /\ Leave(Left(p))
LEMMA LeavesAt ==
    ASSUME NEW p \in Pids, NEW q \in {"forks", "eating", "count", "thinking"},
           pc' = [pc EXCEPT ![p] = q],
           \/ pc[p] = "taking" /\ Leave(TestAt(Asking(id[p]), id[p]))
           \/ pc[p] = "looking" /\ Leave(Table)
           \/ pc[p] = "putting" /\ Leave(PutDown(id[p]))
           \/ pc[p] = "counting" /\ Leave(Counted(id[p]))
    PROVE  ComesOut(p)
<1>1. Inside(p) /\ To(p, q)
  BY DEF Inside, To
<1>2. /\ pc[p] = "taking" => Left(p) = TestAt(Asking(id[p]), id[p])
      /\ pc[p] = "looking" => Left(p) = Table
      /\ pc[p] = "putting" => Left(p) = PutDown(id[p])
      /\ pc[p] = "counting" => Left(p) = Counted(id[p])
  BY DEF Left
<1>. QED  BY <1>1, <1>2 DEF ComesOut
LEMMA PhilosopherSteps ==
    ASSUME NEW p \in Pids, Philosopher(p)
    PROVE  /\ StaysOut(p) \/ GoesIn(p) \/ ComesOut(p)
           /\ UNCHANGED <<pidVars, id, mainVars>>
<1>1. UNCHANGED <<pidVars, id, mainVars>>
  BY DEF Philosopher
<1>2. ASSUME Begin(p) PROVE StaysOut(p)
  BY <1>2 DEF Begin, Goto, StaysOut, To, Inside, Places
<1>3. ASSUME AwaitForks(p) PROVE StaysOut(p)
  BY <1>3 DEF AwaitForks, Goto, StaysOut, To, Inside, Places
<1>4. ASSUME NEW from \in {"thinking", "look", "eating", "count"},
             NEW to \in {"taking", "looking", "putting", "counting"}, Enter(p, from, to)
      PROVE  GoesIn(p)
  BY <1>4 DEF Enter, Goto, GoesIn, To
<1>5. ASSUME Take(p) PROVE ComesOut(p)
  <2>1. Leave(TestAt(Asking(id[p]), id[p])) /\ Goto(p, "taking", "forks")
    BY <1>5 DEF Take, Asking
  <2>. QED  BY <2>1, LeavesAt DEF Goto
<1>6. ASSUME PrintTable(p) PROVE ComesOut(p)
  BY <1>6, LeavesAt DEF PrintTable, Goto
<1>7. ASSUME Put(p) PROVE ComesOut(p)
  <2>1. Leave(PutDown(id[p])) /\ Goto(p, "putting", "count")
    BY <1>7 DEF Put, PutDown, Cleared, Down
  <2>. QED  BY <2>1, LeavesAt DEF Goto
<1>8. ASSUME Count(p) PROVE ComesOut(p)
  <2>1. Leave(Counted(id[p])) /\ Goto(p, "counting", "thinking")
    BY <1>8 DEF Count, Counted
  <2>. QED  BY <2>1, LeavesAt DEF Goto
<1>. QED  BY <1>1, <1>2, <1>3, <1>4, <1>5, <1>6, <1>7, <1>8 DEF Philosopher

LEMMA PhilosopherKeeps ==
    ASSUME TableAssumption, ChangingInv, NEW p \in Pids, Philosopher(p)
    PROVE  ChangingInv'
<1>1. /\ StaysOut(p) \/ GoesIn(p) \/ ComesOut(p)
      /\ UNCHANGED <<numPhilosophers, id, main, i>>
  BY PhilosopherSteps DEF pidVars, mainVars
<1>2. Typed /\ Alone /\ NotAllWait /\ id[p] \in Ids
  BY DEF ChangingInv, Typed
<1>3. id[p] # MUTEX /\ MUTEX \in Ids \cup {MUTEX}
  BY <1>2, MutexIsNoSeat
<1>4. CASE StaysOut(p) \/ GoesIn(p)
  <2>1. UNCHANGED tableVars
    BY <1>4 DEF StaysOut, GoesIn
  <2>2. sem' \in [Ids \cup {MUTEX} -> Nat \cup {Closed}]
    BY <1>2, <1>3, <1>4, TypedFacts DEF StaysOut, GoesIn, SemWait, Closed
  <2>3. Table' \in Tables
    BY <1>2, <2>1, <2>2, TypedFacts DEF Table, Tables, tableVars
  <2>4. pc' \in [Pids -> Places]
    BY <1>2, <1>4 DEF StaysOut, GoesIn, To, Typed, Places
  <2>5. Typed'
    BY <1>1, <1>2, <2>3, <2>4 DEF Typed, Seats
  <2>6. NotAllWait'
    BY <1>1, <1>2, <2>1 DEF NotAllWait, tableVars
  <2>7. CASE StaysOut(p)
    <3>1. sem'[MUTEX] = sem[MUTEX]
      BY <1>2, <1>3, <2>7, TypedFacts DEF StaysOut, SemWait
    <3>2. \A q \in Pids : Inside(q)' => Inside(q)
      BY <1>2, <2>7 DEF StaysOut, To, Inside, Typed
    <3>3. sem[MUTEX] # Closed
      BY <1>2, <2>7 DEF StaysOut, Alone
    <3>4. Alone'
      BY <1>1, <1>2, <3>1, <3>2, <3>3 DEF Alone
    <3>. QED  BY <2>5, <2>6, <3>4 DEF ChangingInv
  <2>8. CASE GoesIn(p)
    <3>1. sem[MUTEX] = 1
      BY <1>2, <2>8 DEF GoesIn, SemWait, Alone
    <3>2. sem'[MUTEX] = 0
      BY <1>2, <1>3, <2>8, <3>1, TypedFacts DEF GoesIn, SemWait, Closed
    <3>3. main \notin {"a", "r"} /\ \A q \in Pids : ~Inside(q)
      BY <1>2, <3>1 DEF Alone
    <3>4. \A q \in Pids : q # p => pc'[q] = pc[q]
      BY <1>2, <2>8 DEF GoesIn, To, Typed
    <3>5. \A q \in Pids : Inside(q)' => q = p
      BY <3>3, <3>4 DEF Inside
    <3>6. Alone'
      BY <1>1, <3>2, <3>3, <3>5 DEF Alone, Closed
    <3>. QED  BY <2>5, <2>6, <3>6 DEF ChangingInv
  <2>. QED  BY <1>4, <2>7, <2>8
<1>5. CASE ComesOut(p)
  <2>1. Inside(p) /\ Leave(Left(p))
    BY <1>5 DEF ComesOut
  <2>2. /\ Left(p) \in Tables /\ Left(p).sems[MUTEX] = sem[MUTEX]
        /\ NotAllWaitAt(Left(p), numPhilosophers)
    BY <1>2, <2>1, LeftLemma
  <2>3. /\ Table' \in Tables /\ NotAllWaitAt(Table', numPhilosophers)
        /\ sem'[MUTEX] = IF sem[MUTEX] = Closed THEN Closed ELSE sem[MUTEX] + 1
    BY <2>1, <2>2, LeaveLemma
  <2>4. pc' \in [Pids -> Places]
    BY <1>2, <1>5 DEF ComesOut, To, Typed, Places
  <2>5. Typed'
    BY <1>1, <1>2, <2>3, <2>4 DEF Typed, Seats
  <2>6. NotAllWait'
    BY <1>1, <2>3 DEF NotAllWait, NotAllWaitAt, Table
  <2>7. sem[MUTEX] = 0 /\ main \notin {"a", "r"} /\ \A q \in Pids : Inside(q) => q = p
    BY <1>2, <2>1 DEF Alone
  <2>8. sem'[MUTEX] = 1
    BY <2>3, <2>7 DEF Closed
  <2>9. \A q \in Pids : ~Inside(q)'
    BY <1>2, <1>5, <2>7 DEF ComesOut, To, Inside, Typed
  <2>10. Alone'
    BY <1>1, <2>7, <2>8, <2>9 DEF Alone, Closed
  <2>. QED  BY <2>5, <2>6, <2>10 DEF ChangingInv
<1>. QED  BY <1>1, <1>4, <1>5

(* phylo's own steps: no philosopher goes in, and what MUTEX becomes.      *)
LEMMA MainKeepsAlone ==
    ASSUME Alone, main \notin {"a", "r"},
           main' \notin {"a", "r"}, sem'[MUTEX] \in {0, 1},
           sem'[MUTEX] = sem[MUTEX] \/ (sem[MUTEX] = Closed /\ sem'[MUTEX] = 1),
           \A p \in Pids : pc'[p] = pc[p] \/ (sem[MUTEX] # Closed /\ ~Inside(p)')
    PROVE  Alone'
<1>1. sem'[MUTEX] # Closed
  BY DEF Closed
<1>2. \A p \in Pids : Inside(p)' => Inside(p)
  BY DEF Inside
<1>3. \A p \in Pids : Inside(p) => sem[MUTEX] # Closed
  BY DEF Alone, Inside
<1>4. \A p \in Pids : Inside(p)' => sem'[MUTEX] = 0
  BY <1>2, <1>3 DEF Alone
<1>5. \A p, q \in Pids : Inside(p)' /\ Inside(q)' => p = q
  BY <1>2 DEF Alone
<1>. QED  BY <1>1, <1>4, <1>5 DEF Alone

LEMMA MainLeaves ==
    ASSUME TableAssumption, ChangingInv, NEW t \in Tables, Leave(t),
           main \in {"a", "r"}, main' = "input", t.sems[MUTEX] = sem[MUTEX],
           \A p \in Pids : Inside(p)' => Inside(p)
    PROVE  Alone' /\ Table' \in Tables
<1>1. sem[MUTEX] = 0 /\ \A p \in Pids : ~Inside(p)
  BY DEF ChangingInv, Alone
<1>2. sem'[MUTEX] = 1
  BY <1>1, LeaveLemma DEF Closed
<1>3. \A p \in Pids : ~Inside(p)'
  BY <1>1
<1>. QED  BY <1>2, <1>3, LeaveLemma DEF Alone, Closed

LEMMA SpawnLemma ==
    ASSUME Typed, NEW j \in Ids, Spawn(j)
    PROVE  /\ id' \in [Pids -> Ids] /\ pc' \in [Pids -> Places]
           /\ \E p \in Pids : /\ pc[p] = "none" /\ pc'[p] = "begin" /\ id'[p] = j
                              /\ \A q \in Pids : q # p => pc'[q] = pc[q] /\ id'[q] = id[q]
           /\ \A p \in Pids : pc'[p] = pc[p] \/ ~Inside(p)'
<1>1. PICK p \in Pids : /\ pc[p] = "none" /\ pc' = [pc EXCEPT ![p] = "begin"]
                        /\ id' = [id EXCEPT ![p] = j]
  BY DEF Spawn
<1>2. id' \in [Pids -> Ids] /\ pc' \in [Pids -> Places]
  BY <1>1 DEF Typed, Places
<1>3. /\ pc'[p] = "begin" /\ id'[p] = j
      /\ \A q \in Pids : q # p => pc'[q] = pc[q] /\ id'[q] = id[q]
  BY <1>1 DEF Typed
<1>4. \A q \in Pids : pc'[q] = pc[q] \/ ~Inside(q)'
  BY <1>3 DEF Inside
<1>. QED  BY <1>1, <1>2, <1>3, <1>4

LEMMA NextSeat ==
    ASSUME TableAssumption, Typed
    PROVE  (i + 1) % numPhilosophers \in Seats
<1>1. i \in Nat
  BY DEF Typed, Seats
<1>. QED  BY <1>1, TypedFacts, Turn DEF Seats

LEMMA InitPhilosophersKeeps ==
    ASSUME TableAssumption, ChangingInv, InitPhilosophers
    PROVE  ChangingInv'
<1>. DEFINE seats == 0 .. numPhilosophers - 1
<1>0. Typed /\ Alone
  BY DEF ChangingInv
<1>1. /\ states' = Reset(states, seats, "THINKING")
      /\ consecutiveMeals' = Reset(consecutiveMeals, seats, 0)
      /\ hungerTime' = Reset(hungerTime, seats, 0)
      /\ main = "start" /\ main' = "spawn" /\ i' = 0
      /\ UNCHANGED <<numPhilosophers, id, pc>>
      /\ sem' = [s \in DOMAIN sem |-> IF s \notin seats \cup {MUTEX} THEN sem[s]
                   ELSE SemOpen(sem, s, IF s = MUTEX THEN 1 ELSE 0)[s]]
  BY DEF InitPhilosophers
<1>2. \A s \in DOMAIN sem, v \in {0, 1} :
        SemOpen(sem, s, v)[s] = IF sem[s] = Closed THEN v ELSE sem[s]
  BY DEF SemOpen
<1>3. /\ sem' \in [Ids \cup {MUTEX} -> Nat \cup {Closed}]
      /\ sem'[MUTEX] = IF sem[MUTEX] = Closed THEN 1 ELSE sem[MUTEX]
  <2>1. sem \in [Ids \cup {MUTEX} -> Nat \cup {Closed}]
    BY <1>0, TypedFacts
  <2>. HIDE DEF seats
  <2>2. sem'[MUTEX] = IF sem[MUTEX] = Closed THEN 1 ELSE sem[MUTEX]
    BY <1>1, <1>2, <2>1
  <2>3. ASSUME NEW s \in Ids \cup {MUTEX} PROVE sem'[s] \in Nat \cup {Closed}
    BY <1>1, <1>2, <2>1
  <2>. QED  BY <1>1, <2>1, <2>2, <2>3
<1>4. /\ states' \in [Ids -> Moods] /\ consecutiveMeals' \in [Ids -> 0 .. MAX_CONSECUTIVE_MEALS]
      /\ hungerTime' \in [Ids -> 0 .. HUNGER_THRESHOLD + 1]
  <2>. HIDE DEF seats
  <2>. QED  BY <1>0, <1>1, TypedFacts DEF Reset, Moods, TableAssumption
<1>5. Table' \in Tables
  BY <1>3, <1>4, TableOf DEF Table
<1>6. 0 \in Seats /\ 0 \in Ids
  BY <1>0, TypedFacts DEF Seats
<1>7. states'[0] # "HUNGRY"
  BY <1>0, <1>1, <1>6, TypedFacts DEF Reset, Seats
<1>8. NotAllWait'
  BY <1>1, <1>6, <1>7 DEF NotAllWait, Seats
<1>9. Typed'
  BY <1>0, <1>1, <1>5, <1>6 DEF Typed, Seats
<1>10. Alone'
  <2>1. sem'[MUTEX] \in {0, 1}
        /\ (sem'[MUTEX] = sem[MUTEX] \/ (sem[MUTEX] = Closed /\ sem'[MUTEX] = 1))
    BY <1>0, <1>3 DEF Alone
  <2>. QED  BY <1>0, <1>1, <2>1, MainKeepsAlone
<1>. QED  BY <1>8, <1>9, <1>10 DEF ChangingInv

LEMMA SpawnNextKeeps ==
    ASSUME TableAssumption, ChangingInv, SpawnNext
    PROVE  ChangingInv'
<1>0. Typed /\ Alone /\ NotAllWait /\ i \in Ids
  BY TypedFacts DEF ChangingInv, Typed
<1>1. /\ main = "spawn" /\ Spawn(i) /\ i' = (i + 1) % numPhilosophers
      /\ main' \in {"input", "spawn"} /\ (main' = "input" => i' = 0)
      /\ UNCHANGED <<tableVars, numPhilosophers, sem>>
  BY DEF SpawnNext
<1>2. Typed'
  BY <1>0, <1>1, SpawnLemma, NextSeat DEF Typed, Table, tableVars, Seats
<1>3. NotAllWait'
  BY <1>0, <1>1 DEF NotAllWait, tableVars
<1>4. Alone'
  <2>1. sem'[MUTEX] = sem[MUTEX] /\ sem[MUTEX] \in {0, 1} /\ sem[MUTEX] # Closed
    BY <1>0, <1>1 DEF Alone, Closed
  <2>. QED  BY <1>0, <1>1, <2>1, SpawnLemma, MainKeepsAlone
<1>. QED  BY <1>2, <1>3, <1>4 DEF ChangingInv

LEMMA GetCharKeeps ==
    ASSUME TableAssumption, ChangingInv, NEW key \in Inputs, GetChar(key)
    PROVE  ChangingInv'
<1>0. Typed /\ Alone /\ NotAllWait
  BY DEF ChangingInv
<1>1. /\ main = "input" /\ main' = key /\ key \in {"a", "r", "q"}
      /\ UNCHANGED <<tableVars, numPhilosophers, id, pc, i>>
  BY DEF GetChar, TableAssumption, pidVars
<1>2. IF key = "q" THEN UNCHANGED sem
      ELSE sem[MUTEX] = 1 /\ sem' = [sem EXCEPT ![MUTEX] = 0]
  BY <1>0, <1>1 DEF GetChar, SemWait, Alone, Closed
<1>3. sem' \in [Ids \cup {MUTEX} -> Nat \cup {Closed}]
      /\ sem'[MUTEX] = IF key = "q" THEN sem[MUTEX] ELSE 0
  BY <1>0, <1>2, TypedFacts
<1>4. Table' \in Tables
  BY <1>0, <1>1, <1>3, TypedFacts, TableOf DEF Table, tableVars
<1>5. Typed'
  BY <1>0, <1>1, <1>4 DEF Typed, Seats
<1>6. NotAllWait'
  BY <1>0, <1>1 DEF NotAllWait, tableVars
<1>7. Alone'
  <2>1. CASE key = "q"
    BY <1>0, <1>1, <1>3, <2>1 DEF Alone, Inside
  <2>2. CASE key # "q"
    BY <1>0, <1>1, <1>2, <1>3, <2>2 DEF Alone, Inside, Closed
  <2>. QED  BY <2>1, <2>2
<1>. QED  BY <1>5, <1>6, <1>7 DEF ChangingInv

LEMMA RefuseKeeps ==
    ASSUME TableAssumption, ChangingInv, Refuse
    PROVE  ChangingInv'
<1>0. Typed /\ Alone /\ NotAllWait /\ Table \in Tables
  BY DEF ChangingInv, Typed
<1>1. /\ main \in {"a", "r"} /\ main' = "input" /\ Leave(Table)
      /\ UNCHANGED <<numPhilosophers, id, pc, i>>
  BY DEF Refuse, pidVars
<1>2. Alone' /\ Table' \in Tables
  BY <1>0, <1>1, MainLeaves, TypedFacts DEF Inside
<1>3. Typed'
  BY <1>0, <1>1, <1>2 DEF Typed, Seats
<1>4. NotAllWait'
  BY <1>0, <1>1, LeaveLemma, TypedFacts DEF NotAllWait
<1>. QED  BY <1>2, <1>3, <1>4 DEF ChangingInv

(* The table phylo leaves when it adds a seat, and when it takes one away. *)
Added ==
  [s |-> [states EXCEPT ![numPhilosophers] = "THINKING"],
   meals |-> [consecutiveMeals EXCEPT ![numPhilosophers] = 0],
   hunger |-> [hungerTime EXCEPT ![numPhilosophers] = 0],
   sems |-> SemOpen(sem, numPhilosophers, 0)]
LEMMA AddedLemma ==
    ASSUME TableAssumption, Typed, numPhilosophers < MAX_PHILOSOPHERS
    PROVE  /\ numPhilosophers \in Ids /\ Added \in Tables
           /\ Added.sems[MUTEX] = sem[MUTEX]
           /\ Added.s[numPhilosophers] = "THINKING"
           /\ \A k \in Ids \ {numPhilosophers} :
                /\ Added.s[k] = states[k] /\ Added.meals[k] = consecutiveMeals[k]
                /\ Added.sems[k] = sem[k]
           /\ Added.sems[numPhilosophers]
                = IF sem[numPhilosophers] = Closed THEN 0 ELSE sem[numPhilosophers]
<1>1. numPhilosophers \in Ids
  BY DEF Typed, TableAssumption, Ids
<1>2. /\ [states EXCEPT ![numPhilosophers] = "THINKING"] \in [Ids -> Moods]
      /\ [consecutiveMeals EXCEPT ![numPhilosophers] = 0]
           \in [Ids -> 0 .. MAX_CONSECUTIVE_MEALS]
      /\ [hungerTime EXCEPT ![numPhilosophers] = 0] \in [Ids -> 0 .. HUNGER_THRESHOLD + 1]
  <2>1. "THINKING" \in Moods /\ 0 \in 0 .. MAX_CONSECUTIVE_MEALS /\ 0 \in 0 .. HUNGER_THRESHOLD + 1
    BY DEF Moods, TableAssumption
  <2>2. /\ states \in [Ids -> Moods] /\ consecutiveMeals \in [Ids -> 0 .. MAX_CONSECUTIVE_MEALS]
        /\ hungerTime \in [Ids -> 0 .. HUNGER_THRESHOLD + 1]
    BY TypedFacts
  <2>. QED  BY <2>1, <2>2, Zenon
<1>3. /\ SemOpen(sem, numPhilosophers, 0) \in [Ids \cup {MUTEX} -> Nat \cup {Closed}]
      /\ SemOpen(sem, numPhilosophers, 0)[MUTEX] = sem[MUTEX]
      /\ \A k \in Ids \ {numPhilosophers} : SemOpen(sem, numPhilosophers, 0)[k] = sem[k]
      /\ SemOpen(sem, numPhilosophers, 0)[numPhilosophers]
           = IF sem[numPhilosophers] = Closed THEN 0 ELSE sem[numPhilosophers]
  BY <1>1, MutexIsNoSeat, TypedFacts DEF SemOpen
<1>4. Added \in Tables
  BY <1>2, <1>3, TableOf DEF Added
<1>5. /\ Added.s = [states EXCEPT ![numPhilosophers] = "THINKING"]
      /\ Added.meals = [consecutiveMeals EXCEPT ![numPhilosophers] = 0]
      /\ Added.sems = SemOpen(sem, numPhilosophers, 0)
  BY DEF Added
<1>. QED  BY <1>1, <1>3, <1>4, <1>5, TypedFacts

LEMMA AddKeeps ==
    ASSUME TableAssumption, ChangingInv, Add
    PROVE  ChangingInv'
<1>0. Typed /\ Alone
  BY DEF ChangingInv
<1>1. /\ main = "a" /\ main' = "input" /\ numPhilosophers < MAX_PHILOSOPHERS
      /\ Leave(Added) /\ Spawn(numPhilosophers) /\ numPhilosophers' = numPhilosophers + 1
      /\ UNCHANGED i
  BY DEF Add, Added
<1>2. numPhilosophers \in Ids /\ Added \in Tables /\ Added.sems[MUTEX] = sem[MUTEX]
  BY <1>0, <1>1, AddedLemma
<1>3. \A p \in Pids : Inside(p)' => Inside(p)
  BY <1>0, <1>1, <1>2, SpawnLemma DEF Inside
<1>4. Alone' /\ Table' \in Tables
  BY <1>1, <1>2, <1>3, MainLeaves
<1>5. numPhilosophers' \in MIN_PHILOSOPHERS .. MAX_PHILOSOPHERS /\ i = 0 /\ i \in Seats'
  BY <1>0, <1>1 DEF Typed, TableAssumption, Seats
<1>6. Typed'
  BY <1>0, <1>1, <1>2, <1>4, <1>5, SpawnLemma DEF Typed
<1>7. states'[numPhilosophers] = "THINKING"
  BY <1>0, <1>1, <1>2, LeaveLemma, AddedLemma
<1>8. numPhilosophers \in 0 .. numPhilosophers' - 1
  BY <1>0, <1>1, TypedFacts
<1>9. NotAllWait'
  BY <1>7, <1>8 DEF NotAllWait
<1>. QED  BY <1>4, <1>6, <1>9 DEF ChangingInv

KeptFrom(gone) ==
  [s |-> states, meals |-> [consecutiveMeals EXCEPT ![gone] = 0],
   hunger |-> [hungerTime EXCEPT ![gone] = 0], sems |-> [sem EXCEPT ![gone] = Closed]]
At(t, j, n) == Test(t, j, (j + n - 1) % n, (j + 1) % n)
LEMMA AtLemma ==
    ASSUME TableAssumption, NEW n \in 2 .. MAX_PHILOSOPHERS, NEW t \in Tables,
           NEW j \in 0 .. n - 1
    PROVE  /\ Granted(t, At(t, j, n)) /\ At(t, j, n) \in Tables
           /\ At(t, j, n).s[j] = "HUNGRY"
                => \/ \E k \in 0 .. n - 1 : t.s[k] = "EATING"
                   \/ t.meals[j] = MAX_CONSECUTIVE_MEALS
<1>1. n \in Nat \ {0, 1} /\ j \in Nat /\ 0 .. n - 1 \subseteq Ids
  BY DEF Ids, TableAssumption
<1>2. (j + n - 1) % n \in 0 .. n - 1 /\ (j + 1) % n \in 0 .. n - 1
  BY <1>1, Turn
<1>. DEFINE l == (j + n - 1) % n
            r == (j + 1) % n
<1>3. l \in 0 .. n - 1 /\ r \in 0 .. n - 1 /\ At(t, j, n) = Test(t, j, l, r)
  BY <1>2 DEF At
<1>. HIDE DEF l, r
<1>4. /\ Granted(t, Test(t, j, l, r))
      /\ Test(t, j, l, r).s[j] = "HUNGRY"
           => \/ t.s[l] = "EATING" \/ t.s[r] = "EATING"
              \/ t.meals[j] = MAX_CONSECUTIVE_MEALS
  BY <1>1, <1>3, TestGrants
<1>. QED  BY <1>3, <1>4 DEF Granted

LEMMA KilledLemma ==
    ASSUME NEW pcs \in [Pids -> Places], NEW pid
    PROVE  /\ Killed(pcs, pid) \in [Pids -> Places]
           /\ \A p \in Pids : Killed(pcs, pid)[p] \in {pcs[p], "dead"}
           /\ \A p \in Pids : pcs[p] = "none" => Killed(pcs, pid)[p] = "none"
BY DEF Killed, Places

LEMMA CloseLemma ==
    ASSUME NEW j, NEW pcs \in SemClose(j), Typed
    PROVE  /\ pcs \in [Pids -> Places]
           /\ \A p \in Pids : pcs[p] \in {pc[p], "lost", "look"}
           /\ \A p \in Pids : pc[p] = "none" => pcs[p] = "none"
<1>1. PICK fate \in {"lost", "look"} :
        pcs = [p \in Pids |-> IF pc[p] = "asleep" /\ id[p] = j THEN fate ELSE pc[p]]
  BY DEF SemClose
<1>. QED  BY <1>1 DEF Typed, Places

LEMMA RemoveKeeps ==
    ASSUME TableAssumption, ChangingInv, Remove
    PROVE  ChangingInv'
<1>. DEFINE gone == numPhilosophers - 1
            left == (gone + gone - 1) % gone
            right == (gone + 1) % gone
            closed == KeptFrom(gone)
            tested == IF left = right THEN At(closed, left, gone)
                      ELSE At(At(closed, left, gone), right, gone)
<1>0. Typed /\ Alone /\ NotAllWait
  BY DEF ChangingInv
<1>1. /\ main = "r" /\ main' = "input" /\ numPhilosophers > MIN_PHILOSOPHERS
      /\ numPhilosophers' = gone /\ UNCHANGED <<id, i>> /\ Leave(tested)
  BY DEF Remove, At, KeptFrom
<1>2. PICK pcs \in SemClose(gone), pid \in PidRead : pc' = Killed(pcs, pid)
  BY DEF Remove
<1>3. pc' \in [Pids -> Places] /\ \A p \in Pids : pc'[p] \in {pc[p], "lost", "look", "dead"}
  BY <1>0, <1>2, CloseLemma, KilledLemma
<1>4. gone \in Ids /\ gone \in 2 .. MAX_PHILOSOPHERS /\ gone \in Nat /\ numPhilosophers = gone + 1
      /\ gone \in MIN_PHILOSOPHERS .. MAX_PHILOSOPHERS
  BY <1>0, <1>1 DEF Typed, TableAssumption, Ids
<1>. HIDE DEF gone
<1>5. left = gone - 1 /\ left \in 0 .. gone - 1 /\ right \in 0 .. gone - 1
  <2>1. gone \in Nat \ {0, 1} /\ gone - 1 \in 0 .. gone - 1
    BY <1>4
  <2>2. gone + gone - 1 = (gone - 1) + gone
    BY <1>4
  <2>3. \A x \in 0 .. gone - 1 : (x + gone) % gone = x
    BY <2>1
  <2>4. right \in 0 .. gone - 1
    BY <2>1, Turn
  <2>. QED  BY <2>1, <2>2, <2>3, <2>4
<1>6. closed \in Tables /\ closed.sems[MUTEX] = sem[MUTEX] /\ closed.s = states
      /\ closed.meals = [consecutiveMeals EXCEPT ![gone] = 0]
  <2>1. /\ [consecutiveMeals EXCEPT ![gone] = 0] \in [Ids -> 0 .. MAX_CONSECUTIVE_MEALS]
        /\ [hungerTime EXCEPT ![gone] = 0] \in [Ids -> 0 .. HUNGER_THRESHOLD + 1]
    BY <1>0, <1>4, TypedFacts DEF TableAssumption
  <2>2. /\ [sem EXCEPT ![gone] = Closed] \in [Ids \cup {MUTEX} -> Nat \cup {Closed}]
        /\ [sem EXCEPT ![gone] = Closed][MUTEX] = sem[MUTEX]
    BY <1>0, <1>4, MutexIsNoSeat, TypedFacts
  <2>3. states \in [Ids -> Moods]
    BY <1>0, TypedFacts
  <2>4. closed \in Tables
    BY <2>1, <2>2, <2>3, TableOf DEF KeptFrom
  <2>. QED  BY <2>2, <2>4 DEF KeptFrom
<1>. HIDE DEF closed, left, right
<1>. DEFINE first == At(closed, left, gone)
<1>7. /\ Granted(closed, first) /\ first \in Tables
      /\ first.s[left] = "HUNGRY" => \/ \E k \in 0 .. gone - 1 : closed.s[k] = "EATING"
                                     \/ closed.meals[left] = MAX_CONSECUTIVE_MEALS
  BY <1>4, <1>5, <1>6, AtLemma
<1>8. NotAllWaitAt(first, gone)
  <2>1. gone \in 0 .. MAX_PHILOSOPHERS
    BY <1>4
  <2>2. CASE NotAllWaitAt(closed, gone)
    <3>. HIDE DEF first
    <3>. QED  BY <1>7, <2>1, <2>2, GrantsFeed
  <2>3. CASE ~NotAllWaitAt(closed, gone)
    <3>1. first.s[left] # "HUNGRY"
      BY <1>5, <1>7, <2>3 DEF NotAllWaitAt
    <3>. HIDE DEF first
    <3>. QED  BY <1>5, <3>1 DEF NotAllWaitAt
  <2>. QED  BY <2>2, <2>3
<1>. HIDE DEF first
<1>9. Granted(first, At(first, right, gone)) /\ At(first, right, gone) \in Tables
  BY <1>4, <1>5, <1>7, AtLemma
<1>10. /\ tested \in Tables /\ tested.sems[MUTEX] = sem[MUTEX]
       /\ NotAllWaitAt(tested, gone)
  <2>1. CASE left = right
    <3>1. tested = first
      BY <2>1 DEF first
    <3>. QED  BY <1>6, <1>7, <1>8, <3>1 DEF Granted
  <2>2. CASE left # right
    <3>1. tested = At(first, right, gone)
      BY <2>2 DEF first
    <3>2. gone \in 0 .. MAX_PHILOSOPHERS
      BY <1>4
    <3>. HIDE DEF tested
    <3>3. NotAllWaitAt(tested, gone)
      BY <1>8, <1>9, <3>1, <3>2, GrantsFeed
    <3>. QED  BY <1>6, <1>7, <1>9, <3>1, <3>3 DEF Granted
  <2>. QED  BY <2>1, <2>2
<1>. HIDE DEF tested
<1>11. \A p \in Pids : Inside(p)' => Inside(p)
  BY <1>3 DEF Inside
<1>12. Alone' /\ Table' \in Tables
  BY <1>1, <1>10, <1>11, MainLeaves
<1>13. i = 0 /\ i' = 0 /\ 0 \in Seats'
  BY <1>0, <1>1, <1>4 DEF Typed, Seats
<1>14. Typed'
  BY <1>0, <1>1, <1>3, <1>4, <1>12, <1>13 DEF Typed
<1>15. NotAllWait'
  <2>1. NotAllWaitAt(Table', gone)
    BY <1>1, <1>10, LeaveLemma
  <2>. QED  BY <1>1, <2>1 DEF NotAllWait, NotAllWaitAt, Table
<1>. QED  BY <1>12, <1>14, <1>15 DEF ChangingInv

LEMMA QuitKeeps ==
    ASSUME TableAssumption, ChangingInv, QuitClose \/ QuitKill
    PROVE  ChangingInv'
<1>0. Typed /\ Alone /\ NotAllWait /\ i \in Ids
  BY TypedFacts DEF ChangingInv, Typed
<1>1. /\ main \in {"q", "kill"} /\ main' \in {"start", "q", "kill"}
      /\ UNCHANGED <<tableVars, numPhilosophers, id>>
  BY DEF QuitClose, QuitKill, pidVars
<1>2. /\ sem' \in [Ids \cup {MUTEX} -> Nat \cup {Closed}] /\ sem'[MUTEX] = sem[MUTEX]
  BY <1>0, MutexIsNoSeat, TypedFacts DEF QuitClose, QuitKill
<1>3. i' \in Seats /\ (main' = "start" => i' = 0)
  <2>1. i \in Seats /\ (i + 1) % numPhilosophers \in Seats
    BY <1>0, NextSeat DEF Typed
  <2>. QED  BY <2>1 DEF QuitClose, QuitKill
<1>4. pc' \in [Pids -> Places] /\ \A p \in Pids : pc'[p] \in {pc[p], "lost", "look", "dead"}
  <2>1. CASE QuitClose
    BY <1>0, <2>1, CloseLemma DEF QuitClose
  <2>2. CASE QuitKill
    BY <1>0, <2>2, KilledLemma DEF QuitKill, Typed
  <2>. QED  BY <2>1, <2>2
<1>5. Table' \in Tables
  BY <1>0, <1>1, <1>2, TypedFacts, TableOf DEF Table, tableVars
<1>6. Typed'
  BY <1>0, <1>1, <1>3, <1>4, <1>5 DEF Typed, Seats
<1>7. NotAllWait'
  BY <1>0, <1>1 DEF NotAllWait, tableVars
<1>8. Alone'
  <2>1. sem'[MUTEX] \in {0, 1} /\ sem[MUTEX] # Closed
    BY <1>0, <1>1, <1>2 DEF Alone, Closed
  <2>2. \A p \in Pids : pc'[p] = pc[p] \/ ~Inside(p)'
    BY <1>4 DEF Inside
  <2>. QED  BY <1>0, <1>1, <1>2, <2>1, <2>2, MainKeepsAlone
<1>. QED  BY <1>6, <1>7, <1>8 DEF ChangingInv

LEMMA ChangingInit == ASSUME TableAssumption, Init PROVE ChangingInv
<1>1. Table \in Tables
  <2>1. "THINKING" \in Moods /\ 0 \in 0 .. MAX_CONSECUTIVE_MEALS /\ 0 \in 0 .. HUNGER_THRESHOLD + 1
    BY DEF Moods, TableAssumption
  <2>2. /\ states \in [Ids -> Moods] /\ consecutiveMeals \in [Ids -> 0 .. MAX_CONSECUTIVE_MEALS]
        /\ hungerTime \in [Ids -> 0 .. HUNGER_THRESHOLD + 1]
        /\ sem \in [Ids \cup {MUTEX} -> Nat \cup {Closed}]
    BY <2>1, Zenon DEF Init
  <2>. QED  BY <2>2, TableOf DEF Table
<1>2. 0 \in Seats /\ 0 \in Ids /\ numPhilosophers \in MIN_PHILOSOPHERS .. MAX_PHILOSOPHERS
  BY DEF Init, TableAssumption, Seats, Ids
<1>3. Typed
  BY <1>1, <1>2 DEF Init, Typed, Places
<1>4. Alone
  BY DEF Init, Alone, Inside, Closed
<1>5. NotAllWait
  BY <1>2 DEF Init, NotAllWait, Seats
<1>. QED  BY <1>3, <1>4, <1>5 DEF ChangingInv

LEMMA ChangingStep == ASSUME TableAssumption, ChangingInv, [Next]_vars PROVE ChangingInv'
<1>1. CASE UNCHANGED vars
  <2>1. UNCHANGED <<states, consecutiveMeals, hungerTime, numPhilosophers, sem, id, pc, main, i>>
    BY <1>1 DEF vars, tableVars, pidVars, mainVars
  <2>. QED  BY <2>1 DEF ChangingInv, Typed, Alone, NotAllWait, Table, Inside, Seats
<1>2. CASE Next
  BY <1>2, PhilosopherKeeps, InitPhilosophersKeeps, SpawnNextKeeps, GetCharKeeps, RefuseKeeps,
     AddKeeps, RemoveKeeps, QuitKeeps DEF Next
<1>. QED  BY <1>1, <1>2

LEMMA AloneCounts ==
    ASSUME TableAssumption, Alone
    PROVE  MutexExclusive
<1>. DEFINE inside == {p \in Pids : pc[p] \in {"taking", "looking", "putting", "counting"}}
<1>1. inside \subseteq Pids /\ \A p \in inside : Inside(p)
  BY DEF Inside
<1>. HIDE DEF inside
<1>2. CASE inside = {}
  <2>1. Cardinality(inside) = 0
    BY <1>2, FS_EmptySet
  <2>2. (IF main \in {"a", "r"} THEN 1 ELSE 0) + sem[MUTEX] <= 1
    BY DEF Alone, Closed
  <2>3. sem[MUTEX] \in Int
    BY DEF Alone, Closed
  <2>. QED  BY <2>1, <2>2, <2>3 DEF MutexExclusive, inside
<1>3. CASE inside # {}
  <2>1. PICK p \in inside : TRUE
    BY <1>3
  <2>2. sem[MUTEX] = 0 /\ main \notin {"a", "r"} /\ \A q \in inside : q = p
    BY <1>1, <2>1 DEF Alone
  <2>3. inside = {p}
    BY <2>1, <2>2
  <2>4. Cardinality(inside) = 1
    BY <2>3, FS_Singleton
  <2>. QED  BY <2>2, <2>4 DEF MutexExclusive, inside
<1>. QED  BY <1>2, <1>3

(* Whatever keys are pressed, however often the command is run and         *)
(* whoever is killed inside it: phylo and the philosophers are inside the  *)
(* critical sections of MUTEX one at a time, and it is not free meanwhile. *)
THEOREM MutexHolds == TableAssumption => (Spec => []MutexExclusive)
<1>. SUFFICES ASSUME TableAssumption PROVE Spec => []MutexExclusive
  OBVIOUS
<1>1. Init => ChangingInv
  BY ChangingInit
<1>2. ChangingInv /\ [Next]_vars => ChangingInv'
  BY ChangingStep
<1>3. ChangingInv => MutexExclusive
  BY AloneCounts DEF ChangingInv
<1>. HIDE DEF ChangingInv, Init, Next, vars, MutexExclusive
<1>. QED  BY <1>1, <1>2, <1>3, PTL DEF Spec

-----------------------------------------------------------------------------
(* While philosophers only come                                            *)

LEMMA GrantsFit ==
    ASSUME Typed, NEW t, NEW u, NEW places, Granted(t, u), Matched(t, places)
    PROVE  Matched(u, places)
<1>1. \A p \in Pids : id[p] \in Ids
  BY DEF Typed
<1>2. ASSUME NEW p \in Pids PROVE Fits(u, places[p], id[p])
  <2>1. Fits(t, places[p], id[p]) /\ id[p] \in Ids
    BY <1>1 DEF Matched
  <2>2. t.s[id[p]] = "HUNGRY" => t.sems[id[p]] = 0
    BY <1>1 DEF Matched
  <2>. QED  BY <2>1, <2>2 DEF Granted, Fits, Closed
<1>3. \A j \in Ids : t.s[j] = "HUNGRY" => t.sems[j] = 0
  BY DEF Matched
<1>4. \A j \in Ids : u.s[j] = "HUNGRY" => u.sems[j] = 0
  BY <1>3 DEF Granted
<1>5. \A j \in Ids : u.sems[j] \in {Closed, 0, 1}
  BY <1>3 DEF Granted, Matched, Closed
<1>6. ASSUME NEW j \in Ids, j >= indexPids
      PROVE  u.s[j] = t.s[j] /\ u.sems[j] = t.sems[j]
  BY <1>6 DEF Granted, Matched
<1>. QED  BY <1>2, <1>4, <1>5, <1>6 DEF Matched

LEMMA GrantsKeepFed ==
    ASSUME TableAssumption, Typed, NEW t, NEW u, Granted(t, u), NEW j \in Seats, Fed(t, j)
    PROVE  Fed(u, j)
<1>1. j \in Ids /\ LEFT(j) \in Ids /\ RIGHT(j) \in Ids
  BY TypedFacts
<1>2. \A k \in Ids : t.s[k] = "EATING" => u.s[k] = "EATING"
  BY DEF Granted
<1>3. u.s[j] = "HUNGRY" => t.s[j] = "HUNGRY" /\ u.meals[j] = t.meals[j]
  BY <1>1 DEF Granted
<1>. QED  BY <1>1, <1>2, <1>3 DEF Fed

LEMMA TestFeeds ==
    ASSUME TableAssumption, Typed, NEW t \in Tables, NEW j \in Seats
    PROVE  Fed(TestAt(t, j), j) /\ (Apart(t) => Apart(TestAt(t, j)))
<1>. DEFINE u == TestAt(t, j)
<1>1. j \in Ids /\ LEFT(j) \in Ids /\ RIGHT(j) \in Ids
  BY TypedFacts
<1>2. /\ Granted(t, u)
      /\ \A k \in Ids : u.s[k] # t.s[k]
           => k = j /\ t.s[LEFT(j)] # "EATING" /\ t.s[RIGHT(j)] # "EATING"
      /\ u.s[j] = "HUNGRY" => \/ t.s[LEFT(j)] = "EATING" \/ t.s[RIGHT(j)] = "EATING"
                              \/ t.meals[j] = MAX_CONSECUTIVE_MEALS
  BY <1>1, TestAtGrants
<1>. HIDE DEF u
<1>3. Fed(u, j)
  <2>1. \A k \in Ids : t.s[k] = "EATING" => u.s[k] = "EATING"
    BY <1>2 DEF Granted
  <2>2. u.s[j] = "HUNGRY" => u.meals[j] = t.meals[j]
    BY <1>1, <1>2 DEF Granted
  <2>. QED  BY <1>1, <1>2, <2>1, <2>2 DEF Fed
<1>4. ASSUME Apart(t) PROVE Apart(u)
  <2>1. SUFFICES ASSUME NEW k \in Seats, u.s[k] = "EATING"
                 PROVE  u.s[LEFT(k)] # "EATING" /\ u.s[RIGHT(k)] # "EATING"
    BY DEF Apart
  <2>2. /\ k \in Ids /\ LEFT(k) \in Ids /\ RIGHT(k) \in Ids
        /\ RIGHT(LEFT(k)) = k /\ LEFT(RIGHT(k)) = k /\ LEFT(j) # j /\ RIGHT(j) # j
    BY TypedFacts
  <2>3. t.s[k] = "EATING" => t.s[LEFT(k)] # "EATING" /\ t.s[RIGHT(k)] # "EATING"
    BY <1>4 DEF Apart
  <2>4. CASE u.s[j] = t.s[j]
    <3>1. \A x \in Ids : u.s[x] = t.s[x]
      BY <1>2, <2>4
    <3>. QED  BY <2>1, <2>2, <2>3, <3>1
  <2>5. CASE u.s[j] # t.s[j]
    <3>1. t.s[LEFT(j)] # "EATING" /\ t.s[RIGHT(j)] # "EATING" /\ \A x \in Ids : x # j => u.s[x] = t.s[x]
      BY <1>1, <1>2, <2>5
    <3>2. CASE k = j
      BY <1>1, <2>2, <3>1, <3>2
    <3>3. CASE k # j
      <4>1. t.s[k] = "EATING"
        BY <2>1, <2>2, <3>1, <3>3
      <4>2. LEFT(k) # j /\ RIGHT(k) # j
        BY <2>2, <3>1, <4>1
      <4>. QED  BY <2>2, <2>3, <3>1, <4>1, <4>2
    <3>. QED  BY <3>2, <3>3
  <2>. QED  BY <2>4, <2>5
<1>. QED  BY <1>3, <1>4 DEF u

(* What a table t has, the state has once t is left, as long as who sits   *)
(* where stays the same.                                                   *)
Frame == UNCHANGED <<numPhilosophers, pids, indexPids, id, main, i>>
Fine(t, places) == Matched(t, places) /\ Apart(t) /\ \A j \in Seats : Fed(t, j)
LEMMA FrameLemma ==
    ASSUME Frame, Fine(Table', pc')
    PROVE  Matched(Table, pc)' /\ Apart(Table)' /\ (\A j \in Seats : Fed(Table, j))'
<1>1. Matched(Table, pc)'
  BY DEF Frame, Fine, Matched
<1>2. Apart(Table)'
  BY DEF Frame, Fine, Apart, Seats, LEFT, RIGHT
<1>3. (\A j \in Seats : Fed(Table, j))'
  BY DEF Frame, Fine, Fed, Seats, LEFT, RIGHT
<1>. QED  BY <1>1, <1>2, <1>3

LEMMA SameTable ==
    ASSUME TableAssumption, Typed, NEW t, NEW u, NEW places, Fine(t, places),
           u.s = t.s, u.meals = t.meals, \A k \in Ids : u.sems[k] = t.sems[k]
    PROVE  Fine(u, places)
<1>1. \A p \in Pids : id[p] \in Ids
  BY DEF Typed
<1>2. ASSUME NEW p \in Pids PROVE Fits(u, places[p], id[p])
  <2>1. Fits(t, places[p], id[p]) /\ u.sems[id[p]] = t.sems[id[p]]
    BY <1>1 DEF Fine, Matched
  <2>. QED  BY <2>1 DEF Fits
<1>3. Matched(u, places)
  BY <1>2 DEF Fine, Matched
<1>. QED  BY <1>3 DEF Fine, Apart, Fed

LEMMA GoesOn ==
    ASSUME Typed, Seated, NEW p \in Pids, pc[p] # "none",
           NEW q \in Places \ {"none", "dead", "lost"}, pc' = [pc EXCEPT ![p] = q], Frame
    PROVE  Seated'
<1>1. \A r \in Pids : r # p => pc'[r] = pc[r]
  BY DEF Typed
<1>2. pc'[p] = q
  BY DEF Typed
<1>3. /\ \A r \in Pids : pc'[r] \notin {"dead", "lost"}
      /\ \A r \in Pids : pc'[r] # "none" <=> pc[r] # "none"
  BY <1>1, <1>2 DEF Seated
<1>. QED  BY <1>3 DEF Seated, Frame

(* Only p's own seat changes, and what p finds there fits where it goes.   *)
LEMMA OwnSeat ==
    ASSUME Typed, Seated, Matched(Table, pc), NEW p \in Pids, pc[p] # "none",
           NEW q, pc' = [pc EXCEPT ![p] = q], NEW t,
           \A k \in Ids \ {id[p]} : t.s[k] = states[k] /\ t.sems[k] = sem[k],
           Fits(t, q, id[p]), t.s[id[p]] = "HUNGRY" => t.sems[id[p]] = 0,
           t.sems[id[p]] \in {0, 1}
    PROVE  Matched(t, pc')
<1>1. id[p] \in Ids /\ id[p] < indexPids /\ Table.s = states /\ Table.sems = sem
  BY DEF Typed, Seated, Table
<1>2. ASSUME NEW r \in Pids PROVE Fits(t, pc'[r], id[r])
  <2>1. CASE r = p
    BY <2>1 DEF Typed
  <2>2. CASE r # p /\ pc[r] = "none"
    <3>1. pc'[r] = "none"
      BY <2>2 DEF Typed
    <3>. QED  BY <3>1 DEF Fits
  <2>3. CASE r # p /\ pc[r] # "none"
    <3>1. id[r] \in Ids \ {id[p]} /\ pc'[r] = pc[r]
      BY <2>3 DEF Typed, Seated
    <3>2. Fits(Table, pc[r], id[r])
      BY DEF Matched
    <3>. QED  BY <1>1, <3>1, <3>2 DEF Fits
  <2>. QED  BY <2>1, <2>2, <2>3
<1>3. ASSUME NEW j \in Ids, j >= indexPids
      PROVE  j \in Ids \ {id[p]}
  <2>1. j \in Nat /\ indexPids \in Nat /\ id[p] \in Nat
    BY <1>1 DEF Ids, Seated
  <2>. QED  BY <1>1, <1>3, <2>1
<1>4. \A j \in Ids : j >= indexPids =>
        /\ t.s[j] = "THINKING"
        /\ t.sems[j] = IF main # "start" /\ j < numPhilosophers THEN 0 ELSE Closed
  BY <1>1, <1>3 DEF Matched
<1>5. \A j \in Ids : t.s[j] = "HUNGRY" => t.sems[j] = 0
  BY <1>1 DEF Matched
<1>6. \A j \in Ids : t.sems[j] \in {Closed, 0, 1}
  BY <1>1 DEF Matched
<1>. QED  BY <1>2, <1>4, <1>5, <1>6 DEF Matched

LEMMA TableAndForks ==
    ASSUME TableAssumption, GrowingInv, NEW p \in Pids, Begin(p) \/ AwaitForks(p), Frame
    PROVE  Seated' /\ Fine(Table', pc')
<1>1. Typed /\ Seated /\ Matched(Table, pc) /\ Fine(Table, pc) /\ id[p] \in Ids
  BY DEF GrowingInv, ChangingInv, Typed, Fine
<1>2. UNCHANGED tableVars /\ pc[p] \in {"begin", "forks", "asleep"}
  BY DEF Begin, AwaitForks, Goto
<1>3. /\ Table'.s = states /\ Table'.meals = consecutiveMeals /\ Table'.sems = sem'
      /\ Table.s = states /\ Table.meals = consecutiveMeals /\ Table.sems = sem
  BY <1>2 DEF Table, tableVars
<1>4. Fits(Table, pc[p], id[p]) /\ id[p] < indexPids
  BY <1>1, <1>2 DEF Matched, Seated
<1>5. sem \in [Ids \cup {MUTEX} -> Nat \cup {Closed}]
  BY <1>1, TypedFacts
<1>6. CASE Begin(p)
  <2>1. id[p] < numPhilosophers
    <3>1. id[p] \in Nat /\ indexPids \in Nat /\ numPhilosophers \in Nat /\ indexPids <= numPhilosophers
      BY <1>1, TypedFacts DEF Seated, Ids
    <3>. QED  BY <1>4, <3>1
  <2>2. pc[p] = "begin" /\ pc' = [pc EXCEPT ![p] = "thinking"] /\ sem' = sem
    BY <1>6, <2>1 DEF Begin, Goto
  <2>3. Fits(Table, "thinking", id[p])
    BY <1>4, <2>2 DEF Fits
  <2>4. Table.s[id[p]] = "THINKING" /\ Table.sems[id[p]] = 0
    BY <1>4, <2>2 DEF Fits
  <2>5. Matched(Table, pc')
    BY <1>1, <1>3, <2>2, <2>3, <2>4, OwnSeat
  <2>6. Seated'
    BY <1>1, <2>2, GoesOn DEF Places
  <2>7. Table' = Table
    BY <1>2, <2>2 DEF Table, tableVars
  <2>8. Fine(Table, pc')
    BY <1>1, <2>5 DEF Fine
  <2>. QED  BY <2>6, <2>7, <2>8
<1>7. CASE AwaitForks(p) /\ sem' = sem /\ pc' = [pc EXCEPT ![p] = "asleep"]
  <2>1. pc[p] = "forks"
    <3>1. pc' \in [Pids -> Places] /\ pc'[p] = "asleep"
      BY <1>1, <1>7 DEF Typed, Places
    <3>. QED  BY <1>7, <3>1 DEF AwaitForks, Goto
  <2>2. Fits(Table, "asleep", id[p])
    BY <1>4, <2>1 DEF Fits
  <2>3. (Table.s[id[p]] = "HUNGRY" => Table.sems[id[p]] = 0) /\ Table.sems[id[p]] \in {0, 1}
    BY <1>4, <2>1 DEF Fits
  <2>5. Matched(Table, pc')
    BY <1>1, <1>3, <1>7, <2>1, <2>2, <2>3, OwnSeat
  <2>6. Seated'
    BY <1>1, <1>7, <2>1, GoesOn DEF Places
  <2>7. Table' = Table
    BY <1>2, <1>7 DEF Table, tableVars
  <2>8. Fine(Table, pc')
    BY <1>1, <2>5 DEF Fine
  <2>. QED  BY <2>6, <2>7, <2>8
<1>8. CASE AwaitForks(p) /\ SemWait(id[p]) /\ pc' = [pc EXCEPT ![p] = "look"]
  <2>1. pc[p] \in {"forks", "asleep"}
    <3>1. pc'[p] = "look"
      BY <1>1, <1>8 DEF Typed
    <3>. QED  BY <1>8, <3>1 DEF AwaitForks, Goto
  <2>2. states[id[p]] = "EATING" /\ sem[id[p]] = 1
    BY <1>3, <1>4, <1>8, <2>1 DEF Fits, SemWait
  <2>3. sem' = [sem EXCEPT ![id[p]] = 0]
    BY <1>8, <2>2 DEF SemWait, Closed
  <2>4. sem'[id[p]] = 0 /\ \A k \in Ids \ {id[p]} : sem'[k] = sem[k]
    BY <1>1, <1>5, <2>3
  <2>5. Fits(Table', "look", id[p])
    BY <1>3, <2>2, <2>4 DEF Fits
  <2>6. Matched(Table', pc')
    BY <1>1, <1>3, <1>8, <2>1, <2>2, <2>4, <2>5, OwnSeat
  <2>7. Seated'
    BY <1>1, <1>8, <2>1, GoesOn DEF Places
  <2>8. Fine(Table', pc')
    BY <1>1, <1>3, <2>6 DEF Fine, Apart, Fed
  <2>. QED  BY <2>7, <2>8
<1>9. AwaitForks(p) => \/ sem' = sem /\ pc' = [pc EXCEPT ![p] = "asleep"]
                       \/ SemWait(id[p]) /\ pc' = [pc EXCEPT ![p] = "look"]
  BY DEF AwaitForks, Goto
<1>. QED  BY <1>6, <1>7, <1>8, <1>9

LEMMA EnterGrows ==
    ASSUME TableAssumption, GrowingInv, NEW p \in Pids, Frame,
           NEW from \in {"thinking", "look", "eating", "count"},
           NEW to \in {"taking", "looking", "putting", "counting"}, Enter(p, from, to),
           \A t, j : Fits(t, from, j) => Fits(t, to, j)
    PROVE  Seated' /\ Fine(Table', pc')
<1>1. Typed /\ Seated /\ Matched(Table, pc) /\ Fine(Table, pc) /\ id[p] \in Ids
  BY DEF GrowingInv, ChangingInv, Typed, Fine
<1>2. /\ UNCHANGED tableVars /\ pc[p] = from /\ pc' = [pc EXCEPT ![p] = to]
      /\ SemWait(MUTEX)
  BY DEF Enter, Goto
<1>3. \A k \in Ids : sem'[k] = sem[k]
  BY <1>1, <1>2, MutexIsNoSeat, TypedFacts DEF SemWait
<1>4. /\ Table'.s = Table.s /\ Table'.meals = Table.meals
      /\ \A k \in Ids : Table'.sems[k] = Table.sems[k]
      /\ Table.s = states /\ Table.sems = sem
  BY <1>2, <1>3 DEF Table, tableVars
<1>5. Fits(Table, to, id[p]) /\ Fits(Table, from, id[p])
  BY <1>1, <1>2 DEF Matched
<1>6. Table.sems[id[p]] = 0
  BY <1>5 DEF Fits
<1>7. Matched(Table, pc')
  BY <1>1, <1>2, <1>4, <1>5, <1>6, OwnSeat
<1>8. Fine(Table, pc')
  BY <1>1, <1>7 DEF Fine
<1>9. Fine(Table', pc')
  <2>. DEFINE u == Table'
  <2>1. u.s = Table.s /\ u.meals = Table.meals /\ \A k \in Ids : u.sems[k] = Table.sems[k]
    BY <1>4
  <2>. HIDE DEF u
  <2>2. Fine(u, pc')
    BY <1>1, <1>8, <2>1, SameTable
  <2>. QED  BY <2>2 DEF u
<1>10. Seated'
  BY <1>1, <1>2, GoesOn DEF Places
<1>. QED  BY <1>9, <1>10

LEMMA LeaveGrows ==
    ASSUME TableAssumption, GrowingInv, NEW p \in Pids, Frame, NEW t \in Tables, Leave(t),
           pc[p] # "none", NEW q \in Places \ {"none", "dead", "lost"},
           pc' = [pc EXCEPT ![p] = q], Fine(t, pc')
    PROVE  Seated' /\ Fine(Table', pc')
<1>1. Typed /\ Seated
  BY DEF GrowingInv, ChangingInv
<1>. DEFINE u == Table'
<1>2. u.s = t.s /\ u.meals = t.meals /\ \A k \in Ids : u.sems[k] = t.sems[k]
  BY LeaveLemma DEF Table
<1>. HIDE DEF u
<1>3. Fine(u, pc')
  BY <1>1, <1>2, SameTable
<1>4. Seated'
  BY <1>1, GoesOn
<1>. QED  BY <1>3, <1>4 DEF u

LEMMA SeatOf ==
    ASSUME TableAssumption, Typed, Seated, NEW p \in Pids, pc[p] # "none"
    PROVE  id[p] \in Seats
<1>1. id[p] \in Ids /\ id[p] < indexPids /\ indexPids \in 0 .. numPhilosophers
  BY DEF Typed, Seated
<1>2. numPhilosophers \in Nat
  BY TypedFacts
<1>3. id[p] \in Nat
  BY <1>1 DEF Ids
<1>. QED  BY <1>1, <1>2, <1>3 DEF Seats

LEMMA TakeFine ==
    ASSUME TableAssumption, GrowingInv, NEW p \in Pids, pc[p] = "taking",
           pc' = [pc EXCEPT ![p] = "forks"]
    PROVE  Fine(TestAt(Asking(id[p]), id[p]), pc')
<1>. DEFINE j == id[p]
            t == Asking(j)
            u == TestAt(t, j)
<1>1. Typed /\ Seated /\ Matched(Table, pc) /\ Fine(Table, pc) /\ j \in Ids
  BY DEF GrowingInv, ChangingInv, Typed, Fine
<1>2. j \in Seats
  BY <1>1, SeatOf
<1>3. /\ t \in Tables /\ t.sems = sem /\ t.meals = consecutiveMeals
      /\ \A k \in Ids : t.s[k] = IF k = j THEN "HUNGRY" ELSE states[k]
  BY <1>1, AskingLemma
<1>4. /\ Table.s = states /\ Table.meals = consecutiveMeals /\ Table.sems = sem
      /\ states[j] = "THINKING" /\ sem[j] = 0
  <2>1. Fits(Table, "taking", j)
    BY <1>1 DEF Matched
  <2>. QED  BY <2>1 DEF Table, Fits
<1>5. \A k \in Seats : k \in Ids /\ LEFT(k) \in Ids /\ RIGHT(k) \in Ids
  BY <1>1, TypedFacts
<1>6. Fits(t, "forks", j) /\ t.sems[j] \in {0, 1} /\ (t.s[j] = "HUNGRY" => t.sems[j] = 0)
  BY <1>1, <1>3, <1>4 DEF Fits
<1>7. Matched(t, pc')
  <2>. HIDE DEF t
  <2>1. \A k \in Ids \ {id[p]} : t.s[k] = states[k] /\ t.sems[k] = sem[k]
    BY <1>3
  <2>. QED  BY <1>1, <1>6, <2>1, OwnSeat
<1>8. Apart(t)
  <2>. HIDE DEF t, j
  <2>. QED  BY <1>1, <1>3, <1>4, <1>5 DEF Fine, Apart
<1>9. \A k \in Seats : k # j => Fed(t, k)
  <2>. HIDE DEF t, j
  <2>. QED  BY <1>1, <1>3, <1>4, <1>5 DEF Fine, Fed
<1>. HIDE DEF t, j
<1>10. Granted(t, u)
  BY <1>1, <1>3, TestAtGrants
<1>11. Fed(u, j) /\ Apart(u)
  BY <1>1, <1>2, <1>3, <1>8, TestFeeds
<1>. HIDE DEF u
<1>12. Matched(u, pc')
  BY <1>1, <1>7, <1>10, GrantsFit
<1>13. \A k \in Seats : Fed(u, k)
  BY <1>1, <1>9, <1>10, <1>11, GrantsKeepFed
<1>. QED  BY <1>11, <1>12, <1>13 DEF Fine, u, t, j

LEMMA PutFine ==
    ASSUME TableAssumption, GrowingInv, NEW p \in Pids, pc[p] = "putting",
           pc' = [pc EXCEPT ![p] = "count"]
    PROVE  Fine(PutDown(id[p]), pc')
<1>. DEFINE j == id[p]
            t == Cleared(j)
            u == TestAt(t, LEFT(j))
            v == TestAt(u, RIGHT(j))
<1>1. Typed /\ Seated /\ Matched(Table, pc) /\ Fine(Table, pc) /\ j \in Ids
  BY DEF GrowingInv, ChangingInv, Typed, Fine
<1>2. j \in Seats
  BY <1>1, SeatOf
<1>3. /\ t \in Tables /\ t.sems = sem
      /\ \A k \in Ids : /\ t.s[k] = IF k = j THEN "THINKING" ELSE states[k]
                        /\ k # j => t.meals[k] = consecutiveMeals[k]
  BY <1>1, ClearedLemma
<1>4. /\ Table.s = states /\ Table.meals = consecutiveMeals /\ Table.sems = sem
      /\ states[j] = "EATING" /\ sem[j] = 0
  <2>1. Fits(Table, "putting", j)
    BY <1>1 DEF Matched
  <2>. QED  BY <2>1 DEF Table, Fits
<1>5. \A k \in Seats : k \in Ids /\ LEFT(k) \in Seats /\ RIGHT(k) \in Seats
  BY <1>1, TypedFacts
<1>6. Fits(t, "count", j) /\ t.sems[j] \in {0, 1} /\ (t.s[j] = "HUNGRY" => t.sems[j] = 0)
  BY <1>1, <1>3, <1>4 DEF Fits
<1>7. Matched(t, pc')
  <2>. HIDE DEF t
  <2>1. \A k \in Ids \ {id[p]} : t.s[k] = states[k] /\ t.sems[k] = sem[k]
    BY <1>3
  <2>. QED  BY <1>1, <1>6, <2>1, OwnSeat
<1>. HIDE DEF t, j
<1>8. Apart(t)
  BY <1>1, <1>3, <1>4, <1>5 DEF Fine, Apart
<1>9. ASSUME NEW k \in Seats, k # LEFT(j), k # RIGHT(j) PROVE Fed(t, k)
  <2>1. LEFT(k) # j /\ RIGHT(k) # j
    BY <1>1, <1>2, <1>9, TypedFacts
  <2>2. Fed(Table, k)
    BY <1>1 DEF Fine
  <2>. QED  BY <1>3, <1>4, <1>5, <2>1, <2>2 DEF Fed
<1>10. LEFT(j) \in Seats /\ RIGHT(j) \in Seats /\ LEFT(j) \in Ids /\ RIGHT(j) \in Ids
  BY <1>2, <1>5
<1>11. Granted(t, u) /\ Fed(u, LEFT(j)) /\ Apart(u) /\ u \in Tables
  <2>1. Granted(t, u)
    BY <1>1, <1>3, <1>10, TestAtGrants
  <2>2. Fed(u, LEFT(j)) /\ Apart(u)
    BY <1>1, <1>3, <1>8, <1>10, TestFeeds
  <2>. QED  BY <2>1, <2>2 DEF Granted
<1>. HIDE DEF u
<1>12. Granted(u, v) /\ Fed(v, RIGHT(j)) /\ Apart(v)
  BY <1>1, <1>10, <1>11, TestAtGrants, TestFeeds
<1>. HIDE DEF v
<1>13. Granted(t, v)
  BY <1>11, <1>12, GrantsAddUp
<1>14. Matched(v, pc')
  BY <1>1, <1>7, <1>13, GrantsFit
<1>15. ASSUME NEW k \in Seats PROVE Fed(v, k)
  <2>1. CASE k = LEFT(j)
    BY <1>1, <1>11, <1>12, <2>1, GrantsKeepFed
  <2>2. CASE k = RIGHT(j)
    BY <1>12, <2>2
  <2>3. CASE k # LEFT(j) /\ k # RIGHT(j)
    BY <1>1, <1>9, <1>13, <2>3, GrantsKeepFed
  <2>. QED  BY <2>1, <2>2, <2>3
<1>. QED  BY <1>12, <1>14, <1>15 DEF Fine, PutDown, v, u, t, j

LEMMA PhilosopherGrows ==
    ASSUME TableAssumption, GrowingInv, NEW p \in Pids, Philosopher(p)
    PROVE  GrowingInv'
<1>1. ChangingInv' /\ Frame /\ id[p] \in Ids /\ Typed /\ Table \in Tables
  BY PhilosopherKeeps, PhilosopherSteps DEF GrowingInv, Frame, pidVars, mainVars, ChangingInv, Typed
<1>2. SUFFICES Seated' /\ Fine(Table', pc')
  BY <1>1, FrameLemma DEF GrowingInv
<1>3. CASE Begin(p) \/ AwaitForks(p)
  BY <1>1, <1>3, TableAndForks
<1>4. CASE Enter(p, "thinking", "taking") \/ Enter(p, "count", "counting")
  <2>1. \A t, j : /\ Fits(t, "thinking", j) => Fits(t, "taking", j)
                  /\ Fits(t, "count", j) => Fits(t, "counting", j)
    BY DEF Fits
  <2>. QED  BY <1>1, <1>4, <2>1, EnterGrows
<1>5. CASE Enter(p, "look", "looking") \/ Enter(p, "eating", "putting")
  <2>1. \A t, j : /\ Fits(t, "look", j) => Fits(t, "looking", j)
                  /\ Fits(t, "eating", j) => Fits(t, "putting", j)
    BY DEF Fits
  <2>. QED  BY <1>1, <1>5, <2>1, EnterGrows
<1>6. CASE Take(p)
  <2>1. /\ pc[p] = "taking" /\ pc' = [pc EXCEPT ![p] = "forks"]
        /\ Leave(TestAt(Asking(id[p]), id[p]))
    BY <1>6 DEF Take, Asking, Goto
  <2>2. TestAt(Asking(id[p]), id[p]) \in Tables
    BY <1>1, AskingLemma, TestAtGrants DEF Granted
  <2>. QED  BY <1>1, <2>1, <2>2, TakeFine, LeaveGrows DEF Places
<1>7. CASE Put(p)
  <2>1. pc[p] = "putting" /\ pc' = [pc EXCEPT ![p] = "count"] /\ Leave(PutDown(id[p]))
    BY <1>7 DEF Put, PutDown, Cleared, Down, Goto
  <2>2. PutDown(id[p]) \in Tables
    BY <1>1, PutDownLemma
  <2>. QED  BY <1>1, <2>1, <2>2, PutFine, LeaveGrows DEF Places
<1>8. ASSUME NEW t \in Tables, Leave(t), t.s = states, t.meals = consecutiveMeals, t.sems = sem,
             NEW from \in {"looking", "counting"}, NEW to \in {"eating", "thinking"},
             pc[p] = from, pc' = [pc EXCEPT ![p] = to],
             \A x, j : Fits(x, from, j) => Fits(x, to, j)
      PROVE  Seated' /\ Fine(Table', pc')
  <2>1. Matched(Table, pc) /\ Fine(Table, pc) /\ Seated
    BY DEF GrowingInv, Fine
  <2>2. Table.s = states /\ Table.meals = consecutiveMeals /\ Table.sems = sem
    BY DEF Table
  <2>3. Fits(Table, from, id[p]) /\ Fits(Table, to, id[p])
    BY <1>8, <2>1 DEF Matched
  <2>4. Table.sems[id[p]] = 0
    BY <2>3 DEF Fits
  <2>5. Matched(Table, pc')
    BY <1>1, <1>8, <2>1, <2>2, <2>3, <2>4, OwnSeat
  <2>6. Fine(Table, pc')
    BY <2>1, <2>5 DEF Fine
  <2>7. Fine(t, pc')
    BY <1>1, <1>8, <2>2, <2>6, SameTable
  <2>8. pc[p] # "none" /\ to \in Places \ {"none", "dead", "lost"}
    BY <1>8 DEF Places
  <2>. QED  BY <1>1, <1>8, <2>7, <2>8, LeaveGrows
<1>9. CASE PrintTable(p)
  <2>1. pc[p] = "looking" /\ pc' = [pc EXCEPT ![p] = "eating"] /\ Leave(Table)
    BY <1>9 DEF PrintTable, Goto
  <2>2. \A x, j : Fits(x, "looking", j) => Fits(x, "eating", j)
    BY DEF Fits
  <2>3. Table.s = states /\ Table.meals = consecutiveMeals /\ Table.sems = sem
    BY DEF Table
  <2>. QED  BY <1>1, <1>8, <2>1, <2>2, <2>3
<1>10. CASE Count(p)
  <2>1. pc[p] = "counting" /\ pc' = [pc EXCEPT ![p] = "thinking"] /\ Leave(Counted(id[p]))
    BY <1>10 DEF Count, Counted, Goto
  <2>2. \A x, j : Fits(x, "counting", j) => Fits(x, "thinking", j)
    BY DEF Fits
  <2>3. /\ Counted(id[p]) \in Tables /\ Counted(id[p]).s = states
        /\ Counted(id[p]).meals = consecutiveMeals /\ Counted(id[p]).sems = sem
    BY <1>1, CountedLemma
  <2>. QED  BY <1>1, <1>8, <2>1, <2>2, <2>3
<1>. QED  BY <1>3, <1>4, <1>5, <1>6, <1>7, <1>9, <1>10 DEF Philosopher

LEMMA InitPhilosophersGrows ==
    ASSUME TableAssumption, GrowingInv, InitPhilosophers
    PROVE  GrowingInv'
<1>. DEFINE seats == 0 .. numPhilosophers - 1
<1>0. Typed /\ Seated /\ Matched(Table, pc) /\ ChangingInv' /\ Typed'
  BY InitPhilosophersKeeps DEF GrowingInv, ChangingInv
<1>1. /\ main = "start" /\ main' = "spawn" /\ i' = 0 /\ pids' = Reset(pids, seats, 0)
      /\ states' = Reset(states, seats, "THINKING")
      /\ UNCHANGED <<numPhilosophers, indexPids, id, pc>>
      /\ sem' = [s \in DOMAIN sem |-> IF s \notin seats \cup {MUTEX} THEN sem[s]
                   ELSE SemOpen(sem, s, IF s = MUTEX THEN 1 ELSE 0)[s]]
  BY DEF InitPhilosophers
<1>2. indexPids = 0 /\ i = 0 /\ numPhilosophers = InitialPhilosophers
  BY <1>0, <1>1 DEF Seated, Typed
<1>3. \A p \in Pids : pc[p] = "none"
  <2>1. \A p \in Pids : id[p] \in Nat
    BY <1>0 DEF Typed, Ids
  <2>. QED  BY <1>0, <1>2, <2>1 DEF Seated
<1>4. \A j \in Ids : states[j] = "THINKING" /\ sem[j] = Closed
  <2>1. \A j \in Ids : j >= 0
    BY DEF Ids
  <2>. QED  BY <1>0, <1>1, <1>2, <2>1 DEF Matched, Table
<1>5. Seated'
  BY <1>0, <1>1, <1>2, <1>3 DEF Seated, Reset
<1>6. /\ DOMAIN sem = Ids \cup {MUTEX} /\ DOMAIN states = Ids
      /\ \A j \in Ids : j \in seats <=> j < numPhilosophers
  <2>1. Typed
    BY <1>0
  <2>2. /\ numPhilosophers \in Nat /\ states \in [Ids -> Moods]
        /\ sem \in [Ids \cup {MUTEX} -> Nat \cup {Closed}]
    BY <2>1, TypedFacts
  <2>3. DOMAIN sem = Ids \cup {MUTEX} /\ DOMAIN states = Ids
    BY <2>2
  <2>4. \A j \in Ids : j \in Nat
    BY DEF Ids
  <2>5. \A j \in Ids : j \in seats <=> j < numPhilosophers
    BY <2>2, <2>4
  <2>. QED  BY <2>3, <2>5
<1>. HIDE DEF seats
<1>7. \A j \in Ids : /\ states'[j] = "THINKING"
                     /\ sem'[j] = IF j < numPhilosophers THEN 0 ELSE Closed
  BY <1>1, <1>4, <1>6, MutexIsNoSeat DEF Reset, SemOpen
<1>8. Table'.s = states' /\ Table'.sems = sem'
  BY DEF Table
<1>9. Matched(Table, pc)'
  <2>1. \A p \in Pids : Fits(Table', pc'[p], id'[p])
    BY <1>1, <1>3 DEF Fits
  <2>2. \A j \in Ids : sem'[j] \in {Closed, 0, 1}
    BY <1>7
  <2>. QED  BY <1>1, <1>7, <1>8, <2>1, <2>2 DEF Matched
<1>10. Apart(Table)' /\ (\A j \in Seats : Fed(Table, j))'
  <2>1. Seats' \subseteq Ids
    BY <1>0, TypedFacts, <1>1 DEF Seats
  <2>2. \A j \in Seats' : states'[j] = "THINKING"
    BY <1>7, <2>1
  <2>. QED  BY <1>8, <2>2 DEF Apart, Fed
<1>. QED  BY <1>0, <1>5, <1>9, <1>10 DEF GrowingInv

(* A new philosopher sits down where nobody sits.                          *)
LEMMA SitsDown ==
    ASSUME Typed, Seated, NEW j \in Ids, j = indexPids, Spawn(j)
    PROVE  /\ indexPids' = indexPids + 1 /\ DOMAIN pids' = Ids
           /\ \A p \in Pids : pc'[p] \notin {"dead", "lost"}
           /\ \A p \in Pids : pc'[p] # "none" => id'[p] < indexPids'
           /\ \A p, q \in Pids : pc'[p] # "none" /\ pc'[q] # "none" /\ id'[p] = id'[q] => p = q
           /\ \A p \in Pids : \/ pc'[p] = "none"
                              \/ pc'[p] = "begin" /\ id'[p] = j
                              \/ pc'[p] = pc[p] /\ id'[p] = id[p] /\ id[p] < j
<1>1. PICK p \in Pids :
        /\ pc[p] = "none" /\ pc' = [pc EXCEPT ![p] = "begin"] /\ id' = [id EXCEPT ![p] = j]
        /\ pids' = [pids EXCEPT ![indexPids] = p] /\ indexPids' = indexPids + 1
  BY DEF Spawn, PutPid
<1>2. /\ pc'[p] = "begin" /\ id'[p] = j
      /\ \A q \in Pids : q # p => pc'[q] = pc[q] /\ id'[q] = id[q]
  BY <1>1 DEF Typed
<1>3. \A q \in Pids : pc[q] # "none" => id[q] < j /\ id[q] \in Int
  BY DEF Seated, Typed, Ids
<1>4. j \in Int
  BY DEF Ids
<1>5. \A q \in Pids : \/ pc'[q] = "none"
                      \/ pc'[q] = "begin" /\ id'[q] = j /\ q = p
                      \/ q # p /\ pc'[q] = pc[q] /\ id'[q] = id[q] /\ id[q] < j /\ id[q] \in Int
  BY <1>2, <1>3
<1>6. \A q \in Pids : pc'[q] # "none" => id'[q] < indexPids'
  BY <1>1, <1>4, <1>5
<1>7. ASSUME NEW q \in Pids, NEW r \in Pids, pc'[q] # "none", pc'[r] # "none", id'[q] = id'[r]
      PROVE  q = r
  <2>1. CASE q = p /\ r = p
    BY <2>1
  <2>2. CASE q # p /\ r # p
    BY <1>2, <1>7, <2>2 DEF Seated
  <2>3. CASE q = p /\ r # p
    BY <1>2, <1>3, <1>4, <1>7, <2>3
  <2>4. CASE q # p /\ r = p
    BY <1>2, <1>3, <1>4, <1>7, <2>4
  <2>. QED  BY <2>1, <2>2, <2>3, <2>4
<1>8. \A q \in Pids : pc'[q] \notin {"dead", "lost"}
  BY <1>2 DEF Seated
<1>9. DOMAIN pids' = Ids
  BY <1>1 DEF Seated
<1>. QED  BY <1>1, <1>5, <1>6, <1>7, <1>8, <1>9

LEMMA SpawnNextGrows ==
    ASSUME TableAssumption, GrowingInv, SpawnNext
    PROVE  GrowingInv'
<1>0. Typed /\ Seated /\ Matched(Table, pc) /\ ChangingInv' /\ Typed' /\ i \in Ids
  BY SpawnNextKeeps, TypedFacts DEF GrowingInv, ChangingInv, Typed
<1>1. /\ main = "spawn" /\ Spawn(i) /\ i' = (i + 1) % numPhilosophers
      /\ main' = (IF i' = 0 THEN "input" ELSE "spawn")
      /\ UNCHANGED <<tableVars, numPhilosophers, sem>>
  BY DEF SpawnNext
<1>2. indexPids = i /\ numPhilosophers = InitialPhilosophers /\ i \in 0 .. numPhilosophers - 1
  BY <1>0, <1>1 DEF Seated, Typed, Seats
<1>3. /\ indexPids' = i + 1 /\ DOMAIN pids' = Ids
      /\ \A p \in Pids : pc'[p] \notin {"dead", "lost"}
      /\ \A p \in Pids : pc'[p] # "none" => id'[p] < indexPids'
      /\ \A p, q \in Pids : pc'[p] # "none" /\ pc'[q] # "none" /\ id'[p] = id'[q] => p = q
      /\ \A p \in Pids : \/ pc'[p] = "none"
                         \/ pc'[p] = "begin" /\ id'[p] = i
                         \/ pc'[p] = pc[p] /\ id'[p] = id[p] /\ id[p] < i
  BY <1>0, <1>1, <1>2, SitsDown
<1>4. i' = (IF i = numPhilosophers - 1 THEN 0 ELSE i + 1) /\ numPhilosophers \in Nat
  BY <1>0, <1>1, <1>2, TypedFacts, Turn
<1>5. Seated'
  <2>1. indexPids' \in 0 .. numPhilosophers
    BY <1>2, <1>3, <1>4
  <2>2. main' = "spawn" => indexPids' = i'
    BY <1>1, <1>2, <1>3, <1>4
  <2>3. main' = "input" => indexPids' = numPhilosophers
    BY <1>1, <1>2, <1>3, <1>4
  <2>4. main' \in {"input", "spawn"}
    BY <1>1
  <2>5. numPhilosophers' = InitialPhilosophers /\ InitialPhilosophers \in Int
    BY <1>1, <1>2, <1>4
  <2>. QED  BY <1>1, <1>3, <2>1, <2>2, <2>3, <2>4, <2>5 DEF Seated
<1>6. Table' = Table /\ Table.s = states /\ Table.sems = sem
  BY <1>1 DEF Table, tableVars
<1>7. states[i] = "THINKING" /\ sem[i] = 0
  <2>1. i >= indexPids /\ i < numPhilosophers /\ main # "start"
    BY <1>1, <1>2, <1>4
  <2>2. /\ Table.s[i] = "THINKING"
        /\ Table.sems[i] = IF main # "start" /\ i < numPhilosophers THEN 0 ELSE Closed
    BY <1>0, <2>1 DEF Matched
  <2>. QED  BY <1>6, <2>1, <2>2
<1>8. ASSUME NEW p \in Pids PROVE Fits(Table, pc'[p], id'[p])
  <2>1. Fits(Table, pc[p], id[p])
    BY <1>0 DEF Matched
  <2>2. CASE pc'[p] = "none"
    BY <2>2 DEF Fits
  <2>3. CASE pc'[p] = "begin" /\ id'[p] = i
    BY <1>6, <1>7, <2>3 DEF Fits
  <2>. QED  BY <1>3, <2>1, <2>2, <2>3
<1>9. Matched(Table, pc)'
  <2>1. \A j \in Ids : j >= indexPids' => j >= indexPids
    BY <1>2, <1>3 DEF Ids
  <2>2. main # "start" /\ main' # "start"
    BY <1>1
  <2>. QED  BY <1>0, <1>1, <1>6, <1>8, <2>1, <2>2 DEF Matched
<1>10. Apart(Table)' /\ (\A j \in Seats : Fed(Table, j))'
  BY <1>1, <1>6 DEF GrowingInv, Apart, Fed, Seats, LEFT, RIGHT
<1>. QED  BY <1>0, <1>5, <1>9, <1>10 DEF GrowingInv

LEMMA KeyGrows ==
    ASSUME TableAssumption, Inputs \subseteq {"a"}, GrowingInv,
           (\E key \in Inputs : GetChar(key)) \/ Refuse
    PROVE  GrowingInv'
<1>0. /\ Typed /\ Seated /\ Matched(Table, pc) /\ Fine(Table, pc) /\ Table \in Tables
      /\ ChangingInv' /\ Typed'
  BY GetCharKeeps, RefuseKeeps DEF GrowingInv, ChangingInv, Typed, Fine
<1>1. /\ UNCHANGED <<numPhilosophers, pids, indexPids, id, pc, i>>
      /\ main \in {"input", "a"} /\ main' \in {"input", "a"}
  BY <1>0 DEF GetChar, Refuse, pidVars, Seated
<1>2. /\ Table'.s = Table.s /\ Table'.meals = Table.meals
      /\ \A k \in Ids : Table'.sems[k] = Table.sems[k]
  <2>1. ASSUME NEW key \in Inputs, GetChar(key)
        PROVE  UNCHANGED tableVars /\ \A k \in Ids : sem'[k] = sem[k]
    BY <1>0, <2>1, MutexIsNoSeat, TypedFacts DEF GetChar, SemWait
  <2>2. CASE Refuse
    <3>1. Leave(Table)
      BY <2>2 DEF Refuse
    <3>. QED  BY <1>0, <3>1, LeaveLemma DEF Table
  <2>. QED  BY <2>1, <2>2 DEF Table, tableVars
<1>. DEFINE u == Table'
<1>3. u.s = Table.s /\ u.meals = Table.meals /\ \A k \in Ids : u.sems[k] = Table.sems[k]
  BY <1>2
<1>. HIDE DEF u
<1>4. Fine(u, pc)
  BY <1>0, <1>3, SameTable
<1>5. Matched(u, pc) /\ Apart(u) /\ \A j \in Seats : Fed(u, j)
  BY <1>4 DEF Fine
<1>6. Matched(Table, pc)'
  BY <1>1, <1>5 DEF Matched, u
<1>7. Apart(Table)' /\ (\A j \in Seats : Fed(Table, j))'
  BY <1>1, <1>5 DEF Apart, Fed, Seats, LEFT, RIGHT, u
<1>8. Seated'
  BY <1>0, <1>1 DEF Seated
<1>. QED  BY <1>0, <1>6, <1>7, <1>8 DEF GrowingInv

LEMMA AddGrows ==
    ASSUME TableAssumption, GrowingInv, Add
    PROVE  GrowingInv'
<1>. DEFINE n == numPhilosophers
<1>0. /\ Typed /\ Seated /\ Matched(Table, pc) /\ Fine(Table, pc) /\ ChangingInv' /\ Typed'
  BY AddKeeps DEF GrowingInv, ChangingInv, Fine
<1>1. /\ main = "a" /\ main' = "input" /\ n < MAX_PHILOSOPHERS
      /\ Leave(Added) /\ Spawn(n) /\ numPhilosophers' = n + 1
      /\ UNCHANGED i
  BY DEF Add, Added
<1>2. /\ n \in Ids /\ Added \in Tables /\ Added.s[n] = "THINKING"
      /\ \A k \in Ids \ {n} : /\ Added.s[k] = states[k] /\ Added.meals[k] = consecutiveMeals[k]
                              /\ Added.sems[k] = sem[k]
      /\ Added.sems[n] = IF sem[n] = Closed THEN 0 ELSE sem[n]
  BY <1>0, <1>1, AddedLemma
<1>3. indexPids = n /\ n \in Nat \ {0, 1} /\ n >= InitialPhilosophers /\ i = 0
  BY <1>0, <1>1, TypedFacts DEF Seated, Typed
<1>4. /\ indexPids' = n + 1 /\ DOMAIN pids' = Ids
      /\ \A p \in Pids : pc'[p] \notin {"dead", "lost"}
      /\ \A p \in Pids : pc'[p] # "none" => id'[p] < indexPids'
      /\ \A p, q \in Pids : pc'[p] # "none" /\ pc'[q] # "none" /\ id'[p] = id'[q] => p = q
      /\ \A p \in Pids : \/ pc'[p] = "none"
                         \/ pc'[p] = "begin" /\ id'[p] = n
                         \/ pc'[p] = pc[p] /\ id'[p] = id[p] /\ id[p] < n
  BY <1>0, <1>1, <1>2, <1>3, SitsDown
<1>. HIDE DEF n
<1>5. Seated'
  <2>1. n + 1 \in 0 .. n + 1 /\ n + 1 >= InitialPhilosophers
    BY <1>3 DEF TableAssumption
  <2>. QED  BY <1>1, <1>4, <2>1 DEF Seated
<1>6. Table.s = states /\ Table.sems = sem /\ Table.meals = consecutiveMeals
  BY DEF Table
<1>7. states[n] = "THINKING" /\ sem[n] = Closed
  <2>1. n >= indexPids /\ ~(n < numPhilosophers)
    BY <1>3 DEF n
  <2>. QED  BY <1>0, <1>2, <1>6, <2>1 DEF Matched
<1>. DEFINE u == Table'
<1>8. /\ \A k \in Ids : u.s[k] = states[k]
      /\ \A k \in Ids \ {n} : u.meals[k] = consecutiveMeals[k]
      /\ \A k \in Ids : u.sems[k] = IF k = n THEN 0 ELSE sem[k]
  <2>1. states' = Added.s /\ consecutiveMeals' = Added.meals /\ \A k \in Ids : sem'[k] = Added.sems[k]
    BY <1>1, <1>2, LeaveLemma
  <2>. QED  BY <1>2, <1>7, <2>1 DEF Table
<1>. HIDE DEF u
<1>9. ASSUME NEW p \in Pids PROVE Fits(u, pc'[p], id'[p])
  <2>1. Fits(Table, pc[p], id[p]) /\ id[p] \in Ids
    BY <1>0 DEF Matched, Typed
  <2>2. CASE pc'[p] = "none"
    BY <2>2 DEF Fits
  <2>3. CASE pc'[p] = "begin" /\ id'[p] = n
    BY <1>2, <1>7, <1>8, <2>3 DEF Fits
  <2>4. CASE pc'[p] = pc[p] /\ id'[p] = id[p] /\ id[p] < n
    <3>1. id[p] # n
      BY <1>3, <2>4
    <3>. QED  BY <1>6, <1>8, <2>1, <2>4, <3>1 DEF Fits
  <2>. QED  BY <1>4, <2>2, <2>3, <2>4
<1>10. ASSUME NEW j \in Ids, j >= n + 1
       PROVE  u.s[j] = "THINKING" /\ u.sems[j] = Closed /\ ~(j < n + 1)
  <2>1. j \in Nat /\ j >= n /\ j # n /\ ~(j < n + 1) /\ ~(j < n)
    BY <1>3, <1>10 DEF Ids
  <2>2. Table.s[j] = "THINKING" /\ Table.sems[j] = Closed
    BY <1>0, <1>3, <2>1 DEF Matched, n
  <2>. QED  BY <1>6, <1>8, <2>1, <2>2
<1>11. Matched(Table, pc)'
  <2>1. \A j \in Ids : u.s[j] = "HUNGRY" => u.sems[j] = 0
    BY <1>0, <1>6, <1>7, <1>8 DEF Matched
  <2>2. \A j \in Ids : u.sems[j] \in {Closed, 0, 1}
    BY <1>0, <1>6, <1>8 DEF Matched
  <2>. QED  BY <1>1, <1>4, <1>9, <1>10, <2>1, <2>2 DEF Matched, u
<1>12. /\ \A j \in Seats' : /\ LEFT(j)' = IF j = 0 THEN n ELSE j - 1
                            /\ RIGHT(j)' = IF j = n THEN 0 ELSE j + 1
       /\ \A j \in Seats : /\ LEFT(j) = IF j = 0 THEN n - 1 ELSE j - 1
                           /\ RIGHT(j) = IF j = n - 1 THEN 0 ELSE j + 1
       /\ Seats = 0 .. n - 1 /\ Seats' = 0 .. n /\ Seats' \subseteq Ids /\ Seats \subseteq Ids
  <2>1. n + 1 \in Nat \ {0, 1} /\ (n + 1) - 1 = n
    BY <1>3
  <2>2. Seats' = 0 .. n /\ Seats = 0 .. n - 1
    BY <1>1, <2>1 DEF Seats, n
  <2>3. Seats' \subseteq Ids
    BY <1>1, <1>3, <2>2 DEF Ids, TableAssumption
  <2>4. \A j \in 0 .. n : /\ (j + (n + 1) - 1) % (n + 1) = IF j = 0 THEN n ELSE j - 1
                          /\ (j + 1) % (n + 1) = IF j = n THEN 0 ELSE j + 1
    BY <2>1, Turn
  <2>5. \A j \in Seats : /\ LEFT(j) = IF j = 0 THEN n - 1 ELSE j - 1
                         /\ RIGHT(j) = IF j = n - 1 THEN 0 ELSE j + 1
    BY <1>3, <2>2, Turn DEF LEFT, RIGHT, n
  <2>6. Seats \subseteq Ids
    BY <1>0, TypedFacts
  <2>. QED  BY <1>1, <2>2, <2>3, <2>4, <2>5, <2>6 DEF LEFT, RIGHT
(* Only the seats 0 and n - 1 get another neighbour, which is new.         *)
<1>13. ASSUME NEW j \in Seats
       PROVE  /\ j # 0 => LEFT(j)' = LEFT(j)
              /\ j # n - 1 => RIGHT(j)' = RIGHT(j)
              /\ j = 0 => LEFT(j)' = n
              /\ j = n - 1 => RIGHT(j)' = n
              /\ j \in Seats' /\ j # n /\ j \in Ids /\ LEFT(j)' \in Ids /\ RIGHT(j)' \in Ids
  <2>1. j \in Int /\ 0 <= j /\ j <= n - 1 /\ n \in Nat
    BY <1>3, <1>12
  <2>2. j \in Seats' /\ j # n /\ j \in Ids
    BY <1>12, <2>1
  <2>3. LEFT(j)' \in 0 .. n /\ RIGHT(j)' \in 0 .. n
    BY <1>12, <2>1, <2>2
  <2>. QED  BY <1>12, <2>1, <2>2, <2>3
<1>14. \A j \in Seats' : j \in Seats \/ j = n
  BY <1>3, <1>12
<1>15. Apart(Table)'
  <2>1. SUFFICES ASSUME NEW j \in Seats', u.s[j] = "EATING"
                 PROVE  u.s[LEFT(j)'] # "EATING" /\ u.s[RIGHT(j)'] # "EATING"
    BY DEF Apart, u
  <2>2. states[j] = "EATING" /\ j \in Seats
    BY <1>7, <1>8, <1>12, <1>14, <2>1
  <2>3. states[LEFT(j)] # "EATING" /\ states[RIGHT(j)] # "EATING"
    BY <1>0, <1>6, <2>2 DEF Fine, Apart
  <2>4. states[LEFT(j)'] # "EATING" /\ states[RIGHT(j)'] # "EATING"
    BY <1>7, <1>13, <2>2, <2>3
  <2>. QED  BY <1>8, <1>13, <2>2, <2>4
<1>16. (\A j \in Seats : Fed(Table, j))'
  <2>1. SUFFICES ASSUME NEW j \in Seats', u.s[j] = "HUNGRY"
                 PROVE  \/ "EATING" \in {u.s[LEFT(j)'], u.s[RIGHT(j)']}
                        \/ u.meals[j] = MAX_CONSECUTIVE_MEALS
                        \/ \E k \in {LEFT(j)', RIGHT(j)'} : k >= InitialPhilosophers
    BY DEF Fed, u
  <2>2. states[j] = "HUNGRY" /\ j \in Seats /\ j \in Ids
    BY <1>7, <1>8, <1>12, <1>14, <2>1
  <2>3. Fed(Table, j)
    BY <1>0, <2>2 DEF Fine
  <2>4. CASE j = 0 \/ j = n - 1
    BY <1>3, <1>13, <2>2, <2>4
  <2>5. CASE j # 0 /\ j # n - 1
    <3>1. LEFT(j)' = LEFT(j) /\ RIGHT(j)' = RIGHT(j) /\ LEFT(j) \in Ids /\ RIGHT(j) \in Ids /\ j # n
      BY <1>13, <2>2, <2>5
    <3>. QED  BY <1>6, <1>8, <2>2, <2>3, <3>1 DEF Fed
  <2>. QED  BY <2>4, <2>5
<1>. QED  BY <1>0, <1>5, <1>11, <1>15, <1>16 DEF GrowingInv

LEMMA GrowingInit == ASSUME TableAssumption, Init PROVE GrowingInv
<1>1. ChangingInv /\ Typed
  BY ChangingInit DEF ChangingInv
<1>2. numPhilosophers = InitialPhilosophers /\ numPhilosophers \in Nat \ {0, 1}
  BY <1>1, TypedFacts DEF Init
<1>3. Seated
  BY <1>2 DEF Init, Seated
<1>4. Table.s = states /\ Table.sems = sem /\ Table.meals = consecutiveMeals
  BY DEF Table
<1>5. \A j \in Ids : Table.s[j] = "THINKING" /\ Table.sems[j] = Closed
  BY <1>4 DEF Init
<1>6. \A p \in Pids : Fits(Table, pc[p], id[p])
  BY DEF Init, Fits
<1>7. Matched(Table, pc)
  BY <1>5, <1>6 DEF Init, Matched
<1>8. Apart(Table) /\ \A j \in Seats : Fed(Table, j)
  BY <1>1, <1>5, TypedFacts DEF Apart, Fed
<1>. QED  BY <1>1, <1>3, <1>7, <1>8 DEF GrowingInv

LEMMA GrowingStep ==
    ASSUME TableAssumption, Inputs \subseteq {"a"}, GrowingInv, [Next]_vars
    PROVE  GrowingInv'
<1>1. CASE UNCHANGED vars
  <2>1. /\ UNCHANGED <<states, consecutiveMeals, hungerTime, numPhilosophers, sem>>
        /\ UNCHANGED <<id, pc, main, i, pids, indexPids>>
    BY <1>1 DEF vars, tableVars, pidVars, mainVars
  <2>2. ChangingInv'
    BY <1>1, ChangingStep DEF GrowingInv
  <2>3. Table' = Table
    BY <2>1 DEF Table
  <2>4. Seated' /\ Matched(Table, pc)'
    BY <2>1, <2>3 DEF GrowingInv, Seated, Matched
  <2>5. Apart(Table)' /\ (\A j \in Seats : Fed(Table, j))'
    BY <2>1, <2>3 DEF GrowingInv, Apart, Fed, Seats, LEFT, RIGHT
  <2>. QED  BY <2>2, <2>4, <2>5 DEF GrowingInv
<1>2. CASE Next
  <2>1. main \notin {"r", "q", "kill"}
    BY DEF GrowingInv, Seated
  <2>2. ~Remove /\ ~QuitClose /\ ~QuitKill
    BY <2>1 DEF Remove, QuitClose, QuitKill
  <2>. QED  BY <1>2, <2>2, PhilosopherGrows, InitPhilosophersGrows, SpawnNextGrows, KeyGrows,
         AddGrows DEF Next
<1>. QED  BY <1>1, <1>2

LEMMA GrowingSafe ==
    ASSUME TableAssumption, GrowingInv
    PROVE  /\ PhilosophersTypeOK /\ NeighboursExclusive /\ NoForgottenHunger
           /\ NotAllWait /\ MutexExclusive
<1>1. Typed /\ Seated /\ Alone /\ NotAllWait /\ Matched(Table, pc) /\ Apart(Table)
  BY DEF GrowingInv, ChangingInv
<1>2. Table.s = states /\ Table.sems = sem /\ Table.meals = consecutiveMeals
  BY DEF Table
<1>3. PhilosophersTypeOK
  <2>1. i \in Ids /\ numPhilosophers \in Nat /\ MAX_PHILOSOPHERS \in Nat
    BY <1>1, TypedFacts DEF Typed, TableAssumption
  <2>2. indexPids \in 0 .. MAX_PHILOSOPHERS
    BY <1>1, <2>1 DEF Seated, Typed
  <2>3. \A j \in Ids : sem[j] \in {Closed, 0, 1}
    BY <1>1, <1>2 DEF Matched
  <2>4. \A j \in Ids : /\ states[j] \in {"THINKING", "HUNGRY", "EATING"}
                       /\ consecutiveMeals[j] \in 0 .. MAX_CONSECUTIVE_MEALS
                       /\ hungerTime[j] \in 0 .. HUNGER_THRESHOLD + 1
    BY <1>1, TypedFacts DEF Moods
  <2>. QED  BY <1>1, <2>1, <2>2, <2>3, <2>4 DEF PhilosophersTypeOK, Seated, Typed, Alone
<1>4. NeighboursExclusive
  <2>1. SUFFICES ASSUME NEW p \in Pids, NEW q \in Pids, p # q, Eating(p), Eating(q)
                 PROVE  id[p] \notin {id[q], LEFT(id[q]), RIGHT(id[q])}
    BY DEF NeighboursExclusive
  <2>2. pc[p] # "none" /\ pc[q] # "none"
    BY <2>1 DEF Eating
  <2>3. id[p] # id[q] /\ id[q] \in Seats
    BY <1>1, <2>1, <2>2, SeatOf DEF Seated
  <2>4. Fits(Table, pc[p], id[p]) /\ Fits(Table, pc[q], id[q])
    BY <1>1 DEF Matched
  <2>5. states[id[p]] = "EATING" /\ states[id[q]] = "EATING"
    BY <1>2, <2>1, <2>4 DEF Fits, Eating
  <2>. QED  BY <1>1, <1>2, <2>3, <2>5 DEF Apart
<1>5. NoForgottenHunger
  BY <1>2 DEF GrowingInv, Fed, NoForgottenHunger, Seats
<1>. QED  BY <1>1, <1>3, <1>4, <1>5, AloneCounts

(* As long as no philosopher is removed and phylo is not quit, whatever    *)
(* the number of seats and however the steps interleave: nobody eats next  *)
(* to somebody who eats, and the private semaphores never count above one. *)
THEOREM NeighboursHold ==
  TableAssumption /\ Inputs \subseteq {"a"} => (Spec => [](PhilosophersTypeOK /\ NeighboursExclusive))
<1>. SUFFICES ASSUME TableAssumption, Inputs \subseteq {"a"}
              PROVE  Spec => [](PhilosophersTypeOK /\ NeighboursExclusive)
  OBVIOUS
<1>1. Init => GrowingInv
  BY GrowingInit
<1>2. GrowingInv /\ [Next]_vars => GrowingInv'
  BY GrowingStep
<1>3. GrowingInv => PhilosophersTypeOK /\ NeighboursExclusive
  BY GrowingSafe
<1>. HIDE DEF GrowingInv, Init, Next, vars, PhilosophersTypeOK, NeighboursExclusive
<1>. QED  BY <1>1, <1>2, <1>3, PTL DEF Spec

(* And only a philosopher beside one that was added can be hungry, entitled *)
(* to eat and between two that do not.                                      *)
THEOREM HungerHolds ==
  TableAssumption /\ Inputs \subseteq {"a"} => (Spec => []NoForgottenHunger)
<1>. SUFFICES ASSUME TableAssumption, Inputs \subseteq {"a"} PROVE Spec => []NoForgottenHunger
  OBVIOUS
<1>1. Init => GrowingInv
  BY GrowingInit
<1>2. GrowingInv /\ [Next]_vars => GrowingInv'
  BY GrowingStep
<1>3. GrowingInv => NoForgottenHunger
  BY GrowingSafe
<1>. HIDE DEF GrowingInv, Init, Next, vars, NoForgottenHunger
<1>. QED  BY <1>1, <1>2, <1>3, PTL DEF Spec

(* Whatever is pressed, they never all wait with meals left to each.       *)
THEOREM NotAllWaitHolds == TableAssumption => (Spec => []NotAllWait)
<1>. SUFFICES ASSUME TableAssumption PROVE Spec => []NotAllWait
  OBVIOUS
<1>1. Init => ChangingInv
  BY ChangingInit
<1>2. ChangingInv /\ [Next]_vars => ChangingInv'
  BY ChangingStep
<1>3. ChangingInv => NotAllWait
  BY DEF ChangingInv
<1>. HIDE DEF ChangingInv, Init, Next, vars, NotAllWait
<1>. QED  BY <1>1, <1>2, <1>3, PTL DEF Spec
=============================================================================
