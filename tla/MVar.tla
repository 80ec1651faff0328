-------------------------------- MODULE MVar --------------------------------
(***************************************************************************)
(* The synchronised variable of the command MVar (programs/MVar.c and      *)
(* MVar_wrap in programs/shell.c): a cell that is either empty or full,    *)
(* with one semaphore for each.  A run of the command puts and takes once  *)
(* by itself and leaves four processes behind, two that put 1 and 0 and    *)
(* two that take, for ever.  It may be run again while they are there: it  *)
(* finds the semaphores open, and clears the cell.  The user may kill any  *)
(* process anywhere.                                                       *)
(***************************************************************************)
EXTENDS Integers, Sequences

CONSTANTS MaxRuns,   \* bound: how often the command is run
          MaxPuts    \* bound: the puts that are remembered before forgetting

ASSUME RunsAssumption == MaxRuns \in Nat /\ MaxPuts \in Nat

VARIABLES value, semLector, semEscritor,
          pc,                \* per process: where it is; "none" before it exists
          created,           \* how many children this run has created
          runs, sent, taken  \* runs so far; what was put, what was taken

vars == <<value, semLector, semEscritor, pc, created, runs, sent, taken>>

Putters == {"one", "zero"} \X (1 .. MaxRuns)
Takers == {"red", "white"} \X (1 .. MaxRuns)
Main == <<"main", 0>>
Procs == {Main} \cup Putters \cup Takers
Order == <<"one", "red", "white", "zero">>
Closed == -1
ValueOf(p) == IF p[1] = "zero" THEN 0 ELSE 1

Init ==
  /\ value = 0 /\ semLector = Closed /\ semEscritor = Closed
  /\ pc = [p \in Procs |-> IF p = Main THEN "start" ELSE "none"]
  /\ created = 0 /\ runs = 0 /\ sent = <<>> /\ taken = <<>>

At(p, from, to) == pc[p] = from /\ pc' = [pc EXCEPT ![p] = to]
OpenedAgain(s, initial) == initial    \* mutant of Opened
Opened(s, initial) == IF s = Closed THEN initial ELSE s

-----------------------------------------------------------------------------
(* putMVar                                                                 *)
PutWait(p) ==
  /\ At(p, "put", "store") /\ semEscritor > 0 /\ semEscritor' = semEscritor - 1
  /\ UNCHANGED <<value, semLector, sent, taken>>
Store(p) ==
  /\ At(p, "store", "stored") /\ Len(sent) < MaxPuts
  /\ value' = ValueOf(p) /\ sent' = Append(sent, ValueOf(p))
  /\ UNCHANGED <<semLector, semEscritor, taken>>
PutPost(p) ==
  /\ At(p, "stored", IF p = Main THEN "take" ELSE "put")
  /\ semLector' = semLector + 1 /\ UNCHANGED <<value, semEscritor, sent, taken>>

(* takeMVar                                                                *)
TakeWait(p) ==
  /\ At(p, "take", "read") /\ semLector > 0 /\ semLector' = semLector - 1
  /\ UNCHANGED <<value, semEscritor, sent, taken>>
Read(p) ==
  /\ At(p, "read", "reset") /\ taken' = Append(taken, value)
  /\ UNCHANGED <<value, semLector, semEscritor, sent>>
Reset(p) ==
  /\ At(p, "reset", "took") /\ value' = 0
  /\ UNCHANGED <<semLector, semEscritor, sent, taken>>
TakePost(p) ==
  /\ At(p, "took", IF p = Main THEN "create" ELSE "take")
  /\ semEscritor' = semEscritor + 1 /\ UNCHANGED <<value, semLector, sent, taken>>

(* Each child has its own entry point; both ends are open in Main.         *)
Step(p) ==
  /\ \/ PutWait(p) \/ Store(p) \/ PutPost(p)
     \/ TakeWait(p) \/ Read(p) \/ Reset(p) \/ TakePost(p)
  /\ UNCHANGED <<created, runs>>

-----------------------------------------------------------------------------
(* MVar_wrap: openMVar, one put, one take, and the four children.          *)
Start ==
  /\ At(Main, "start", "open32") /\ runs < MaxRuns /\ runs' = runs + 1
  /\ value' = 0 /\ created' = 0
  /\ UNCHANGED <<semLector, semEscritor, sent, taken>>
Open32 ==
  /\ At(Main, "open32", "open33") /\ semLector' = Opened(semLector, 0)
  /\ UNCHANGED <<value, semEscritor, created, runs, sent, taken>>
Open33 ==
  /\ At(Main, "open33", "put") /\ semEscritor' = Opened(semEscritor, 1)
  /\ UNCHANGED <<value, semLector, created, runs, sent, taken>>
Create ==
  LET child == <<Order[created + 1], runs>>
  IN /\ pc[Main] = "create" /\ created' = created + 1
     /\ pc' = [pc EXCEPT ![child] = IF child \in Putters THEN "put" ELSE "take",
                         ![Main] = IF created' = Len(Order) THEN "start" ELSE @]
     /\ UNCHANGED <<value, semLector, semEscritor, runs, sent, taken>>
(* The command kill: a process may be anywhere, a semaphore stays as it is.*)
Kill(p) ==
  /\ pc[p] \notin {"none", "start"}
  /\ pc' = [pc EXCEPT ![p] = IF p = Main THEN "start" ELSE "none"]
  /\ UNCHANGED <<value, semLector, semEscritor, created, runs, sent, taken>>
(* Not the code: what has been put and taken is forgotten now and then.    *)
Forget ==
  /\ Len(sent) = MaxPuts /\ taken = sent /\ sent' = <<>> /\ taken' = <<>>
  /\ UNCHANGED <<value, semLector, semEscritor, pc, created, runs>>

Works ==
  \/ \E p \in Procs : Step(p)
  \/ Start \/ Open32 \/ Open33 \/ Create \/ Forget
Next == Works \/ \E p \in Procs : Kill(p)

Spec == Init /\ [][Next]_vars

-----------------------------------------------------------------------------
(* The cell is held by one process at a time, and whoever holds it finds   *)
(* both semaphores taken: no run, no second openMVar and no death ever     *)
(* makes it full and empty at once, or lets two in.                        *)
Inside(p) == pc[p] \in {"store", "stored", "read", "reset", "took"}
CellExclusive ==
  /\ \A p, q \in Procs : Inside(p) /\ Inside(q) => p = q
  /\ semLector + semEscritor <= 1
  /\ (\E p \in Procs : Inside(p)) => semLector = 0 /\ semEscritor = 0

(* A first run is a channel with room for one value: every value put is    *)
(* taken once, in order, by one of the readers.  A second run clears the   *)
(* cell without looking: from there on the channel is given up.            *)
AsChannel ==
  INSTANCE Channel WITH
    Channels <- {"mvar"}, Byte <- {0, 1}, Capacity <- 1,
    sent <- [c \in {"mvar"} |-> IF runs > 1 THEN <<>> ELSE sent],
    taken <- [c \in {"mvar"} |-> IF runs > 1 THEN <<>> ELSE taken],
    closed <- [c \in {"mvar"} |-> FALSE], ended <- [c \in {"mvar"} |-> FALSE]
=============================================================================
