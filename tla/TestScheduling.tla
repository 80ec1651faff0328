--------------------------- MODULE TestScheduling ---------------------------
(***************************************************************************)
(* The user programs testProcesses and testPrio (Userland/.../tests),      *)
(* started in the foreground by the shell, on the modelled scheduler.  The *)
(* first creates, kills, blocks and unblocks its workers at random; the    *)
(* second is a fixed list of calls.  The workers yield for ever.           *)
(***************************************************************************)
EXTENDS Schedule, SequencesExt

CONSTANTS TOTAL_PROCESSES   \* the argument of testProcesses

(* What the constants must satisfy; assumed where they are given values.  *)
TestSchedulingAssumption ==
  /\ TOTAL_PROCESSES \in Nat \ {0} /\ QtyReadyLevels >= 3
  /\ {"create", "ctrlC", "exit", "wait", "yield", "kill", "block", "unblock",
      "nice"} \subseteq Syscalls

VARIABLES label,    \* where the test is; "prompt" before it is started
          rq,       \* its loop index; of testPrio, the calls it has made
          p_rqs     \* per worker, its pid and the state it should be in

testVars == <<label, rq, p_rqs>>

TEST_PID == SHELL_PID + 1
Requests == 0 .. TOTAL_PROCESSES - 1
AllRequests == {p_rqs[r] : r \in Requests}

TestInit ==
  /\ Init /\ label = "prompt" /\ rq = 0
  /\ p_rqs = [r \in Requests |-> [pid |-> IDLE_PID, state |-> "KILLED"]]

Runs(pid) == UserMode /\ currentPid = pid
At(where) == Runs(TEST_PID) /\ label = where

(* readCommand: the shell starts the command and waits for it.             *)
Shell ==
  /\ Runs(SHELL_PID) /\ UNCHANGED <<rq, p_rqs>>
  /\ \/ label = "prompt" /\ CreateProcess(1, TRUE) /\ label' = "create"
     \/ label # "prompt" /\ WaitPid(TEST_PID) /\ UNCHANGED label
(* endless_loop1, endless_pid                                              *)
Worker == UserMode /\ currentPid > TEST_PID /\ Yield /\ UNCHANGED testVars

-----------------------------------------------------------------------------
(* test_processes                                                          *)
Advance(loop, after) ==
  /\ rq' = (rq + 1) % TOTAL_PROCESSES /\ label' = IF rq' = 0 THEN after ELSE loop
Becomes(state) == p_rqs' = [p_rqs EXCEPT ![rq].state = state]
NoneAlive == \A q \in AllRequests : q.state = "KILLED"
Pid == p_rqs[rq].pid

CreateWorker ==
  /\ At("create") /\ CreateProcess(0, FALSE)
  /\ p_rqs' = [p_rqs EXCEPT ![rq] = [pid |-> nextAvailablePid, state |-> "RUNNING"]]
  /\ Advance("create", "kill")
KillWorker ==
  /\ At("kill") /\ p_rqs[rq].state # "KILLED" /\ Kill(Pid)
  /\ Becomes("KILLED") /\ label' = "reap" /\ UNCHANGED rq
ReapWorker ==
  /\ At("reap") /\ WaitPid(Pid)
  /\ Advance("kill", "unblock") /\ UNCHANGED p_rqs
BlockWorker ==
  /\ At("kill") /\ p_rqs[rq].state = "RUNNING" /\ Block(Pid)
  /\ Becomes("BLOCKED") /\ Advance("kill", "unblock")
UnblockForgotten ==    \* mutant of UnblockWorker: the state is not recorded
  /\ At("unblock") /\ p_rqs[rq].state = "BLOCKED" /\ Unblock(Pid)
  /\ Advance("unblock", IF NoneAlive THEN "create" ELSE "kill") /\ UNCHANGED p_rqs
UnblockWorker ==
  /\ At("unblock") /\ p_rqs[rq].state = "BLOCKED" /\ Unblock(Pid)
  /\ Becomes("RUNNING") /\ Advance("unblock", "kill")
(* The random number asks for nothing, or for what is already so.          *)
Pass ==
  /\ \/ At("kill") /\ p_rqs[rq].state # "RUNNING" /\ Advance("kill", "unblock")
     \/ At("unblock") /\ Advance("unblock", IF NoneAlive THEN "create" ELSE "kill")
  /\ UNCHANGED <<vars, p_rqs>>
TestProcesses ==
  \/ CreateWorker \/ KillWorker \/ ReapWorker \/ BlockWorker \/ UnblockWorker
  \/ Pass

(* test_prio: the calls one after another, whatever they return.           *)
ForAll(op) == [r \in 1 .. TOTAL_PROCESSES |-> <<op, r - 1>>]
Script ==
  ForAll("create") \o ForAll("niceOwn") \o ForAll("block") \o ForAll("niceMedium")
    \o ForAll("unblock") \o ForAll("kill")
PrioCall(op, r) ==
  /\ \/ op = "create" /\ CreateProcess(2, FALSE)
     \/ op = "niceOwn" /\ SetPriority(p_rqs[r].pid, r)
     \/ op = "block" /\ Block(p_rqs[r].pid)
     \/ op = "niceMedium" /\ SetPriority(p_rqs[r].pid, 1)
     \/ op = "unblock" /\ Unblock(p_rqs[r].pid)
     \/ op = "kill" /\ Kill(p_rqs[r].pid)
  /\ p_rqs' = [p_rqs EXCEPT ![r] =
       [pid |-> IF op = "create" THEN nextAvailablePid ELSE @.pid, state |-> op]]
TestPrio ==
  /\ At("create") /\ rq < Len(Script)
  /\ PrioCall(Script[rq + 1][1], Script[rq + 1][2]) /\ rq' = rq + 1
  /\ label' = (IF rq' = Len(Script) THEN "return" ELSE label)

(* The return of the test through processWrapper.                          *)
Return == At("return") /\ Exit /\ label' = "done" /\ UNCHANGED <<rq, p_rqs>>

-----------------------------------------------------------------------------
Kernel ==
  (TimerTick \/ StartShell \/ SoftTick \/ ForegroundKill \/ WaitReturn) /\ UNCHANGED testVars
Interrupt == CtrlC /\ UNCHANGED testVars

ProcessesNext == Shell \/ Worker \/ TestProcesses \/ Kernel \/ Interrupt
PrioNext == Shell \/ Worker \/ TestPrio \/ Return \/ Kernel \/ Interrupt

(* What the shell and the test do between two ticks.                       *)
ProcessesProgram == Shell \/ TestProcesses
PrioProgram == Shell \/ TestPrio \/ Return

-----------------------------------------------------------------------------
(* "ERROR killing process" and its like are never printed: every pid the   *)
(* test holds names the worker it created, in the state it put it in,      *)
(* while the timer and Ctrl+C interleave with its calls.                   *)
NoTestError ==
  InTable(TEST_PID) => \A q \in AllRequests :
    /\ q.state = "RUNNING" => Scheduled(q.pid)
    /\ q.state = "BLOCKED" => status[q.pid] = "BLOCKED"
(* A round of the test leaves nothing behind in the process table.         *)
RoundsLeaveNothing == At("create") /\ rq = 0 => processCount = TEST_PID + 1
(* The test is gone and the shell is back from waiting for it.             *)
AtPrompt == ~InTable(TEST_PID) /\ SHELL_PID \notin waiting /\ Scheduled(SHELL_PID)
(* "CHANGING PRIORITIES WHILE BLOCKED": each worker runs, or not, as the   *)
(* test asked last, with the priority of its last my_nice: one set while   *)
(* it is blocked stays, and neither block nor unblock restores another.    *)
LastNice(r, call) ==
  CASE call = "create" -> 2 [] call \in {"niceOwn", "block"} -> r [] OTHER -> 1
KeepsPriority ==
  \A r \in Requests : LET q == p_rqs[r] IN
    q.state \notin {"KILLED", "kill"} =>
      /\ priority[q.pid] = LastNice(r, q.state)
      /\ IF q.state \in {"block", "niceMedium"} THEN status[q.pid] = "BLOCKED"
                                               ELSE Scheduled(q.pid)
=============================================================================
