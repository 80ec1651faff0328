------------------------------ MODULE UserTests -----------------------------
(***************************************************************************)
(* The test programs of Userland/SampleCodeModule/tests, each started by   *)
(* the user: testSync, testProcesses and testPrio on the scheduler, and    *)
(* test_mm on the memory manager.  Init chooses which.  The three that     *)
(* need the scheduler share its variables.                                 *)
(***************************************************************************)
EXTENDS TestSync

CONSTANT TOTAL_PROCESSES                                     \* TestScheduling
CONSTANTS Memory, Sizes, Programs, MAX_BLOCKS, max_memory    \* TestMemory

VARIABLES test, label, rq, p_rqs
VARIABLES handed, phase, mm_rqs, mm_i, content, errors

schedulingVars == <<label, rq, p_rqs>>
memoryVars == <<handed, phase, mm_rqs, mm_i, content, errors>>
userTestsVars == <<test, testSyncVars, schedulingVars, memoryVars>>

Scheduling == INSTANCE TestScheduling
MM == INSTANCE TestMemory WITH i <- mm_i

ASSUME UserTestsAssumption ==
  Scheduling!TestSchedulingAssumption /\ MM!TestMemoryAssumption

(* What a test has no use for stays blank.                                 *)
NoScheduling == label = "none" /\ rq = 0 /\ p_rqs = <<>>
NoSync ==
  /\ open = <<>> /\ value = <<>> /\ waitingQueue = <<>> /\ downOn = <<>>
  /\ global = 0 /\ pc = <<>> /\ i = <<>> /\ aux = <<>> /\ inc = <<>> /\ pids = <<>>
UserTestsInit ==
  /\ MM!TestInit
  /\ \/ test = "sync" /\ TestSyncInit /\ NoScheduling
     \/ test \in {"processes", "prio"} /\ Scheduling!TestInit /\ NoSync
     \/ test = "mm" /\ Init /\ NoSync /\ NoScheduling

(* A step of one test leaves the variables of the others as they are.      *)
Sync(Step) == test = "sync" /\ Step /\ UNCHANGED <<test, schedulingVars, memoryVars>>
Schedules(name, Step) ==
  /\ test = name /\ Step
  /\ UNCHANGED <<test, open, value, waitingQueue, downOn, programVars, memoryVars>>
Uses(Step) == test = "mm" /\ Step /\ UNCHANGED <<test, testSyncVars, schedulingVars>>
UserTestsNext ==
  \/ Sync(TestSyncNext) \/ Schedules("processes", Scheduling!ProcessesNext)
  \/ Schedules("prio", Scheduling!PrioNext) \/ Uses(MM!TestNext)

(* The timer ticks, kernel code comes to its end, and a process that is    *)
(* dispatched again and again executes an instruction before some tick.    *)
ProgramStep ==
  \/ Sync(Program) \/ Schedules("processes", Scheduling!ProcessesProgram)
  \/ Schedules("prio", Scheduling!PrioProgram)
UserTestsFairness ==
  /\ WF_userTestsVars(Sync(Tick)) /\ WF_userTestsVars(Sync(Kernel))
  /\ WF_userTestsVars(\E name \in {"processes", "prio"} : Schedules(name, Scheduling!Kernel))
  /\ \A p \in Pids \ {IDLE_PID} : SF_userTestsVars(currentPid = p /\ ProgramStep)
UserTestsSpec == UserTestsInit /\ [][UserTestsNext]_userTestsVars /\ UserTestsFairness

-----------------------------------------------------------------------------
(* No decrement and no increment of testSync is lost: one process at a     *)
(* time is in slowInc, and the sum is right at the end and on the way.     *)
UpdatesKept == test = "sync" => OneInSlowInc /\ NoLostUpdate /\ FinalValueIsZero
(* No test prints its error line: every pid testProcesses holds names its  *)
(* worker in the state it was put in, and no byte of test_mm is written by *)
(* another program that runs it; and neither leaves a process or a piece   *)
(* of memory behind when a round is over.                                  *)
NoTestError ==
  /\ test = "processes" => Scheduling!NoTestError /\ Scheduling!RoundsLeaveNothing
  /\ test = "mm" => MM!NoTestError /\ MM!AllAccounted
(* Each worker of testPrio is blocked or not, and has the priority, as the *)
(* last calls on it say, also once Ctrl+C has killed the test.             *)
KeepsPriority == test = "prio" => Scheduling!KeepsPriority
(* Every one gives the prompt back: testSync comes to its end, testPrio to *)
(* its own, with its workers gone, or to Ctrl+C's, which leaves them; and  *)
(* testProcesses, which has none, dies of Ctrl+C wherever it is.           *)
TestsReturn ==
  /\ <>(test = "sync" => Alive(SHELL_PID) /\ i[SHELL_PID] = 2 /\ waiting = {}
                           /\ ~InTable(pids[0]))
  /\ <>[](test = "prio" => /\ Scheduling!AtPrompt
                            /\ label = "done" => processCount = Scheduling!TEST_PID)
  /\ (test = "processes" /\ shouldKillForeground /\ Scheduling!Alive(Scheduling!TEST_PID)
        /\ SHELL_PID \in waiting) ~> (test = "processes" /\ Scheduling!AtPrompt)
=============================================================================
