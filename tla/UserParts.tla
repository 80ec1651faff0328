------------------------------ MODULE UserParts -----------------------------
(***************************************************************************)
(* The programs of Userland/SampleCodeModule that share no variable: the   *)
(* command MVar, the dining philosophers, the shell's line, the texts and  *)
(* arguments the user library converts, the snake, and a pipeline of two   *)
(* commands.  Init chooses which of them runs; each has its own module.    *)
(***************************************************************************)
EXTENDS MVar

CONSTANTS MAX_PHILOSOPHERS, MIN_PHILOSOPHERS, MAX_CONSECUTIVE_MEALS,  \* Philosophers
          HUNGER_THRESHOLD, Pids
CONSTANTS Builtins, Programs, LineKeys, Others, MAX_BUFFER, MaxLine   \* Shell
CONSTANTS Bits, HexDigits, PTR, MaxArgs, MaxLen, MaxText              \* Text
CONSTANTS WIDTH, HEIGHT, INITIAL_SNAKE_LENGTH, Keys,                  \* Snake
          MaxKeys, MaxFood
CONSTANTS Writers, Readers, Shell, MAX_PIPES, PIPE_SIZE, Byte, Eof,   \* Pipe
          NoPid, NoPipe, Lens, MaxSent, MaxGrants

VARIABLE part    \* what runs
VARIABLES numPhilosophers, pids, indexPids, states, consecutiveMeals,
          hungerTime, sem, id, place, main, i, dinners
VARIABLES keyboard, lastc, line, last_command, spilled, echo, unkept, waiting, ran
VARIABLES call, input, done, result
VARIABLES players, body, dir, food, gameOver, board, screen, keys, eaten
VARIABLES status, fds, inside, pipes, lastFreePipe, qtyPipes, handle, received,
          ended, fault

mvarVars == <<value, semLector, semEscritor, pc, created, runs, sent, taken>>
dinnerVars == <<numPhilosophers, pids, indexPids, states, consecutiveMeals,
                hungerTime, sem, id, place, main, i, dinners>>
lineVars == <<keyboard, lastc, line, last_command, spilled, echo, unkept, waiting, ran>>
textVars == <<call, input, done, result>>
snakeVars == <<players, body, dir, food, gameOver, board, screen, keys, eaten>>
pipeVars == <<status, fds, inside, pipes, lastFreePipe, qtyPipes, handle, received,
              ended, fault>>
partsVars == <<part, mvarVars, dinnerVars, lineVars, textVars, snakeVars, pipeVars>>

(* Philosophers come but do not go; or, at a table with one seat less and  *)
(* a process for each, the user presses every key.                         *)
Growing ==
  INSTANCE Philosophers WITH InitialPhilosophers <- MAX_PHILOSOPHERS - 1,
    Inputs <- {"a"}, MaxRuns <- 1, pc <- place, runs <- dinners
Changing ==
  INSTANCE Philosophers WITH InitialPhilosophers <- MIN_PHILOSOPHERS,
    MAX_PHILOSOPHERS <- MAX_PHILOSOPHERS - 1, Pids <- 1 .. MAX_PHILOSOPHERS - 1,
    Inputs <- {"a", "r", "q"}, MaxRuns <- 1, pc <- place, runs <- dinners
Line == INSTANCE Shell WITH Players <- {}, Keys <- LineKeys
Texts == INSTANCE Text
Snakes == INSTANCE Snake
(* A pipeline left alone; or with kills, early ends and stray wakeups.     *)
Pipeline == INSTANCE Pipe WITH Calls <- {}, call <- inside, taken <- received
Killed ==
  INSTANCE Pipe WITH Calls <- {"kill", "early", "unblock"}, call <- inside,
                     taken <- received

(* The command MVar run once, and nothing killed.                          *)
OneRun == Works /\ runs' <= 1

ASSUME UserPartsAssumption ==
  /\ Growing!TableAssumption /\ Changing!TableAssumption /\ Line!ShellAssumption /\ Texts!TextAssumption
  /\ Snakes!SnakeAssumption /\ Pipeline!SizeAssumption
  /\ Pipeline!BytesAssumption /\ Pipeline!NamesAssumption

PartsInit ==
  /\ part \in {"mvar", "quiet", "growing", "changing", "line", "texts", "snake",
               "pipeline", "killed"}
  /\ Init /\ Line!Init /\ Pipeline!Init
  /\ IF part = "changing" THEN Changing!Init ELSE Growing!Init
  /\ Snakes!Init /\ (part # "snake" => players = 1)
  /\ IF part = "texts" THEN Texts!Init
     ELSE call = "none" /\ input = 0 /\ done = TRUE /\ result = <<>>

(* A step of p: the others stay as they are.                               *)
Moves(p, its, itsStep) ==
  /\ part = p /\ itsStep /\ UNCHANGED part
  /\ IF its = "mvar" THEN TRUE ELSE UNCHANGED mvarVars
  /\ IF its = "dinner" THEN TRUE ELSE UNCHANGED dinnerVars
  /\ IF its = "line" THEN TRUE ELSE UNCHANGED lineVars
  /\ IF its = "texts" THEN TRUE ELSE UNCHANGED textVars
  /\ IF its = "snake" THEN TRUE ELSE UNCHANGED snakeVars
  /\ IF its = "pipe" THEN TRUE ELSE UNCHANGED pipeVars
PartsNext ==
  \/ Moves("mvar", "mvar", Next) \/ Moves("quiet", "mvar", OneRun)
  \/ Moves("growing", "dinner", Growing!Next)
  \/ Moves("changing", "dinner", Changing!Next) \/ Moves("line", "line", Line!Next)
  \/ Moves("texts", "texts", Texts!Next) \/ Moves("snake", "snake", Snakes!Next)
  \/ Moves("pipeline", "pipe", Pipeline!Next) \/ Moves("killed", "pipe", Killed!Next)

(* The scheduler reaches every process of MVar, which all have priority 1  *)
(* and block only on the semaphores; nobody has to start anything.  In a   *)
(* pipeline it runs every ready process again (Schedule); writers come to  *)
(* their end, readers read on until the end of the stream.                 *)
PartsFairness ==
  /\ WF_mvarVars(part = "quiet" /\ (Open32 \/ Open33 \/ Create))
  /\ WF_mvarVars(part = "quiet" /\ Forget)
  /\ \A p \in Procs : WF_mvarVars(part = "quiet" /\ Step(p))
  /\ \A p \in Pipeline!Procs :
       /\ WF_pipeVars(part = "pipeline" /\ Pipeline!ResumeTransmit(p))
       /\ WF_pipeVars(part = "pipeline" /\ Pipeline!ResumeRetrieve(p))
       /\ WF_pipeVars(part = "pipeline" /\ Pipeline!Exit(p))
       /\ WF_pipeVars(part = "pipeline" /\ \E s \in Pipeline!Slots : \E len \in Lens :
                                             Pipeline!Read(p, s, len))
       /\ WF_pipeVars(/\ part = "pipeline" /\ p \in Writers \cup Readers
                      /\ Pipeline!Spawn(Shell, p))
PartsSpec == PartsInit /\ [][PartsNext]_partsVars /\ PartsFairness

-----------------------------------------------------------------------------
(* One at a time at each fork while the table grows, and inside MUTEX also *)
(* when philosophers are removed and phylo quits (see Philosophers).       *)
TableExclusive ==
  /\ part = "growing" => /\ Growing!PhilosophersTypeOK /\ Growing!NeighboursExclusive
                         /\ Growing!MutexExclusive
  /\ part = "changing" => Changing!MutexExclusive
(* While the table grows only who sits beside somebody new can be          *)
(* forgotten, and at no table all wait for each other (see Philosophers).  *)
NoForgottenHunger ==
  /\ part = "growing" => Growing!NoForgottenHunger /\ Growing!NotAllWait
  /\ part = "changing" => Changing!NotAllWait
(* What the shell shows of a line inside its buffer is what it will run,   *)
(* but for keys it shows without keeping them, and what = brings back does *)
(* what it did before (see Shell).                                         *)
EchoMatchesBuffer == part = "line" => Line!EchoMatchesBuffer /\ Line!RecallRepeats
(* Numbers and arguments come through the conversions as they were, and    *)
(* the two readers of numbers differ only where the text is none (Text).   *)
ArgumentsArrive ==
  part = "texts" => Texts!NumbersRoundTrip /\ Texts!ReadersAgree /\ Texts!ArgumentsArrive
(* A snake is a path that does not cross itself, longer by what was eaten, *)
(* and never turns into its own neck; and the screen of one player shows   *)
(* his board (see Snake).                                                  *)
SnakeIsPath ==
  part = "snake" =>
    Snakes!SnakeIsPath /\ Snakes!NeverIntoNeck /\ Snakes!ScreenShowsGame
(* Whoever sleeps in a call on a pipe that still exists has a reason to,   *)
(* and the other end knows that it sleeps; a reader keeps its pipe across  *)
(* its sleep also when others are killed.  In a pipeline left alone nobody *)
(* reaches for the other end of a pipe that has none, and no reader frees  *)
(* a pipe its writer is still inside a call on.  A reader that is killed   *)
(* or ends early does that, and its writer stays BLOCKED for ever; what    *)
(* the part with kills says leaves that writer out (see Pipe).             *)
SleepersWait ==
  /\ part \in {"pipeline", "killed"} =>
       Pipeline!PipeTypeOK /\ Pipeline!SleepersWait /\ Pipeline!ReaderKeepsPipe
  /\ part = "pipeline" => Pipeline!NoFault /\ Pipeline!NobodyStranded
(* Both ways of passing data implement Channel: what is sent is taken      *)
(* once and in order.  Under kills too a pipe does, with the end of file   *)
(* after the last byte, and so does MVar's cell as long as no second run   *)
(* of the command clears it.                                               *)
ChannelsImplemented ==
  /\ AsChannel!Init /\ Killed!AsChannel!Init
  /\ [][/\ (part \in {"mvar", "quiet"}) => [AsChannel!Next]_(AsChannel!channelVars)
        /\ (part \in {"pipeline", "killed"})
          => [Killed!AsChannel!Next]_(Killed!AsChannel!channelVars)]_partsVars
(* A pipeline comes to its end: the writer's bytes and its end of file     *)
(* reach the reader however often both had to wait, and the pipe is freed. *)
(* And what is put into MVar's cell is taken, and the cell refilled by the *)
(* four processes the command leaves behind, for ever.                     *)
DataGetsThrough ==
  /\ \A s \in Pipeline!Slots :
       (part = "pipeline" /\ s \in Pipeline!Live) ~> (s \notin Pipeline!Live)
  /\ (part = "quiet" /\ sent # taken) ~> (sent = taken)
  /\ (part = "quiet" /\ pc[Main] = "start" /\ runs = 1 /\ sent = taken) ~> (sent # taken)
=============================================================================
