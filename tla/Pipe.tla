-------------------------------- MODULE Pipe --------------------------------
(***************************************************************************)
(* The pipes of Kernel/pipes/pipeManager.c: a table of rings of PIPE_SIZE  *)
(* bytes, the two processes each of them knows, and the calls that wait    *)
(* inside the kernel until the other end has made room or data.            *)
(*                                                                         *)
(* A call runs in one step up to its yield(); any process that is ready    *)
(* may run next (the scheduler's own order is the subject of Schedule).    *)
(* Processes are created by the shell as in "writer | reader", and by      *)
(* killProcess they lose their descriptors before they die.                *)
(***************************************************************************)
EXTENDS Integers, Sequences, FiniteSets, SequencesExt

CONSTANTS Writers, Readers,  \* pids the shell puts at the left and the right
          Shell,             \* the pid of the shell
          MAX_PIPES, PIPE_SIZE,
          Byte, Eof,
          NoPid, NoPipe,
          Lens,              \* how much one read asks for
          Calls,             \* what else a program does, of CallNames
          MaxSent,           \* bound: bytes one pipe ever carries
          MaxGrants          \* bound: value of qtyPipes, 2^16 or more for none

CallNames == {"kill", "early", "unblock", "open", "close", "reuse"}

ASSUME SizeAssumption == PIPE_SIZE \in Nat \ {0} /\ MAX_PIPES \in Nat \ {0}
ASSUME BytesAssumption == Eof \notin Byte /\ Calls \subseteq CallNames

VARIABLES status,        \* per process: none, ready or blocked
          fds,           \* the pipe among its descriptors, if any
          call,          \* the kernel call it is inside of
          pipes,         \* slot |-> NoPipe or the pipe
          lastFreePipe, qtyPipes,
          handle,        \* the pipeline under construction: slot and side
          taken, ended,  \* history: what the reader of each pipe was handed
          fault          \* a table was indexed with -1 or freed memory used

tableVars == <<lastFreePipe, qtyPipes, handle>>
procVars == <<status, fds, call>>
history == <<taken, ended>>
vars == <<procVars, pipes, tableVars, history, fault>>

Procs == {Shell} \cup Writers \cup Readers
Slots == 0 .. MAX_PIPES - 1
Cells == 0 .. PIPE_SIZE - 1
Blank == CHOOSE b \in Byte : TRUE
NoCall == [op |-> "none"]
QtyRange == 65536                        \* qtyPipes is a uint16_t

NewPipe == [buffer |-> [i \in Cells |-> Blank], startPosition |-> 0,
            currentSize |-> 0, inputPid |-> NoPid, outputPid |-> NoPid,
            isBlocking |-> FALSE]
PipeRecord ==
  [buffer : [Cells -> Byte \cup {Eof}], startPosition : Cells,
   currentSize : 0 .. PIPE_SIZE, inputPid : Procs \cup {NoPid},
   outputPid : Procs \cup {NoPid}, isBlocking : BOOLEAN]

(* The left commands, the right ones and the shell have pids of their own, *)
(* nobody and no pipe are told from them, and a read asks for something.   *)
ASSUME NamesAssumption ==
  /\ Byte # {} /\ NoPid \notin Procs
  /\ NoPipe \notin Slots /\ NoPipe \notin PipeRecord
  /\ Writers \cap Readers = {} /\ Shell \notin Writers \cup Readers
  /\ Lens \subseteq Nat \ {0}

BufferPosition(pipe) == (pipe.startPosition + pipe.currentSize) % PIPE_SIZE
EofStored(pipe) == pipe.buffer[BufferPosition(pipe)] = Eof
Full(pipe) == pipe.currentSize >= PIPE_SIZE

(* The bytes in the ring, oldest first.                                    *)
Contents(pipe) ==
  [i \in 1 .. pipe.currentSize |->
     pipe.buffer[(pipe.startPosition + i - 1) % PIPE_SIZE]]

AtMost(a, b) == IF a < b THEN a ELSE b

(* The inner loop of transmitPipeData: as much of bytes as there is room   *)
(* for.  Eof, always sent alone, takes the next cell but is not counted.   *)
(* Mutant: the room left is not looked at.                                 *)
AcceptedAll(pipe, bytes) == bytes
Accepted(pipe, bytes) ==
  SubSeq(bytes, 1, AtMost(Len(bytes), PIPE_SIZE - pipe.currentSize))
Store(pipe, bytes) ==
  LET distance(i) == (i - BufferPosition(pipe)) % PIPE_SIZE
  IN [pipe EXCEPT
        !.buffer = [i \in Cells |-> IF distance(i) < Len(bytes)
                                    THEN bytes[distance(i) + 1] ELSE @[i]],
        !.currentSize = IF bytes = <<Eof>> THEN @ ELSE @ + Len(bytes)]

(* The inner loop of retrievePipeData: len bytes, or the size and then Eof *)
Given(pipe, len) == SubSeq(Contents(pipe), 1, AtMost(len, pipe.currentSize))
Drop(pipe, n) ==
  [pipe EXCEPT !.startPosition = (@ + n) % PIPE_SIZE, !.currentSize = @ - n]

Init ==
  /\ status = [p \in Procs |-> IF p = Shell THEN "ready" ELSE "none"]
  /\ fds = [p \in Procs |-> NoPipe]
  /\ call = [p \in Procs |-> NoCall]
  /\ pipes = [s \in Slots |-> NoPipe]
  /\ lastFreePipe = MAX_PIPES - 1 /\ qtyPipes = 0 /\ handle = <<>>
  /\ taken = [s \in Slots |-> <<>>] /\ ended = [s \in Slots |-> FALSE]
  /\ fault = FALSE

Live == {s \in Slots : pipes[s] # NoPipe}
InUser(p) == status[p] = "ready" /\ call[p] = NoCall

(* setStatus(pid, READY); an end that nobody has taken is (uint16_t) -1.   *)
Woken(st, pid) ==
  [p \in Procs |-> IF p = pid /\ st[p] = "blocked" THEN "ready" ELSE st[p]]

-----------------------------------------------------------------------------
(* requestNewPipeHandle: the scan goes down from lastFreePipe to a NULL,   *)
(* and it never returns when there is none.                                *)
NextFreePipe ==
  LET back(s) == (lastFreePipe - s) % MAX_PIPES
  IN CHOOSE s \in Slots \ Live : \A t \in Slots \ Live : back(s) <= back(t)
GetPipe(p) ==
  /\ InUser(p) /\ p = Shell /\ handle = <<>> /\ qtyPipes < MaxGrants
  /\ \A q \in Procs \ {Shell} : status[q] = "none"
  /\ IF qtyPipes >= MAX_PIPES
     THEN UNCHANGED <<pipes, tableVars>>
     ELSE /\ Live # Slots
          /\ lastFreePipe' = NextFreePipe
          /\ pipes' = [pipes EXCEPT ![NextFreePipe] = NewPipe]
          /\ qtyPipes' = (qtyPipes + 1) % QtyRange
          /\ handle' = <<NextFreePipe, "left">>
  /\ UNCHANGED <<procVars, history, fault>>

(* grantPipeAccessToProcess: counted before it is known to succeed, so     *)
(* grants that fail wrap the counter in the end.                           *)
Opened(s) == IF pipes[s] = NoPipe THEN NewPipe ELSE pipes[s]
Granted(pipe, pid, mode) ==
  CASE mode = "read" /\ pipe.outputPid = NoPid -> [pipe EXCEPT !.outputPid = pid]
    [] mode = "write" /\ pipe.inputPid = NoPid -> [pipe EXCEPT !.inputPid = pid]
    [] OTHER -> pipe
(* Mutant: only grants on a pipe that exists are counted.                  *)
GrantUncounted(pid, s, mode) ==
  /\ pipes' = [pipes EXCEPT ![s] = Granted(Opened(s), pid, mode)]
  /\ qtyPipes' = IF s \in Live THEN (qtyPipes + 1) % QtyRange ELSE qtyPipes
Grant(pid, s, mode) ==
  /\ pipes' = [pipes EXCEPT ![s] = Granted(Opened(s), pid, mode)]
  /\ qtyPipes' = (qtyPipes + 1) % QtyRange

(* createProcess with the descriptors the shell prepared for a pipeline:   *)
(* the left command first, with the pipe as STDOUT, then the right one,    *)
(* with it as STDIN.  Its other descriptors are the keyboard and screen.   *)
Spawn(p, child) ==
  LET s == handle[1]
      left == handle[2] = "left"
  IN /\ handle # <<>> /\ InUser(p) /\ p = Shell /\ qtyPipes < MaxGrants
     /\ child \in (IF left THEN Writers ELSE Readers) /\ status[child] = "none"
     /\ status' = [status EXCEPT ![child] = "ready"]
     /\ fds' = [fds EXCEPT ![child] = s]
     /\ Grant(child, s, IF left THEN "write" ELSE "read")
     /\ handle' = IF left THEN <<s, "right">> ELSE <<>>
     /\ UNCHANGED <<call, lastFreePipe, history, fault>>

(* sys_pipeOpen on any slot, by any program.                               *)
Open(p, s, mode) ==
  /\ "open" \in Calls /\ InUser(p) /\ qtyPipes < MaxGrants
  /\ Grant(p, s, mode)
  /\ UNCHANGED <<procVars, lastFreePipe, handle, history, fault>>

-----------------------------------------------------------------------------
(* What follows a transmission: the caller returns to its program, or goes *)
(* on inside killProcess with the process whose end it has closed.         *)
Without(cs, p, victim) ==
  [q \in Procs |-> IF q = p \/ q = victim THEN NoCall ELSE cs[q]]
BeingKilled(v, p) == \E q \in Procs \ {p} : call[q] # NoCall
                        /\ call[q].op = "transmit" /\ call[q].victim = v
Finish(p, victim, st) ==
  /\ status' = IF victim = NoPid THEN st ELSE [st EXCEPT ![victim] = "none"]
  /\ call' = Without(call, p, victim)

(* One round of transmitPipeData for pid's end: store what fits, wake the  *)
(* reader if somebody waits, and wait when something is left.              *)
Suspend(p, c, st) ==
  /\ status' = [st EXCEPT ![c.pid] = "blocked"]
  /\ call' = [call EXCEPT ![p] = c]
(* Mutant: the reader is not woken.                                        *)
TransmitSilent(p, c) ==
  LET pipe == pipes[c.slot]
      put == Accepted(pipe, c.rest)
      left == SubSeq(c.rest, Len(put) + 1, Len(c.rest))
  IN /\ pipes' = [pipes EXCEPT ![c.slot] =
                    [Store(pipe, put) EXCEPT !.isBlocking = left # <<>>]]
     /\ IF left = <<>> THEN Finish(p, c.victim, status)
                       ELSE Suspend(p, [c EXCEPT !.rest = left], status)
     /\ UNCHANGED fault
Transmit(p, c) ==
  LET pipe == pipes[c.slot]
      put == Accepted(pipe, c.rest)
      left == SubSeq(c.rest, Len(put) + 1, Len(c.rest))
      st == IF pipe.isBlocking THEN Woken(status, pipe.outputPid) ELSE status
  IN /\ pipes' = [pipes EXCEPT ![c.slot] =
                    [Store(pipe, put) EXCEPT !.isBlocking = left # <<>>]]
     /\ IF left = <<>> THEN Finish(p, c.victim, st)
                       ELSE Suspend(p, [c EXCEPT !.rest = left], st)
     /\ fault' = \/ fault
                 \/ pipe.isBlocking /\ pipe.outputPid = NoPid
                 \/ left = <<>> /\ c.victim # NoPid /\ BeingKilled(c.victim, p)
TransmitCall(pid, s, bytes, victim) ==
  [op |-> "transmit", pid |-> pid, slot |-> s, rest |-> bytes,
   victim |-> victim, lost |-> FALSE]
StartTransmit(p, c) ==
  IF Full(pipes[c.slot])
  THEN /\ pipes' = [pipes EXCEPT ![c.slot].isBlocking = TRUE]
       /\ Suspend(p, c, status) /\ UNCHANGED fault
  ELSE Transmit(p, c)

(* sys_write of data by the process that holds the write end.              *)
Write(p, s, bytes) ==
  /\ InUser(p) /\ s \in Live /\ pipes[s].inputPid = p /\ ~EofStored(pipes[s])
  /\ Len(taken[s]) + pipes[s].currentSize + Len(bytes) <= MaxSent
  /\ StartTransmit(p, TransmitCall(p, s, bytes, NoPid))
  /\ UNCHANGED <<fds, tableVars, history>>

(* After yield(): nothing is stored when the table no longer holds this    *)
(* pipe, unless a new one was allocated at the same address.               *)
ResumeTransmit(p) ==
  LET c == call[p]
  IN /\ c # NoCall /\ c.op = "transmit" /\ status[p] = "ready"
     /\ \/ /\ c.slot \in Live /\ (c.lost => "reuse" \in Calls)
           /\ Transmit(p, c)
        \/ /\ c.slot \notin Live \/ c.lost
           /\ Finish(p, c.victim, status)
           /\ fault' = (fault \/ (c.victim # NoPid /\ BeingKilled(c.victim, p)))
           /\ UNCHANGED pipes
     /\ UNCHANGED <<fds, tableVars, history>>

-----------------------------------------------------------------------------
(* One round of retrievePipeData, for the process at the read end.         *)
Retrieve(p, s, len) ==
  LET pipe == pipes[s]
      got == Given(pipe, len)
      after == Drop(pipe, Len(got))
      sawEof == Len(got) < len /\ EofStored(after)
      left == len - Len(got)
      waits == left > 0 /\ ~sawEof
      st == IF pipe.isBlocking THEN Woken(status, pipe.inputPid) ELSE status
  IN /\ pipes' = [pipes EXCEPT ![s] = [after EXCEPT !.isBlocking = waits]]
     /\ taken' = [taken EXCEPT ![s] = @ \o got]
     /\ ended' = [ended EXCEPT ![s] = @ \/ sawEof]
     /\ status' = IF waits THEN [st EXCEPT ![p] = "blocked"] ELSE st
     /\ call' = [call EXCEPT ![p] = IF waits
                   THEN [op |-> "retrieve", slot |-> s, len |-> left,
                         lost |-> FALSE]
                   ELSE NoCall]
     /\ fault' = (fault \/ (pipe.isBlocking /\ pipe.inputPid = NoPid))
(* Mutant: the end of the stream does not keep the reader awake.           *)
EmptyBySize(pipe) == pipe.currentSize = 0
Empty(pipe) == pipe.currentSize = 0 /\ ~EofStored(pipe)
Read(p, s, len) ==
  /\ InUser(p) /\ s \in Live /\ pipes[s].outputPid = p
  /\ IF Empty(pipes[s])
     THEN /\ pipes' = [pipes EXCEPT ![s].isBlocking = TRUE]
          /\ status' = [status EXCEPT ![p] = "blocked"]
          /\ call' = [call EXCEPT ![p] = [op |-> "retrieve", slot |-> s,
                                          len |-> len, lost |-> FALSE]]
          /\ UNCHANGED <<history, fault>>
     ELSE Retrieve(p, s, len)
  /\ UNCHANGED <<fds, tableVars>>
ResumeRetrieve(p) ==
  LET c == call[p]
  IN /\ c # NoCall /\ c.op = "retrieve" /\ status[p] = "ready"
     /\ IF c.lost
        THEN /\ fault' = TRUE /\ call' = [call EXCEPT ![p] = NoCall]
             /\ UNCHANGED <<status, pipes, history>>
        ELSE Retrieve(p, c.slot, c.len)
     /\ UNCHANGED <<fds, tableVars>>

-----------------------------------------------------------------------------
(* revokePipeAccessFromProcess: the writer of a pipe sends the end of the  *)
(* stream (nothing when it is there already), else its reader frees it     *)
(* under whoever is suspended in a call on it, else nothing happens.       *)
Losing(cs, s) ==
  [q \in Procs |-> IF cs[q] # NoCall /\ cs[q].slot = s
                   THEN [cs[q] EXCEPT !.lost = TRUE] ELSE cs[q]]
FreePipe(s) ==
  /\ pipes' = [pipes EXCEPT ![s] = NoPipe]
  /\ qtyPipes' = (qtyPipes - 1) % QtyRange
  /\ taken' = [taken EXCEPT ![s] = <<>>]
  /\ ended' = [ended EXCEPT ![s] = FALSE]

Holds(v, s, end) == s \in Live /\ pipes[s][end] = v
Reads(v, s) == Holds(v, s, "outputPid") /\ pipes[s].inputPid # v

(* killProcess(victim) up to its death or its first yield.  It revokes the *)
(* pipe behind each of the three descriptors, of which one at most is a    *)
(* pipe; whether the victim is its writer or its reader is looked up in    *)
(* the pipe.  The descriptors stay, for a second kill to close again.      *)
KillProcess(p, victim) ==
  LET s == fds[victim]
  IN /\ UNCHANGED <<fds, lastFreePipe, handle>>
     /\ IF Holds(victim, s, "inputPid") /\ ~EofStored(pipes[s])
        THEN /\ StartTransmit(p, TransmitCall(victim, s, <<Eof>>, victim))
             /\ UNCHANGED <<qtyPipes, history>>
        ELSE IF Reads(victim, s)
        THEN /\ FreePipe(s)
             /\ status' = [status EXCEPT ![victim] = "none"]
             /\ call' = Losing(Without(call, p, victim), s)
             /\ fault' = (fault \/ BeingKilled(victim, p))
        ELSE /\ Finish(p, victim, status)
             /\ fault' = (fault \/ BeingKilled(victim, p))
             /\ UNCHANGED <<pipes, qtyPipes, history>>

(* Programs read their input to its end before they return.                *)
Exit(p) ==
  /\ InUser(p) /\ p # Shell
  /\ p \in Readers /\ "early" \notin Calls
       => \A s \in Live : pipes[s].outputPid = p => ended[s]
  /\ KillProcess(p, p)
Kill(p, victim) ==
  /\ "kill" \in Calls /\ InUser(p) /\ p # victim
  /\ victim # Shell /\ status[victim] # "none"
  /\ KillProcess(p, victim)

(* sys_pipeClose by the process itself; its descriptors stay as they are.  *)
Close(p, s) ==
  /\ "close" \in Calls /\ InUser(p)
  /\ \/ /\ Holds(p, s, "inputPid") /\ ~EofStored(pipes[s])
        /\ StartTransmit(p, TransmitCall(p, s, <<Eof>>, NoPid))
        /\ UNCHANGED <<qtyPipes, history>>
     \/ /\ Reads(p, s)
        /\ FreePipe(s)
        /\ call' = Losing(call, s)
        /\ UNCHANGED <<status, fault>>
  /\ UNCHANGED <<fds, lastFreePipe, handle>>

(* A process is unblocked by something that is not its pipe.               *)
Unblock(v) ==
  /\ "unblock" \in Calls /\ status[v] = "blocked"
  /\ status' = [status EXCEPT ![v] = "ready"]
  /\ UNCHANGED <<fds, call, pipes, tableVars, history, fault>>

Messages == UNION {[1 .. n -> Byte] : n \in 1 .. MaxSent}

Step(p) ==
  \/ \E s \in Slots : \E bytes \in Messages : Write(p, s, bytes)
  \/ \E s \in Slots : \E len \in Lens : Read(p, s, len)
  \/ ResumeTransmit(p)
  \/ ResumeRetrieve(p)
  \/ Exit(p)
  \/ \E s \in Slots : Close(p, s)
  \/ \E s \in Slots : \E mode \in {"read", "write"} : Open(p, s, mode)
  \/ \E v \in Procs : Kill(p, v)

Next ==
  \/ GetPipe(Shell)
  \/ \E child \in Procs \ {Shell} : Spawn(Shell, child)
  \/ \E p \in Procs : Step(p)
  \/ \E v \in Procs : Unblock(v)

Spec == Init /\ [][Next]_vars

-----------------------------------------------------------------------------
(* The table, the rings and the calls have their shapes; an end of a pipe  *)
(* is a process or nobody.                                                 *)
PipeTypeOK ==
  /\ status \in [Procs -> {"none", "ready", "blocked"}]
  /\ pipes \in [Slots -> PipeRecord \cup {NoPipe}]
  /\ lastFreePipe \in Slots /\ qtyPipes \in Nat /\ fault \in BOOLEAN
  /\ \A p \in Procs : call[p] # NoCall => call[p].slot \in Slots

(* Whatever the processes do, a pipe is a channel: bytes in order, none    *)
(* twice, the end after the last one, and no byte after the end.  A slot   *)
(* that is freed and created again is a new channel.                       *)
AsChannel ==
  INSTANCE Channel WITH
    Channels <- Slots, Capacity <- PIPE_SIZE,
    sent <- [s \in Slots |-> taken[s] \o
               (IF s \in Live THEN Contents(pipes[s]) ELSE <<>>)],
    closed <- [s \in Slots |-> s \in Live /\ EofStored(pipes[s])]
ImplementsChannel == AsChannel!Spec

(* No lost wakeup between the two loops: who sleeps in a call on a pipe    *)
(* that still exists has found it empty and without end, or full, it still *)
(* is, and the mark that makes the other end wake it is set.               *)
(* (pipeManager.c 156-160 and 186-191 against 170-173 and 203-206.)        *)
(* It says nothing of a writer whose reader has freed the pipe meanwhile:  *)
(* that one stays BLOCKED, and nobody wakes it (see NobodyStranded).       *)
SleepersWait ==
  \A p \in Procs :
    LET c == call[p]
    IN c # NoCall /\ status[p] = "blocked" /\ ~c.lost =>
         /\ pipes[c.slot].isBlocking
         /\ IF c.op = "retrieve" THEN Empty(pipes[c.slot])
                                 ELSE Full(pipes[c.slot])

(* Nobody is inside a call on a pipe that has been freed: the reader dies  *)
(* or closes (122-124) only when its writer has nothing left to write.     *)
(* True of a pipeline that reads its input to the end and is left alone;   *)
(* a reader that ends early or is killed leaves its writer BLOCKED.        *)
NobodyStranded == \A p \in Procs : call[p] # NoCall => ~call[p].lost

(* The scan of requestNewPipeHandle (71-73) stops: qtyPipes, which counts  *)
(* grants and not pipes, never falls below the number of live pipes, as    *)
(* long as it has not wrapped (MaxGrants < QtyRange).                      *)
CountCoversPool == Cardinality(Live) <= qtyPipes

(* The reader does not look at the table again after its yield (190): the  *)
(* pipe it goes on with is still the one it read from, and its own.        *)
ReaderKeepsPipe ==
  \A p \in Procs :
    LET c == call[p]
    IN c # NoCall /\ c.op = "retrieve"
         => ~c.lost /\ c.slot \in Live /\ pipes[c.slot].outputPid = p

(* In the pipelines the shell builds nobody is woken through an end that   *)
(* was never opened (processTable[(uint16_t) -1]) and nobody dies twice.   *)
NoFault == ~fault
=============================================================================
