----------------------------- MODULE PipeProofs -----------------------------
(***************************************************************************)
(* Proofs about the pipes, for every number of processes, pipes and bytes. *)
(* First what the operators on one ring do, then the invariants, from the  *)
(* ones that hold whatever the programs call to those that need the shell  *)
(* to be the only one that opens pipes, then the refinement of Channel.    *)
(***************************************************************************)
EXTENDS Pipe, FiniteSetTheorems, SequenceTheorems, WellFoundedInduction, TLAPS

-----------------------------------------------------------------------------
(* What a call still has to store: bytes of the program, or the end alone. *)
Symbols == Byte \cup {Eof}
Rests == (Seq(Byte) \ {<<>>}) \cup {<<Eof>>}

LEMMA RestsLemma ==
  ASSUME NEW r \in Rests
  PROVE  /\ r \in Seq(Symbols) /\ Len(r) \in Nat \ {0}
         /\ \A i \in 1 .. Len(r) : r[i] \in Symbols
         /\ r # <<Eof>> => r \in Seq(Byte) /\ \A i \in 1 .. Len(r) : r[i] \in Byte /\ r[i] # Eof
<1>1. CASE r = <<Eof>>
  BY <1>1 DEF Symbols
<1>2. CASE r # <<Eof>>
  <2>1. r \in Seq(Byte) /\ r # <<>>
    BY <1>2 DEF Rests
  <2>2. r \in Seq(Symbols)
    BY <2>1, SeqMonotonic, Zenon DEF Symbols
  <2>. QED  BY <1>2, <2>1, <2>2, BytesAssumption, EmptySeq DEF Symbols
<1>. QED  BY <1>1, <1>2

(* Accepted is the longest beginning for which there is room.              *)
LEMMA AcceptedLemma ==
  ASSUME NEW pipe \in PipeRecord, NEW r \in Rests
  PROVE  LET put == Accepted(pipe, r)
             k == AtMost(Len(r), PIPE_SIZE - pipe.currentSize)
             left == SubSeq(r, Len(put) + 1, Len(r))
         IN  /\ k \in 0 .. Len(r) /\ Len(put) = k /\ put \in Seq(Symbols)
             /\ \A i \in 1 .. k : put[i] = r[i]
             /\ put = r <=> k = Len(r)
             /\ left = <<>> <=> k = Len(r)
             /\ left # <<>> => left \in Rests /\ (left = <<Eof>> <=> r = <<Eof>>)
             /\ left # <<>> => k = PIPE_SIZE - pipe.currentSize
             /\ put = <<Eof>> <=> r = <<Eof>> /\ ~Full(pipe)
<1>. DEFINE put == Accepted(pipe, r)
            k == AtMost(Len(r), PIPE_SIZE - pipe.currentSize)
            left == SubSeq(r, Len(put) + 1, Len(r))
<1>1. /\ r \in Seq(Symbols) /\ Len(r) \in Nat \ {0}
      /\ \A i \in 1 .. Len(r) : r[i] \in Symbols
      /\ r # <<Eof>> => r \in Seq(Byte) /\ \A i \in 1 .. Len(r) : r[i] \in Byte /\ r[i] # Eof
  BY RestsLemma
<1>2. k \in 0 .. Len(r) /\ (k # Len(r) => k = PIPE_SIZE - pipe.currentSize)
  BY <1>1, SizeAssumption DEF PipeRecord, AtMost
<1>3. /\ put = SubSeq(r, 1, k) /\ put \in Seq(Symbols) /\ Len(put) = k
      /\ \A i \in 1 .. k : put[i] = r[i]
  <2>. HIDE DEF k
  <2>1. \A i \in 1 .. k : r[i] \in Symbols
    BY <1>1, <1>2
  <2>. QED  BY <1>2, <2>1, SubSeqProperties DEF Accepted, k
<1>4. /\ left \in Seq(Symbols) /\ Len(left) = Len(r) - k
      /\ \A i \in 1 .. Len(r) - k : left[i] = r[k + i]
  <2>. HIDE DEF k, put
  <2>1. \A i \in k + 1 .. Len(r) : r[i] \in Symbols
    BY <1>1, <1>2
  <2>2. left = SubSeq(r, k + 1, Len(r))
    BY <1>3
  <2>. HIDE DEF left
  <2>3. /\ left \in Seq(Symbols)
        /\ Len(left) = IF k + 1 <= Len(r) THEN Len(r) - (k + 1) + 1 ELSE 0
        /\ \A i \in 1 .. Len(r) - (k + 1) + 1 : left[i] = r[(k + 1) + i - 1]
    BY <1>1, <1>2, <2>1, <2>2, SubSeqProperties
  <2>4. \A i \in 1 .. Len(r) - k : /\ i \in 1 .. Len(r) - (k + 1) + 1
                                   /\ (k + 1) + i - 1 = k + i
    BY <1>1, <1>2
  <2>. QED  BY <1>1, <1>2, <2>3, <2>4
<1>5. left = <<>> <=> k = Len(r)
  <2>. HIDE DEF k, left
  <2>. QED  BY <1>1, <1>2, <1>4, EmptySeq
<1>6. put = r <=> k = Len(r)
  <2>. HIDE DEF k, put
  <2>. QED  BY <1>1, <1>2, <1>3, SeqEqual
<1>7. ASSUME left # <<>> PROVE left \in Rests /\ (left = <<Eof>> <=> r = <<Eof>>)
  <2>. HIDE DEF k, put, left
  <2>1. CASE r = <<Eof>>
    <3>1. Len(r) = 1 /\ r[1] = Eof /\ k = 0
      BY <1>2, <1>5, <1>7, <2>1
    <3>2. left = r
      BY <1>1, <1>4, <3>1, SeqEqual
    <3>. QED  BY <2>1, <3>2
  <2>2. CASE r # <<Eof>>
    <3>1. \A i \in 1 .. Len(left) : left[i] \in Byte /\ left[i] # Eof
      BY <1>1, <1>2, <1>4, <2>2
    <3>2. left \in Seq(Byte)
      BY <1>4, <1>1, <1>2, <3>1
    <3>3. left # <<Eof>>
      BY <1>7, <3>1, <3>2, EmptySeq, BytesAssumption
    <3>. QED  BY <1>7, <2>2, <3>2, <3>3 DEF Rests
  <2>. QED  BY <2>1, <2>2
<1>8. put = <<Eof>> <=> r = <<Eof>> /\ ~Full(pipe)
  <2>. HIDE DEF k, put, left
  <2>1. CASE r = <<Eof>>
    <3>1. Len(r) = 1 /\ (k = 1 <=> ~Full(pipe))
      BY <2>1, SizeAssumption DEF k, AtMost, Full, PipeRecord
    <3>2. CASE k = 1
      BY <1>6, <2>1, <3>1, <3>2
    <3>3. CASE k # 1
      <4>1. Len(put) = 0
        BY <1>2, <1>3, <3>1, <3>3
      <4>. QED  BY <2>1, <3>1, <3>3, <4>1
    <3>. QED  BY <3>2, <3>3
  <2>2. CASE r # <<Eof>>
    <3>1. ASSUME put = <<Eof>> PROVE FALSE
      <4>1. k = 1 /\ put[1] = Eof
        <5>1. Len(<<Eof>>) = 1 /\ <<Eof>>[1] = Eof
          OBVIOUS
        <5>. QED  BY <1>3, <3>1, <5>1
      <4>. QED  BY <1>1, <1>2, <1>3, <2>2, <4>1
    <3>. QED  BY <2>2, <3>1
  <2>. QED  BY <2>1, <2>2
<1>9. left # <<>> => k = PIPE_SIZE - pipe.currentSize
  <2>. HIDE DEF k, left
  <2>. QED  BY <1>2, <1>5
<1>. HIDE DEF k, put, left
<1>. QED
  <2>1. /\ k \in 0 .. Len(r) /\ Len(put) = k /\ put \in Seq(Symbols)
        /\ \A i \in 1 .. k : put[i] = r[i]
        /\ put = r <=> k = Len(r)
        /\ left = <<>> <=> k = Len(r)
        /\ left # <<>> => left \in Rests /\ (left = <<Eof>> <=> r = <<Eof>>)
        /\ left # <<>> => k = PIPE_SIZE - pipe.currentSize
        /\ put = <<Eof>> <=> r = <<Eof>> /\ ~Full(pipe)
    BY <1>2, <1>3, <1>5, <1>6, <1>7, <1>8, <1>9
  <2>. QED  BY <2>1 DEF k, put, left

(* What is stored stays within the ring and leaves the ends alone.         *)
LEMMA StoreLemma ==
  ASSUME NEW pipe \in PipeRecord, NEW r \in Rests
  PROVE  LET put == Accepted(pipe, r)
             q == Store(pipe, put)
         IN  /\ q \in PipeRecord
             /\ q.startPosition = pipe.startPosition
             /\ q.inputPid = pipe.inputPid /\ q.outputPid = pipe.outputPid
             /\ q.currentSize = IF put = <<Eof>> THEN pipe.currentSize
                                ELSE pipe.currentSize + Len(put)
             /\ \A i \in Cells : q.buffer[i] =
                  LET d == (i - BufferPosition(pipe)) % PIPE_SIZE
                  IN  IF d < Len(put) THEN put[d + 1] ELSE pipe.buffer[i]
<1>. DEFINE put == Accepted(pipe, r)
            q == Store(pipe, put)
            d(i) == (i - BufferPosition(pipe)) % PIPE_SIZE
            b == [i \in Cells |-> IF d(i) < Len(put) THEN put[d(i) + 1]
                                  ELSE pipe.buffer[i]]
<1>1. /\ put \in Seq(Symbols) /\ Len(put) \in Nat
      /\ Len(put) <= PIPE_SIZE - pipe.currentSize
  <2>1. LET k == AtMost(Len(r), PIPE_SIZE - pipe.currentSize)
        IN  k \in 0 .. Len(r) /\ Len(put) = k /\ put \in Seq(Symbols)
    BY AcceptedLemma
  <2>2. Len(r) \in Nat /\ pipe.currentSize \in 0 .. PIPE_SIZE
    BY RestsLemma DEF PipeRecord
  <2>. HIDE DEF put
  <2>. QED  BY <2>1, <2>2, SizeAssumption DEF AtMost
<1>2. \A i \in Cells : d(i) \in 0 .. PIPE_SIZE - 1
  <2>1. BufferPosition(pipe) \in Int
    BY SizeAssumption DEF BufferPosition, PipeRecord, Cells
  <2>. QED  BY <2>1, SizeAssumption DEF Cells
<1>. HIDE DEF put, d
<1>3. b \in [Cells -> Symbols]
  <2>1. \A i \in Cells : pipe.buffer[i] \in Symbols
    BY DEF PipeRecord, Symbols
  <2>2. \A i \in Cells : d(i) < Len(put) => put[d(i) + 1] \in Symbols
    BY <1>1, <1>2
  <2>. QED  BY <2>1, <2>2
<1>4. q = [pipe EXCEPT !.buffer = b,
             !.currentSize = IF put = <<Eof>> THEN @ ELSE @ + Len(put)]
  BY DEF Store, d
<1>. HIDE DEF q, b
<1>5. /\ q.buffer = b /\ q.startPosition = pipe.startPosition
      /\ q.inputPid = pipe.inputPid /\ q.outputPid = pipe.outputPid
      /\ q.isBlocking = pipe.isBlocking
      /\ q.currentSize = IF put = <<Eof>> THEN pipe.currentSize
                         ELSE pipe.currentSize + Len(put)
      /\ q = [buffer |-> q.buffer, startPosition |-> q.startPosition,
              currentSize |-> q.currentSize, inputPid |-> q.inputPid,
              outputPid |-> q.outputPid, isBlocking |-> q.isBlocking]
  BY <1>4 DEF PipeRecord
<1>6. q \in PipeRecord
  BY <1>1, <1>3, <1>5, SizeAssumption DEF PipeRecord, Symbols
<1>. QED  BY <1>5, <1>6 DEF b, q, d, put

(* What is handed over is at most what there is, and leaves the ring.      *)
LEMMA DropLemma ==
  ASSUME NEW pipe \in PipeRecord, NEW len \in Nat
  PROVE  LET got == Given(pipe, len)
             q == Drop(pipe, Len(got))
             k == AtMost(len, pipe.currentSize)
         IN  /\ k \in 0 .. pipe.currentSize
             /\ Len(got) = k /\ got \in Seq(Symbols)
             /\ \A i \in 1 .. k : got[i] = Contents(pipe)[i]
             /\ Contents(pipe) \in Seq(Symbols)
             /\ Len(Contents(pipe)) = pipe.currentSize
             /\ q \in PipeRecord
             /\ q.inputPid = pipe.inputPid /\ q.outputPid = pipe.outputPid
             /\ q.buffer = pipe.buffer
             /\ q.currentSize = pipe.currentSize - k
             /\ q.startPosition = (pipe.startPosition + k) % PIPE_SIZE
<1>. DEFINE got == Given(pipe, len)
            q == Drop(pipe, Len(got))
            k == AtMost(len, pipe.currentSize)
            all == Contents(pipe)
<1>1. k \in 0 .. pipe.currentSize /\ pipe.currentSize \in Nat
  BY DEF AtMost, PipeRecord
<1>2. all \in Seq(Symbols) /\ Len(all) = pipe.currentSize
  <2>1. \A i \in 1 .. pipe.currentSize :
          pipe.buffer[(pipe.startPosition + i - 1) % PIPE_SIZE] \in Symbols
    <3>1. \A i \in 1 .. pipe.currentSize :
            (pipe.startPosition + i - 1) % PIPE_SIZE \in Cells
      <4>1. pipe.startPosition \in Int /\ PIPE_SIZE \in Nat \ {0}
        BY SizeAssumption DEF PipeRecord, Cells
      <4>. TAKE i \in 1 .. pipe.currentSize
      <4>2. pipe.startPosition + i - 1 \in Int
        BY <1>1, <4>1
      <4>. QED  BY <4>1, <4>2 DEF Cells
    <3>. QED  BY <3>1 DEF PipeRecord, Symbols
  <2>. QED  BY <1>1, <2>1 DEF Contents
<1>. HIDE DEF all, k
<1>3. /\ got \in Seq(Symbols) /\ Len(got) = k
      /\ \A i \in 1 .. k : got[i] = all[i]
  <2>1. \A i \in 1 .. k : all[i] \in Symbols
    BY <1>1, <1>2
  <2>. QED  BY <1>1, <2>1, SubSeqProperties DEF Given, all, k
<1>. HIDE DEF got
<1>4. q = [pipe EXCEPT !.startPosition = (@ + k) % PIPE_SIZE,
                       !.currentSize = @ - k]
  BY <1>3 DEF Drop
<1>. HIDE DEF q
<1>5. /\ q.buffer = pipe.buffer /\ q.inputPid = pipe.inputPid
      /\ q.outputPid = pipe.outputPid /\ q.isBlocking = pipe.isBlocking
      /\ q.currentSize = pipe.currentSize - k
      /\ q.startPosition = (pipe.startPosition + k) % PIPE_SIZE
      /\ q = [buffer |-> q.buffer, startPosition |-> q.startPosition,
              currentSize |-> q.currentSize, inputPid |-> q.inputPid,
              outputPid |-> q.outputPid, isBlocking |-> q.isBlocking]
  BY <1>4 DEF PipeRecord
<1>6. q.startPosition \in Cells
  BY <1>1, <1>5, SizeAssumption DEF PipeRecord, Cells
<1>7. q \in PipeRecord
  BY <1>1, <1>5, <1>6, SizeAssumption DEF PipeRecord
<1>. QED  BY <1>1, <1>2, <1>3, <1>5, <1>7 DEF all, got, k, q

-----------------------------------------------------------------------------
(* The shapes of all the state; a call that has not lost its pipe is in    *)
(* one.                                                                    *)
TransmitCalls ==
  [op : {"transmit"}, pid : Procs, slot : Slots, rest : Rests,
   victim : Procs \cup {NoPid}, lost : BOOLEAN]
RetrieveCalls ==
  [op : {"retrieve"}, slot : Slots, len : Nat \ {0}, lost : BOOLEAN]

TypeInv ==
  /\ status \in [Procs -> {"none", "ready", "blocked"}]
  /\ fds \in [Procs -> Slots \cup {NoPipe}]
  /\ call \in [Procs -> {NoCall} \cup TransmitCalls \cup RetrieveCalls]
  /\ pipes \in [Slots -> PipeRecord \cup {NoPipe}]
  /\ lastFreePipe \in Slots /\ qtyPipes \in Nat /\ qtyPipes < QtyRange
  /\ handle \in {<<>>} \cup (Slots \X {"left", "right"})
  /\ fault \in BOOLEAN
KeepsSlot ==
  \A p \in Procs : call[p] # NoCall /\ ~call[p].lost => call[p].slot \in Live
TableInv == TypeInv /\ KeepsSlot

LEMMA CallLemma ==
  ASSUME NEW c
  PROVE  /\ c \in TransmitCalls => /\ c # NoCall /\ c.op = "transmit" /\ c.pid \in Procs
                                   /\ c.slot \in Slots /\ c.rest \in Rests
                                   /\ c.victim \in Procs \cup {NoPid}
                                   /\ c.lost \in BOOLEAN
         /\ c \in RetrieveCalls => /\ c # NoCall /\ c.op = "retrieve" /\ c.slot \in Slots
                                   /\ c.len \in Nat \ {0} /\ c.lost \in BOOLEAN
         /\ NoCall.op = "none"
<1>1. NoCall.op = "none"
  BY DEF NoCall
<1>2. ASSUME c \in TransmitCalls \/ c \in RetrieveCalls PROVE c # NoCall
  BY <1>1, <1>2 DEF TransmitCalls, RetrieveCalls
<1>. QED  BY <1>1, <1>2 DEF TransmitCalls, RetrieveCalls

(* A call goes on with what is left, and may lose its pipe.                *)
LEMMA CallChanges ==
  /\ \A c \in TransmitCalls, r \in Rests : [c EXCEPT !.rest = r] \in TransmitCalls
  /\ \A c \in TransmitCalls : [c EXCEPT !.lost = TRUE] \in TransmitCalls
  /\ \A c \in RetrieveCalls : [c EXCEPT !.lost = TRUE] \in RetrieveCalls
BY DEF TransmitCalls, RetrieveCalls

LEMMA NewPipeLemma == NewPipe \in PipeRecord
<1>1. Blank \in Byte
  BY NamesAssumption DEF Blank
<1>. QED  BY <1>1, SizeAssumption DEF NewPipe, PipeRecord, Cells

LEMMA SlotsLemma ==
  /\ IsFiniteSet(Slots) /\ Cardinality(Slots) = MAX_PIPES
  /\ \A S \in SUBSET Slots : IsFiniteSet(S) /\ Cardinality(S) \in Nat
<1>1. IsFiniteSet(Slots) /\ Cardinality(Slots) = MAX_PIPES
  BY SizeAssumption, FS_Interval DEF Slots
<1>. QED  BY <1>1, FS_Subset, FS_CardinalityType

(* The counter of 16 bits.                                                 *)
LEMMA CountedLemma ==
  /\ \A n \in Int : n % QtyRange \in Nat /\ n % QtyRange < QtyRange
  /\ \A n \in Nat : n < QtyRange => n % QtyRange = n
<1>1. ASSUME NEW R \in Nat \ {0}
      PROVE  /\ \A n \in Int : n % R \in Nat /\ n % R < R
             /\ \A n \in Nat : n < R => n % R = n
  OBVIOUS
<1>2. QtyRange \in Nat \ {0}
  BY DEF QtyRange
<1>. QED  BY <1>1, <1>2

(* The scan of requestNewPipeHandle finds a slot whenever there is one.    *)
LEMMA NextFreePipeLemma ==
  ASSUME TypeInv, Live # Slots
  PROVE  NextFreePipe \in Slots \ Live
<1>. DEFINE back(s) == (lastFreePipe - s) % MAX_PIPES
            S == {back(s) : s \in Slots \ Live}
            R == OpToRel(<, Nat)
<1>1. Live \in SUBSET Slots
  BY DEF Live
<1>2. Live # Slots
  OBVIOUS
<1>3. \A s \in Slots : back(s) \in Nat
  BY SizeAssumption DEF TypeInv, Slots
<1>. HIDE DEF back
<1>4. S \subseteq Nat /\ S # {}
  BY <1>1, <1>2, <1>3
<1>5. IsWellFoundedOn(R, Nat)
  BY NatLessThanWellFounded
<1>6. R = {ss \in Nat \X Nat : ss[1] < ss[2]}
  BY DEF OpToRel
<1>. HIDE DEF R, S
<1>7. PICK x \in S : \A y \in S : ~(<<y, x>> \in R)
  BY <1>4, <1>5, WFMin
<1>8. PICK s \in Slots \ Live : back(s) = x
  BY <1>7 DEF S
<1>9. ASSUME NEW t \in Slots \ Live PROVE back(s) <= back(t)
  <2>1. back(t) \in S /\ back(t) \in Nat /\ x \in Nat
    BY <1>3, <1>4, <1>7, <1>9 DEF S
  <2>2. ~(back(t) < x)
    BY <1>6, <1>7, <2>1
  <2>. QED  BY <1>8, <2>1, <2>2
<1>10. \E u \in Slots \ Live : \A t \in Slots \ Live : back(u) <= back(t)
  BY <1>9
<1>. QED  BY <1>10 DEF NextFreePipe, back

-----------------------------------------------------------------------------
(* The parts that the actions are made of keep the table as it should be.  *)
LEMMA LiveLemma ==
  ASSUME TypeInv
  PROVE  \A s \in Slots : s \in Live <=> pipes[s] \in PipeRecord
BY NamesAssumption DEF TypeInv, Live

LEMMA WokenLemma ==
  ASSUME NEW st \in [Procs -> {"none", "ready", "blocked"}], NEW pid
  PROVE  Woken(st, pid) \in [Procs -> {"none", "ready", "blocked"}]
BY DEF Woken

LEMMA FinishStep ==
  ASSUME TypeInv, KeepsSlot, NEW p, NEW victim,
         NEW st \in [Procs -> {"none", "ready", "blocked"}],
         Finish(p, victim, st)
  PROVE  /\ status' \in [Procs -> {"none", "ready", "blocked"}]
         /\ call' \in [Procs -> {NoCall} \cup TransmitCalls \cup RetrieveCalls]
         /\ \A q \in Procs : call'[q] = IF q = p \/ q = victim THEN NoCall ELSE call[q]
         /\ \A q \in Procs : call'[q] # NoCall /\ ~call'[q].lost => call'[q].slot \in Live
<1>1. status' \in [Procs -> {"none", "ready", "blocked"}]
  BY DEF Finish
<1>2. \A q \in Procs : call'[q] = IF q = p \/ q = victim THEN NoCall ELSE call[q]
  BY DEF Finish, Without
<1>3. call' \in [Procs -> {NoCall} \cup TransmitCalls \cup RetrieveCalls]
  BY DEF Finish, Without, TypeInv
<1>. QED  BY <1>1, <1>2, <1>3 DEF KeepsSlot

LEMMA SuspendStep ==
  ASSUME TypeInv, KeepsSlot, NEW p \in Procs, NEW c \in TransmitCalls, c.slot \in Live,
         NEW st \in [Procs -> {"none", "ready", "blocked"}],
         Suspend(p, c, st)
  PROVE  /\ status' \in [Procs -> {"none", "ready", "blocked"}]
         /\ call' \in [Procs -> {NoCall} \cup TransmitCalls \cup RetrieveCalls]
         /\ \A q \in Procs : call'[q] # NoCall /\ ~call'[q].lost => call'[q].slot \in Live
BY DEF Suspend, TypeInv, KeepsSlot

(* The ring a transmission leaves behind.                                  *)
LEMMA StoredLemma ==
  ASSUME TypeInv, NEW s \in Live, NEW r \in Rests, NEW b \in BOOLEAN,
         pipes' = [pipes EXCEPT ![s] =
                     [Store(pipes[s], Accepted(pipes[s], r)) EXCEPT !.isBlocking = b]]
  PROVE  LET put == Accepted(pipes[s], r)
         IN  /\ pipes'[s] \in PipeRecord
             /\ pipes' \in [Slots -> PipeRecord \cup {NoPipe}]
             /\ Live' = Live
             /\ \A t \in Slots \ {s} : pipes'[t] = pipes[t]
             /\ pipes'[s].isBlocking = b
             /\ pipes'[s].inputPid = pipes[s].inputPid
             /\ pipes'[s].outputPid = pipes[s].outputPid
             /\ pipes'[s].startPosition = pipes[s].startPosition
             /\ pipes'[s].buffer = Store(pipes[s], put).buffer
             /\ pipes'[s].currentSize = IF put = <<Eof>> THEN pipes[s].currentSize
                                        ELSE pipes[s].currentSize + Len(put)
<1>. DEFINE q == Store(pipes[s], Accepted(pipes[s], r))
<1>1. s \in Slots /\ pipes[s] \in PipeRecord
  BY LiveLemma DEF Live
<1>2. /\ q \in PipeRecord
      /\ q.startPosition = pipes[s].startPosition
      /\ q.inputPid = pipes[s].inputPid /\ q.outputPid = pipes[s].outputPid
      /\ q.currentSize = IF Accepted(pipes[s], r) = <<Eof>> THEN pipes[s].currentSize
                         ELSE pipes[s].currentSize + Len(Accepted(pipes[s], r))
  BY <1>1, StoreLemma
<1>3. pipes'[s] = [q EXCEPT !.isBlocking = b]
  BY <1>1 DEF TypeInv
<1>. HIDE DEF q
<1>4. /\ pipes'[s] \in PipeRecord
      /\ pipes'[s].isBlocking = b
      /\ pipes'[s].inputPid = q.inputPid /\ pipes'[s].outputPid = q.outputPid
      /\ pipes'[s].startPosition = q.startPosition
      /\ pipes'[s].buffer = q.buffer /\ pipes'[s].currentSize = q.currentSize
  BY <1>2, <1>3 DEF PipeRecord
<1>5. \A t \in Slots \ {s} : pipes'[t] = pipes[t]
  BY DEF TypeInv
<1>6. pipes' \in [Slots -> PipeRecord \cup {NoPipe}]
  BY <1>1, <1>2, <1>3, <1>4 DEF TypeInv
<1>7. Live' = Live
  BY <1>1, <1>4, <1>5, NamesAssumption DEF Live
<1>. QED  BY <1>2, <1>4, <1>5, <1>6, <1>7 DEF q

LEMMA TransmitStep ==
  ASSUME TypeInv, KeepsSlot, NEW p \in Procs, NEW c \in TransmitCalls,
         c.slot \in Live, Transmit(p, c)
  PROVE  /\ status' \in [Procs -> {"none", "ready", "blocked"}]
         /\ call' \in [Procs -> {NoCall} \cup TransmitCalls \cup RetrieveCalls]
         /\ pipes' \in [Slots -> PipeRecord \cup {NoPipe}]
         /\ fault' \in BOOLEAN
         /\ Live' = Live /\ KeepsSlot'
<1>. DEFINE pipe == pipes[c.slot]
            put == Accepted(pipe, c.rest)
            left == SubSeq(c.rest, Len(put) + 1, Len(c.rest))
            st == IF pipe.isBlocking THEN Woken(status, pipe.outputPid) ELSE status
<1>1. c.rest \in Rests /\ c.slot \in Slots
  BY CallLemma
<1>2. pipe \in PipeRecord
  BY <1>1, LiveLemma
<1>3. /\ pipes' \in [Slots -> PipeRecord \cup {NoPipe}]
      /\ Live' = Live
  BY <1>1, <1>2, StoredLemma DEF Transmit
<1>4. st \in [Procs -> {"none", "ready", "blocked"}]
  BY WokenLemma DEF TypeInv
<1>5. left # <<>> => [c EXCEPT !.rest = left] \in TransmitCalls
  <2>1. left # <<>> => left \in Rests
    BY <1>1, <1>2, AcceptedLemma
  <2>. QED  BY <2>1, CallChanges
<1>6. IF left = <<>> THEN Finish(p, c.victim, st)
                     ELSE Suspend(p, [c EXCEPT !.rest = left], st)
  BY DEF Transmit
<1>7. fault' \in BOOLEAN
  BY DEF Transmit, TypeInv
<1>. HIDE DEF left, st, put
<1>8. [c EXCEPT !.rest = left].slot = c.slot
  BY DEF TransmitCalls
<1>9. /\ status' \in [Procs -> {"none", "ready", "blocked"}]
      /\ call' \in [Procs -> {NoCall} \cup TransmitCalls \cup RetrieveCalls]
      /\ \A q \in Procs : call'[q] # NoCall /\ ~call'[q].lost => call'[q].slot \in Live
  <2>1. CASE left = <<>>
    BY <1>4, <1>6, <2>1, FinishStep
  <2>2. CASE left # <<>>
    BY <1>4, <1>5, <1>6, <1>8, <2>2, SuspendStep
  <2>. QED  BY <2>1, <2>2
<1>. QED  BY <1>3, <1>7, <1>9 DEF KeepsSlot

(* Marking a pipe that somebody waits for it.                              *)
LEMMA MarkedLemma ==
  ASSUME TypeInv, NEW s \in Live, pipes' = [pipes EXCEPT ![s].isBlocking = TRUE]
  PROVE  /\ pipes'[s] \in PipeRecord /\ pipes'[s].isBlocking
         /\ pipes' \in [Slots -> PipeRecord \cup {NoPipe}]
         /\ Live' = Live
         /\ \A t \in Slots \ {s} : pipes'[t] = pipes[t]
         /\ pipes'[s].inputPid = pipes[s].inputPid
         /\ pipes'[s].outputPid = pipes[s].outputPid
         /\ pipes'[s].startPosition = pipes[s].startPosition
         /\ pipes'[s].buffer = pipes[s].buffer
         /\ pipes'[s].currentSize = pipes[s].currentSize
<1>1. s \in Slots /\ pipes[s] \in PipeRecord
  BY LiveLemma DEF Live
<1>. DEFINE q == [pipes[s] EXCEPT !.isBlocking = TRUE]
<1>2. pipes'[s] = q
  BY <1>1 DEF TypeInv
<1>7. /\ q \in PipeRecord /\ q.isBlocking
      /\ q.inputPid = pipes[s].inputPid /\ q.outputPid = pipes[s].outputPid
      /\ q.startPosition = pipes[s].startPosition
      /\ q.buffer = pipes[s].buffer /\ q.currentSize = pipes[s].currentSize
  BY <1>1 DEF PipeRecord
<1>. HIDE DEF q
<1>3. /\ pipes'[s] \in PipeRecord /\ pipes'[s].isBlocking
      /\ pipes'[s].inputPid = pipes[s].inputPid
      /\ pipes'[s].outputPid = pipes[s].outputPid
      /\ pipes'[s].startPosition = pipes[s].startPosition
      /\ pipes'[s].buffer = pipes[s].buffer
      /\ pipes'[s].currentSize = pipes[s].currentSize
  BY <1>2, <1>7
<1>4. \A t \in Slots \ {s} : pipes'[t] = pipes[t]
  BY DEF TypeInv
<1>5. pipes' \in [Slots -> PipeRecord \cup {NoPipe}]
  BY <1>1, <1>2, <1>3 DEF TypeInv
<1>6. Live' = Live
  BY <1>1, <1>3, <1>4, NamesAssumption DEF Live
<1>. QED  BY <1>3, <1>4, <1>5, <1>6

LEMMA StartTransmitStep ==
  ASSUME TypeInv, KeepsSlot, NEW p \in Procs, NEW c \in TransmitCalls,
         c.slot \in Live, StartTransmit(p, c)
  PROVE  /\ status' \in [Procs -> {"none", "ready", "blocked"}]
         /\ call' \in [Procs -> {NoCall} \cup TransmitCalls \cup RetrieveCalls]
         /\ pipes' \in [Slots -> PipeRecord \cup {NoPipe}]
         /\ fault' \in BOOLEAN
         /\ Live' = Live /\ KeepsSlot'
<1>1. CASE ~Full(pipes[c.slot])
  BY <1>1, TransmitStep DEF StartTransmit
<1>2. CASE Full(pipes[c.slot])
  <2>1. /\ pipes' = [pipes EXCEPT ![c.slot].isBlocking = TRUE]
        /\ Suspend(p, c, status) /\ UNCHANGED fault
    BY <1>2 DEF StartTransmit
  <2>2. /\ pipes' \in [Slots -> PipeRecord \cup {NoPipe}]
        /\ Live' = Live
    BY <2>1, MarkedLemma
  <2>3. /\ status' \in [Procs -> {"none", "ready", "blocked"}]
        /\ call' \in [Procs -> {NoCall} \cup TransmitCalls \cup RetrieveCalls]
        /\ \A q \in Procs : call'[q] # NoCall /\ ~call'[q].lost => call'[q].slot \in Live
    BY <2>1, SuspendStep DEF TypeInv
  <2>. QED  BY <2>1, <2>2, <2>3 DEF TypeInv, KeepsSlot
<1>. QED  BY <1>1, <1>2

(* The ring a reading leaves behind, and whether the reader waits.         *)
LEMMA TakenLemma ==
  ASSUME TypeInv, NEW s \in Live, NEW len \in Nat \ {0}, NEW b \in BOOLEAN,
         pipes' = [pipes EXCEPT ![s] =
           [Drop(pipes[s], Len(Given(pipes[s], len))) EXCEPT !.isBlocking = b]]
  PROVE  LET k == AtMost(len, pipes[s].currentSize)
         IN  /\ pipes'[s] \in PipeRecord
             /\ pipes' \in [Slots -> PipeRecord \cup {NoPipe}]
             /\ Live' = Live
             /\ \A t \in Slots \ {s} : pipes'[t] = pipes[t]
             /\ pipes'[s].isBlocking = b
             /\ pipes'[s].inputPid = pipes[s].inputPid
             /\ pipes'[s].outputPid = pipes[s].outputPid
             /\ pipes'[s].buffer = pipes[s].buffer
             /\ pipes'[s].currentSize = pipes[s].currentSize - k
             /\ pipes'[s].startPosition = (pipes[s].startPosition + k) % PIPE_SIZE
<1>. DEFINE q == Drop(pipes[s], Len(Given(pipes[s], len)))
            k == AtMost(len, pipes[s].currentSize)
<1>1. s \in Slots /\ pipes[s] \in PipeRecord /\ len \in Nat
  BY LiveLemma DEF Live
<1>2. /\ q \in PipeRecord
      /\ q.inputPid = pipes[s].inputPid /\ q.outputPid = pipes[s].outputPid
      /\ q.buffer = pipes[s].buffer
      /\ q.currentSize = pipes[s].currentSize - k
      /\ q.startPosition = (pipes[s].startPosition + k) % PIPE_SIZE
  BY <1>1, DropLemma
<1>3. pipes'[s] = [q EXCEPT !.isBlocking = b]
  BY <1>1 DEF TypeInv
<1>. HIDE DEF q, k
<1>4. /\ pipes'[s] \in PipeRecord
      /\ pipes'[s].isBlocking = b
      /\ pipes'[s].inputPid = q.inputPid /\ pipes'[s].outputPid = q.outputPid
      /\ pipes'[s].startPosition = q.startPosition
      /\ pipes'[s].buffer = q.buffer /\ pipes'[s].currentSize = q.currentSize
  BY <1>2, <1>3 DEF PipeRecord
<1>5. \A t \in Slots \ {s} : pipes'[t] = pipes[t]
  BY DEF TypeInv
<1>6. pipes' \in [Slots -> PipeRecord \cup {NoPipe}]
  BY <1>1, <1>2, <1>3, <1>4 DEF TypeInv
<1>7. Live' = Live
  BY <1>1, <1>4, <1>5, NamesAssumption DEF Live
<1>. QED  BY <1>2, <1>4, <1>5, <1>6, <1>7 DEF k

LEMMA RetrieveStep ==
  ASSUME TypeInv, KeepsSlot, NEW p \in Procs, NEW s \in Live, NEW len \in Nat \ {0},
         Retrieve(p, s, len)
  PROVE  LET k == AtMost(len, pipes[s].currentSize)
             waits == pipes'[s].isBlocking
             st == IF pipes[s].isBlocking THEN Woken(status, pipes[s].inputPid) ELSE status
         IN  /\ status' \in [Procs -> {"none", "ready", "blocked"}]
             /\ call' \in [Procs -> {NoCall} \cup TransmitCalls \cup RetrieveCalls]
             /\ fault' \in BOOLEAN
             /\ KeepsSlot'
             /\ pipes'[s] \in PipeRecord
             /\ pipes' \in [Slots -> PipeRecord \cup {NoPipe}]
             /\ Live' = Live
             /\ \A t \in Slots \ {s} : pipes'[t] = pipes[t]
             /\ pipes'[s].inputPid = pipes[s].inputPid
             /\ pipes'[s].outputPid = pipes[s].outputPid
             /\ pipes'[s].buffer = pipes[s].buffer
             /\ pipes'[s].currentSize = pipes[s].currentSize - k
             /\ pipes'[s].startPosition = (pipes[s].startPosition + k) % PIPE_SIZE
             /\ waits \in BOOLEAN
             /\ waits => Empty(pipes'[s]) /\ call'[p] \in RetrieveCalls
                         /\ call'[p].slot = s /\ ~call'[p].lost
             /\ status' = IF waits THEN [st EXCEPT ![p] = "blocked"] ELSE st
             /\ ~waits => call'[p] = NoCall
             /\ \A q \in Procs \ {p} : call'[q] = call[q]
<1>. DEFINE pipe == pipes[s]
            k == AtMost(len, pipe.currentSize)
            got == Given(pipe, len)
            after == Drop(pipe, Len(got))
            sawEof == Len(got) < len /\ EofStored(after)
            left == len - Len(got)
            waits == left > 0 /\ ~sawEof
            st == IF pipe.isBlocking THEN Woken(status, pipe.inputPid) ELSE status
<1>1. s \in Slots /\ pipe \in PipeRecord /\ len \in Nat
  BY LiveLemma DEF Live
<1>2. /\ Len(got) = k /\ k \in 0 .. pipe.currentSize
      /\ after.currentSize = pipe.currentSize - k
      /\ after.startPosition = (pipe.startPosition + k) % PIPE_SIZE
      /\ after.buffer = pipe.buffer
  BY <1>1, DropLemma
<1>3. waits \in BOOLEAN
  OBVIOUS
<1>4. /\ pipes'[s] \in PipeRecord
      /\ pipes' \in [Slots -> PipeRecord \cup {NoPipe}]
      /\ Live' = Live
      /\ \A t \in Slots \ {s} : pipes'[t] = pipes[t]
      /\ pipes'[s].isBlocking = waits
      /\ pipes'[s].inputPid = pipe.inputPid
      /\ pipes'[s].outputPid = pipe.outputPid
      /\ pipes'[s].buffer = pipe.buffer
      /\ pipes'[s].currentSize = pipe.currentSize - k
      /\ pipes'[s].startPosition = (pipe.startPosition + k) % PIPE_SIZE
  <2>1. pipes' = [pipes EXCEPT ![s] = [after EXCEPT !.isBlocking = waits]]
    BY DEF Retrieve
  <2>. QED  BY <1>3, <2>1, TakenLemma
<1>5. st \in [Procs -> {"none", "ready", "blocked"}]
  BY WokenLemma DEF TypeInv
<1>6. status' = IF waits THEN [st EXCEPT ![p] = "blocked"] ELSE st
  BY DEF Retrieve
<1>7. call' = [call EXCEPT ![p] = IF waits
                 THEN [op |-> "retrieve", slot |-> s, len |-> left, lost |-> FALSE]
                 ELSE NoCall]
  BY DEF Retrieve
<1>8. fault' \in BOOLEAN
  BY DEF Retrieve, TypeInv
<1>9. ASSUME waits PROVE left \in Nat \ {0} /\ after.currentSize = 0 /\ ~EofStored(after)
  <2>1. pipe.currentSize \in Nat
    BY <1>1 DEF PipeRecord
  <2>2. k < len /\ left = len - k
    BY <1>1, <1>2, <1>9, <2>1
  <2>3. k = pipe.currentSize
    BY <2>2, <1>1, <2>1 DEF AtMost
  <2>4. ~EofStored(after)
    BY <1>2, <1>9, <2>2
  <2>. QED  BY <1>1, <1>2, <2>1, <2>2, <2>3, <2>4
<1>10. ASSUME waits PROVE Empty(pipes'[s])
  BY <1>2, <1>4, <1>9, <1>10 DEF Empty, EofStored, BufferPosition
<1>. HIDE DEF waits, st, left, k
<1>11. /\ waits => call'[p] \in RetrieveCalls /\ call'[p].slot = s /\ ~call'[p].lost
       /\ ~waits => call'[p] = NoCall
       /\ \A q \in Procs \ {p} : call'[q] = call[q]
       /\ call' \in [Procs -> {NoCall} \cup TransmitCalls \cup RetrieveCalls]
  <2>1. waits => [op |-> "retrieve", slot |-> s, len |-> left, lost |-> FALSE]
                    \in RetrieveCalls
    BY <1>1, <1>9 DEF RetrieveCalls
  <2>2. /\ waits => call'[p] = [op |-> "retrieve", slot |-> s, len |-> left, lost |-> FALSE]
        /\ ~waits => call'[p] = NoCall
        /\ \A q \in Procs \ {p} : call'[q] = call[q]
    BY <1>7 DEF TypeInv
  <2>. QED  BY <1>7, <2>1, <2>2 DEF TypeInv
<1>12. KeepsSlot'
  BY <1>4, <1>11 DEF KeepsSlot
<1>13. status' \in [Procs -> {"none", "ready", "blocked"}]
  BY <1>5, <1>6
<1>. QED  BY <1>3, <1>4, <1>6, <1>8, <1>10, <1>11, <1>12, <1>13 DEF st, k

(* Opening an end creates the pipe when the slot is free.                  *)
LEMMA GrantStep ==
  ASSUME TypeInv, NEW pid \in Procs, NEW s \in Slots,
         NEW mode \in {"read", "write"}, Grant(pid, s, mode)
  PROVE  /\ pipes' \in [Slots -> PipeRecord \cup {NoPipe}] /\ pipes'[s] \in PipeRecord
         /\ qtyPipes' \in Nat /\ qtyPipes' < QtyRange
         /\ Live' = Live \cup {s}
         /\ \A t \in Slots \ {s} : pipes'[t] = pipes[t]
         /\ Opened(s) \in PipeRecord
         /\ pipes'[s].inputPid = IF mode = "write" /\ Opened(s).inputPid = NoPid
                                 THEN pid ELSE Opened(s).inputPid
         /\ pipes'[s].outputPid = IF mode = "read" /\ Opened(s).outputPid = NoPid
                                  THEN pid ELSE Opened(s).outputPid
         /\ pipes'[s].startPosition = Opened(s).startPosition
         /\ pipes'[s].currentSize = Opened(s).currentSize
         /\ pipes'[s].buffer = Opened(s).buffer
         /\ pipes'[s].isBlocking = Opened(s).isBlocking
<1>. DEFINE o == Opened(s)
            q == Granted(o, pid, mode)
<1>1. o \in PipeRecord
  BY NewPipeLemma, LiveLemma DEF Opened, Live
<1>2. pipes' = [pipes EXCEPT ![s] = q] /\ qtyPipes' = (qtyPipes + 1) % QtyRange
  BY DEF Grant
<1>. HIDE DEF o
<1>3. q = IF mode = "read" /\ o.outputPid = NoPid THEN [o EXCEPT !.outputPid = pid]
          ELSE IF mode = "write" /\ o.inputPid = NoPid THEN [o EXCEPT !.inputPid = pid]
          ELSE o
  BY DEF Granted
<1>. HIDE DEF q
<1>4. /\ q \in PipeRecord
      /\ q.inputPid = IF mode = "write" /\ o.inputPid = NoPid THEN pid ELSE o.inputPid
      /\ q.outputPid = IF mode = "read" /\ o.outputPid = NoPid THEN pid ELSE o.outputPid
      /\ q.startPosition = o.startPosition /\ q.currentSize = o.currentSize
      /\ q.buffer = o.buffer /\ q.isBlocking = o.isBlocking
  BY <1>1, <1>3 DEF PipeRecord
<1>5. pipes'[s] = q /\ \A t \in Slots \ {s} : pipes'[t] = pipes[t]
  BY <1>2 DEF TypeInv
<1>6. pipes' \in [Slots -> PipeRecord \cup {NoPipe}]
  BY <1>2, <1>4 DEF TypeInv
<1>7. Live' = Live \cup {s}
  BY <1>4, <1>5, NamesAssumption DEF Live
<1>8. qtyPipes' \in Nat /\ qtyPipes' < QtyRange
  BY <1>2, CountedLemma DEF TypeInv
<1>. QED  BY <1>1, <1>2, <1>4, <1>5, <1>6, <1>7, <1>8 DEF o, TypeInv

(* Freeing a pipe gives back one count, and its calls are lost.            *)
LEMMA FreeStep ==
  ASSUME TypeInv, NEW s \in Live, FreePipe(s)
  PROVE  /\ pipes' \in [Slots -> PipeRecord \cup {NoPipe}]
         /\ qtyPipes' \in Nat /\ qtyPipes' < QtyRange
         /\ Live' = Live \ {s}
         /\ \A t \in Slots \ {s} : pipes'[t] = pipes[t]
<1>1. s \in Slots /\ Live \in SUBSET Slots
  BY DEF Live
<1>2. /\ pipes' \in [Slots -> PipeRecord \cup {NoPipe}]
      /\ pipes'[s] = NoPipe /\ \A t \in Slots \ {s} : pipes'[t] = pipes[t]
  BY <1>1 DEF FreePipe, TypeInv
<1>3. Live' = Live \ {s}
  BY <1>2 DEF Live
<1>4. qtyPipes' \in Nat /\ qtyPipes' < QtyRange
  BY CountedLemma DEF FreePipe, TypeInv
<1>. QED  BY <1>2, <1>3, <1>4

LEMMA LosingLemma ==
  ASSUME NEW cs \in [Procs -> {NoCall} \cup TransmitCalls \cup RetrieveCalls], NEW s
  PROVE  /\ Losing(cs, s) \in [Procs -> {NoCall} \cup TransmitCalls \cup RetrieveCalls]
         /\ \A q \in Procs : IF cs[q] # NoCall /\ cs[q].slot = s
                             THEN Losing(cs, s)[q] # NoCall /\ Losing(cs, s)[q].lost
                             ELSE Losing(cs, s)[q] = cs[q]
         /\ \A q \in Procs : cs[q] \in TransmitCalls =>
              /\ Losing(cs, s)[q] \in TransmitCalls
              /\ Losing(cs, s)[q].pid = cs[q].pid /\ Losing(cs, s)[q].slot = cs[q].slot
              /\ Losing(cs, s)[q].victim = cs[q].victim
              /\ Losing(cs, s)[q].rest = cs[q].rest
<1>1. ASSUME NEW q \in Procs, cs[q] # NoCall
      PROVE  /\ [cs[q] EXCEPT !.lost = TRUE] \in TransmitCalls \cup RetrieveCalls
             /\ [cs[q] EXCEPT !.lost = TRUE].lost
  <2>1. cs[q] \in TransmitCalls \/ cs[q] \in RetrieveCalls
    BY <1>1
  <2>2. [cs[q] EXCEPT !.lost = TRUE] \in TransmitCalls \cup RetrieveCalls
    BY <2>1, CallChanges
  <2>3. [cs[q] EXCEPT !.lost = TRUE].lost
    BY <2>1 DEF TransmitCalls, RetrieveCalls
  <2>. QED  BY <2>2, <2>3
<1>2. \A q \in Procs : Losing(cs, s)[q] =
        IF cs[q] # NoCall /\ cs[q].slot = s THEN [cs[q] EXCEPT !.lost = TRUE] ELSE cs[q]
  BY DEF Losing
<1>3. Losing(cs, s) = [q \in Procs |-> Losing(cs, s)[q]]
  BY DEF Losing
<1>4. \A q \in Procs : Losing(cs, s)[q] \in {NoCall} \cup TransmitCalls \cup RetrieveCalls
  BY <1>1, <1>2
<1>5. \A q \in Procs : [cs[q] EXCEPT !.lost = TRUE] \in TransmitCalls \cup RetrieveCalls
                         => [cs[q] EXCEPT !.lost = TRUE] # NoCall
  BY CallLemma
<1>6. \A q \in Procs : cs[q] \in TransmitCalls =>
        LET d == [cs[q] EXCEPT !.lost = TRUE]
        IN  /\ d \in TransmitCalls /\ d.pid = cs[q].pid /\ d.slot = cs[q].slot
            /\ d.victim = cs[q].victim /\ d.rest = cs[q].rest
  BY DEF TransmitCalls
<1>. QED  BY <1>1, <1>2, <1>3, <1>4, <1>5, <1>6

LEMMA KillProcessStep ==
  ASSUME TableInv, NEW p \in Procs, NEW victim \in Procs, KillProcess(p, victim)
  PROVE  TableInv'
<1>. USE DEF TableInv
<1>1. UNCHANGED <<fds, lastFreePipe, handle>>
  BY DEF KillProcess
<1>. DEFINE s == fds[victim]
<1>2. CASE Reads(victim, s)
  <2>1. s \in Live
    BY <1>2 DEF Reads, Holds
  <2>2. /\ FreePipe(s)
        /\ status' = [status EXCEPT ![victim] = "none"]
        /\ call' = Losing(Without(call, p, victim), s)
        /\ fault' = (fault \/ BeingKilled(victim, p))
    BY <1>2 DEF KillProcess, Reads, Holds
  <2>3. /\ pipes' \in [Slots -> PipeRecord \cup {NoPipe}]
        /\ qtyPipes' \in Nat /\ qtyPipes' < QtyRange /\ Live' = Live \ {s}
    BY <2>1, <2>2, FreeStep
  <2>4. /\ Without(call, p, victim) \in [Procs -> {NoCall} \cup TransmitCalls \cup RetrieveCalls]
        /\ \A q \in Procs : Without(call, p, victim)[q] \in {NoCall, call[q]}
    BY DEF Without, TypeInv
  <2>5. /\ call' \in [Procs -> {NoCall} \cup TransmitCalls \cup RetrieveCalls]
        /\ \A q \in Procs : \/ call'[q].lost
                            \/ call'[q] = call[q] /\ call[q].slot # s
                            \/ call'[q] = NoCall
    <3>. DEFINE cs == Without(call, p, victim)
    <3>. HIDE DEF cs, s
    <3>1. /\ cs \in [Procs -> {NoCall} \cup TransmitCalls \cup RetrieveCalls]
          /\ call' = Losing(cs, s) /\ \A q \in Procs : cs[q] \in {NoCall, call[q]}
      BY <2>2, <2>4 DEF cs
    <3>2. /\ call' \in [Procs -> {NoCall} \cup TransmitCalls \cup RetrieveCalls]
          /\ \A q \in Procs : IF cs[q] # NoCall /\ cs[q].slot = s
                              THEN call'[q] # NoCall /\ call'[q].lost
                              ELSE call'[q] = cs[q]
      BY <3>1, LosingLemma
    <3>. QED  BY <3>1, <3>2
  <2>6. KeepsSlot'
    BY <2>3, <2>5 DEF KeepsSlot
  <2>. QED  BY <1>1, <2>2, <2>3, <2>5, <2>6 DEF TypeInv
<1>3. CASE Holds(victim, s, "inputPid") /\ ~EofStored(pipes[s])
  <2>1. s \in Live /\ s \in Slots
    BY <1>3 DEF Holds, Live
  <2>. DEFINE c == TransmitCall(victim, s, <<Eof>>, victim)
  <2>2. StartTransmit(p, c) /\ UNCHANGED <<qtyPipes, history>>
    BY <1>3 DEF KillProcess
  <2>3. c \in TransmitCalls /\ c.slot = s
    BY <2>1 DEF TransmitCall, TransmitCalls, Rests
  <2>. HIDE DEF c
  <2>4. /\ status' \in [Procs -> {"none", "ready", "blocked"}]
        /\ call' \in [Procs -> {NoCall} \cup TransmitCalls \cup RetrieveCalls]
        /\ pipes' \in [Slots -> PipeRecord \cup {NoPipe}]
        /\ fault' \in BOOLEAN
        /\ Live' = Live /\ KeepsSlot'
    BY <2>1, <2>2, <2>3, StartTransmitStep
  <2>. QED  BY <1>1, <2>2, <2>4 DEF TypeInv
<1>4. CASE /\ ~(Holds(victim, s, "inputPid") /\ ~EofStored(pipes[s]))
           /\ ~Reads(victim, s)
  <2>1. /\ Finish(p, victim, status)
        /\ fault' = (fault \/ BeingKilled(victim, p))
        /\ UNCHANGED <<pipes, qtyPipes, history>>
    BY <1>4 DEF KillProcess
  <2>2. Live' = Live
    BY <2>1 DEF Live
  <2>. QED  BY <1>1, <2>1, <2>2, FinishStep DEF TypeInv, KeepsSlot
<1>. QED  BY <1>2, <1>3, <1>4

-----------------------------------------------------------------------------
(* Every action keeps the table, whatever the programs call.               *)
LEMMA WriteCallLemma ==
  ASSUME NEW p \in Procs, NEW s \in Slots, NEW bytes \in Messages
  PROVE  /\ bytes \in Rests /\ bytes # <<Eof>>
         /\ TransmitCall(p, s, bytes, NoPid) \in TransmitCalls
         /\ TransmitCall(p, s, bytes, NoPid).slot = s
<1>1. PICK n \in 1 .. MaxSent : bytes \in [1 .. n -> Byte]
  BY DEF Messages
<1>2. n \in Nat
  BY <1>1
<1>3. bytes \in Seq(Byte) /\ bytes # <<>> /\ bytes[1] \in Byte
  BY <1>1, <1>2
<1>4. bytes # <<Eof>>
  BY <1>3, BytesAssumption
<1>. QED  BY <1>3, <1>4 DEF Rests, TransmitCall, TransmitCalls

LEMMA EofCallLemma ==
  ASSUME NEW p \in Procs, NEW s \in Slots, NEW victim \in Procs \cup {NoPid}
  PROVE  /\ TransmitCall(p, s, <<Eof>>, victim) \in TransmitCalls
         /\ TransmitCall(p, s, <<Eof>>, victim).slot = s
BY DEF TransmitCall, TransmitCalls, Rests

LEMMA MyCallLemma ==
  ASSUME TypeInv, NEW p \in Procs, call[p] # NoCall
  PROVE  /\ call[p].op = "transmit" => call[p] \in TransmitCalls
         /\ call[p].op = "retrieve" => call[p] \in RetrieveCalls
BY CallLemma DEF TypeInv

ReadCall(s, len) == [op |-> "retrieve", slot |-> s, len |-> len, lost |-> FALSE]

LEMMA ReadCallLemma ==
  ASSUME NEW s \in Slots, NEW len \in Nat \ {0}
  PROVE  /\ ReadCall(s, len) \in RetrieveCalls
         /\ ReadCall(s, len).slot = s /\ ~ReadCall(s, len).lost
BY DEF ReadCall, RetrieveCalls

LEMMA ReadWaitStep ==
  ASSUME TypeInv, KeepsSlot, NEW p \in Procs, NEW s \in Live, NEW len \in Nat \ {0},
         pipes' = [pipes EXCEPT ![s].isBlocking = TRUE],
         call' = [call EXCEPT ![p] = ReadCall(s, len)]
  PROVE  /\ pipes' \in [Slots -> PipeRecord \cup {NoPipe}]
         /\ call' \in [Procs -> {NoCall} \cup TransmitCalls \cup RetrieveCalls]
         /\ call'[p] \in RetrieveCalls /\ call'[p].slot = s /\ ~call'[p].lost
         /\ \A q \in Procs \ {p} : call'[q] = call[q]
         /\ Live' = Live /\ KeepsSlot'
<1>. DEFINE c == ReadCall(s, len)
<1>1. c \in RetrieveCalls /\ c.slot = s /\ ~c.lost
  BY ReadCallLemma DEF Live
<1>2. /\ call'[p] = c /\ \A q \in Procs \ {p} : call'[q] = call[q]
      /\ call' \in [Procs -> {NoCall} \cup TransmitCalls \cup RetrieveCalls]
  BY <1>1 DEF TypeInv
<1>3. pipes' \in [Slots -> PipeRecord \cup {NoPipe}] /\ Live' = Live
  BY MarkedLemma
<1>. HIDE DEF c
<1>4. KeepsSlot'
  BY <1>1, <1>2, <1>3 DEF KeepsSlot
<1>. QED  BY <1>1, <1>2, <1>3, <1>4

LEMMA TableInit == Init => TableInv
<1>. SUFFICES ASSUME Init PROVE TableInv
  OBVIOUS
<1>1. QtyRange > 0
  BY DEF QtyRange
<1>2. TypeInv /\ KeepsSlot
  BY <1>1, SizeAssumption DEF Init, TypeInv, KeepsSlot, Slots
<1>. QED  BY <1>2 DEF TableInv

LEMMA TableStep == TableInv /\ [Next]_vars => TableInv'
<1>. SUFFICES ASSUME TableInv, [Next]_vars PROVE TableInv'
  OBVIOUS
<1>. USE DEF TableInv
<1>1. CASE UNCHANGED vars
  BY <1>1 DEF vars, procVars, tableVars, history, TypeInv, KeepsSlot, Live
<1>2. CASE GetPipe(Shell)
  <2>1. CASE qtyPipes >= MAX_PIPES
    BY <1>2, <2>1 DEF GetPipe, procVars, tableVars, history, TypeInv, KeepsSlot, Live
  <2>2. CASE ~(qtyPipes >= MAX_PIPES)
    <3>. DEFINE n == NextFreePipe
    <3>1. n \in Slots \ Live
      BY <1>2, <2>2, NextFreePipeLemma DEF GetPipe
    <3>2. /\ lastFreePipe' = n /\ pipes' = [pipes EXCEPT ![n] = NewPipe]
          /\ qtyPipes' = (qtyPipes + 1) % QtyRange /\ handle' = <<n, "left">>
          /\ UNCHANGED <<procVars, history, fault>>
      BY <1>2, <2>2 DEF GetPipe
    <3>. HIDE DEF n
    <3>3. Live' = Live \cup {n}
      BY <3>1, <3>2, NewPipeLemma, NamesAssumption DEF TypeInv, Live
    <3>4. qtyPipes' \in Nat /\ qtyPipes' < QtyRange
      BY <3>2, CountedLemma DEF TypeInv
    <3>5. TypeInv'
      BY <3>1, <3>2, <3>4, NewPipeLemma DEF TypeInv, procVars
    <3>6. KeepsSlot'
      BY <3>2, <3>3 DEF KeepsSlot, procVars
    <3>. QED  BY <3>5, <3>6
  <2>. QED  BY <2>1, <2>2
<1>3. ASSUME NEW child \in Procs \ {Shell}, Spawn(Shell, child) PROVE TableInv'
  <2>. DEFINE s == handle[1]
              mode == IF handle[2] = "left" THEN "write" ELSE "read"
  <2>1. /\ s \in Slots /\ handle[2] \in {"left", "right"} /\ mode \in {"read", "write"}
    BY <1>3 DEF Spawn, TypeInv
  <2>2. /\ Grant(child, s, mode)
        /\ status' = [status EXCEPT ![child] = "ready"]
        /\ fds' = [fds EXCEPT ![child] = s]
        /\ handle' = IF handle[2] = "left" THEN <<s, "right">> ELSE <<>>
        /\ UNCHANGED <<call, lastFreePipe, history, fault>>
    BY <1>3 DEF Spawn
  <2>. HIDE DEF s, mode
  <2>3. /\ pipes' \in [Slots -> PipeRecord \cup {NoPipe}] /\ qtyPipes' \in Nat /\ qtyPipes' < QtyRange
        /\ Live' = Live \cup {s}
    BY <2>1, <2>2, GrantStep
  <2>4. TypeInv'
    BY <2>1, <2>2, <2>3 DEF TypeInv
  <2>. QED  BY <2>2, <2>3, <2>4 DEF KeepsSlot
<1>4. ASSUME NEW p \in Procs, NEW s \in Slots, NEW bytes \in Messages, Write(p, s, bytes)
      PROVE  TableInv'
  <2>. DEFINE c == TransmitCall(p, s, bytes, NoPid)
  <2>1. c \in TransmitCalls /\ c.slot = s
    BY WriteCallLemma
  <2>2. s \in Live /\ StartTransmit(p, c) /\ UNCHANGED <<fds, tableVars, history>>
    BY <1>4 DEF Write
  <2>. HIDE DEF c
  <2>. QED  BY <2>1, <2>2, StartTransmitStep DEF TypeInv, tableVars
<1>5. ASSUME NEW p \in Procs, NEW s \in Slots, NEW len \in Lens, Read(p, s, len)
      PROVE  TableInv'
  <2>1. s \in Live /\ len \in Nat \ {0} /\ UNCHANGED <<fds, tableVars>>
    BY <1>5, NamesAssumption DEF Read
  <2>2. CASE Empty(pipes[s])
    <3>1. /\ pipes' = [pipes EXCEPT ![s].isBlocking = TRUE]
          /\ status' = [status EXCEPT ![p] = "blocked"]
          /\ call' = [call EXCEPT ![p] = ReadCall(s, len)]
          /\ UNCHANGED <<history, fault>>
      BY <1>5, <2>2 DEF Read, ReadCall
    <3>2. /\ pipes' \in [Slots -> PipeRecord \cup {NoPipe}]
          /\ call' \in [Procs -> {NoCall} \cup TransmitCalls \cup RetrieveCalls]
          /\ Live' = Live /\ KeepsSlot'
      BY <2>1, <3>1, ReadWaitStep
    <3>3. status' \in [Procs -> {"none", "ready", "blocked"}]
      BY <3>1 DEF TypeInv
    <3>. QED  BY <2>1, <3>1, <3>2, <3>3 DEF TypeInv, tableVars
  <2>3. CASE ~Empty(pipes[s])
    <3>1. Retrieve(p, s, len)
      BY <1>5, <2>3 DEF Read
    <3>. QED  BY <2>1, <3>1, RetrieveStep DEF TypeInv, tableVars
  <2>. QED  BY <2>2, <2>3
<1>6. ASSUME NEW p \in Procs, ResumeTransmit(p) PROVE TableInv'
  <2>. DEFINE c == call[p]
  <2>1. c \in TransmitCalls /\ UNCHANGED <<fds, tableVars, history>>
    BY <1>6, MyCallLemma DEF ResumeTransmit
  <2>2. CASE c.slot \in Live /\ Transmit(p, c)
    BY <2>1, <2>2, TransmitStep DEF TypeInv, tableVars
  <2>3. CASE /\ Finish(p, c.victim, status)
             /\ fault' = (fault \/ (c.victim # NoPid /\ BeingKilled(c.victim, p)))
             /\ UNCHANGED pipes
    <3>1. Live' = Live /\ fault' \in BOOLEAN
      BY <2>3 DEF Live, TypeInv
    <3>. QED  BY <2>1, <2>3, <3>1, FinishStep DEF TypeInv, KeepsSlot, tableVars
  <2>. QED  BY <1>6, <2>2, <2>3 DEF ResumeTransmit
<1>7. ASSUME NEW p \in Procs, ResumeRetrieve(p) PROVE TableInv'
  <2>. DEFINE c == call[p]
  <2>1. c \in RetrieveCalls /\ UNCHANGED <<fds, tableVars>>
    BY <1>7, MyCallLemma DEF ResumeRetrieve
  <2>2. c # NoCall /\ c.slot \in Slots /\ c.len \in Nat \ {0} /\ c.lost \in BOOLEAN
    BY <2>1, CallLemma
  <2>3. CASE c.lost
    <3>1. /\ fault' = TRUE /\ call' = [call EXCEPT ![p] = NoCall]
          /\ UNCHANGED <<status, pipes, history>>
      BY <1>7, <2>3 DEF ResumeRetrieve
    <3>. QED  BY <2>1, <3>1 DEF TypeInv, KeepsSlot, tableVars, Live
  <2>4. CASE ~c.lost
    <3>1. Retrieve(p, c.slot, c.len)
      BY <1>7, <2>4 DEF ResumeRetrieve
    <3>2. c.slot \in Live
      BY <2>2, <2>4 DEF KeepsSlot
    <3>. QED  BY <2>1, <2>2, <3>1, <3>2, RetrieveStep DEF TypeInv, tableVars
  <2>. QED  BY <2>2, <2>3, <2>4
<1>8. ASSUME NEW p \in Procs, Exit(p) PROVE TableInv'
  BY <1>8, KillProcessStep DEF Exit
<1>9. ASSUME NEW p \in Procs, NEW v \in Procs, Kill(p, v) PROVE TableInv'
  BY <1>9, KillProcessStep DEF Kill
<1>10. ASSUME NEW p \in Procs, NEW s \in Slots, Close(p, s) PROVE TableInv'
  <2>1. UNCHANGED <<fds, lastFreePipe, handle>>
    BY <1>10 DEF Close
  <2>2. CASE /\ Holds(p, s, "inputPid") /\ ~EofStored(pipes[s])
             /\ StartTransmit(p, TransmitCall(p, s, <<Eof>>, NoPid))
             /\ UNCHANGED <<qtyPipes, history>>
    <3>. DEFINE c == TransmitCall(p, s, <<Eof>>, NoPid)
    <3>1. c \in TransmitCalls /\ c.slot = s /\ s \in Live
      BY <2>2, EofCallLemma DEF Holds
    <3>2. StartTransmit(p, c)
      BY <2>2
    <3>. HIDE DEF c
    <3>. QED  BY <2>1, <2>2, <3>1, <3>2, StartTransmitStep DEF TypeInv
  <2>3. CASE /\ Reads(p, s)
             /\ FreePipe(s)
             /\ call' = Losing(call, s)
             /\ UNCHANGED <<status, fault>>
    <3>1. s \in Live
      BY <2>3 DEF Reads, Holds
    <3>2. /\ pipes' \in [Slots -> PipeRecord \cup {NoPipe}]
          /\ qtyPipes' \in Nat /\ qtyPipes' < QtyRange /\ Live' = Live \ {s}
      BY <2>3, <3>1, FreeStep
    <3>3. /\ call' \in [Procs -> {NoCall} \cup TransmitCalls \cup RetrieveCalls]
          /\ \A q \in Procs : IF call[q] # NoCall /\ call[q].slot = s
                              THEN call'[q] # NoCall /\ call'[q].lost
                              ELSE call'[q] = call[q]
      BY <2>3, LosingLemma DEF TypeInv
    <3>4. KeepsSlot'
      BY <3>2, <3>3 DEF KeepsSlot
    <3>. QED  BY <2>1, <2>3, <3>2, <3>3, <3>4 DEF TypeInv
  <2>. QED  BY <1>10, <2>2, <2>3 DEF Close
<1>11. ASSUME NEW p \in Procs, NEW s \in Slots, NEW mode \in {"read", "write"},
              Open(p, s, mode)
       PROVE  TableInv'
  <2>1. Grant(p, s, mode) /\ UNCHANGED <<procVars, lastFreePipe, handle, history, fault>>
    BY <1>11 DEF Open
  <2>2. /\ pipes' \in [Slots -> PipeRecord \cup {NoPipe}] /\ qtyPipes' \in Nat /\ qtyPipes' < QtyRange
        /\ Live' = Live \cup {s}
    BY <2>1, GrantStep
  <2>. QED  BY <2>1, <2>2 DEF TypeInv, KeepsSlot, procVars
<1>12. ASSUME NEW v \in Procs, Unblock(v) PROVE TableInv'
  BY <1>12 DEF Unblock, tableVars, history, TypeInv, KeepsSlot, Live
<1>. QED
  BY <1>1, <1>2, <1>3, <1>4, <1>5, <1>6, <1>7, <1>8, <1>9, <1>10, <1>11, <1>12
     DEF Next, Step

(* The table, the rings, the calls and the counter keep their shapes       *)
(* whatever is opened, closed and killed, by any process at any step of    *)
(* another's call; a call that has not lost its pipe is in one.            *)
THEOREM TableHolds == Spec => []TableInv
<1>. QED  BY TableInit, TableStep, PTL DEF Spec

-----------------------------------------------------------------------------
(* The counter and the pipes: a step leaves both alone, or counts a grant  *)
(* or a new pipe, or gives back one for a pipe it frees.                   *)
CountOutcome ==
  \/ Live' = Live /\ qtyPipes' = qtyPipes
  \/ \E s \in Slots : /\ Live' = Live \cup {s} /\ qtyPipes < MaxGrants
                      /\ qtyPipes' = (qtyPipes + 1) % QtyRange
  \/ \E s \in Live : Live' = Live \ {s} /\ qtyPipes' = (qtyPipes - 1) % QtyRange

LEMMA CountKill ==
  ASSUME TableInv, NEW p \in Procs, NEW victim \in Procs, KillProcess(p, victim)
  PROVE  CountOutcome
<1>. DEFINE s == fds[victim]
<1>1. CASE FreePipe(s) /\ Reads(victim, s)
  <2>1. s \in Live
    BY <1>1 DEF Reads, Holds
  <2>2. Live' = Live \ {s} /\ qtyPipes' = (qtyPipes - 1) % QtyRange
    BY <1>1, <2>1, FreeStep DEF TableInv, FreePipe
  <2>. QED  BY <2>1, <2>2 DEF CountOutcome
<1>2. CASE ~Reads(victim, s)
  <2>1. CASE Holds(victim, s, "inputPid") /\ ~EofStored(pipes[s])
    <3>. DEFINE c == TransmitCall(victim, s, <<Eof>>, victim)
    <3>1. s \in Live /\ s \in Slots
      BY <2>1 DEF Holds, Live
    <3>2. c \in TransmitCalls /\ c.slot = s
      BY <3>1 DEF TransmitCall, TransmitCalls, Rests
    <3>3. StartTransmit(p, c) /\ qtyPipes' = qtyPipes
      BY <2>1 DEF KillProcess
    <3>. HIDE DEF c
    <3>4. Live' = Live
      BY <3>1, <3>2, <3>3, StartTransmitStep DEF TableInv
    <3>. QED  BY <3>3, <3>4 DEF CountOutcome
  <2>2. CASE ~(Holds(victim, s, "inputPid") /\ ~EofStored(pipes[s]))
    <3>1. UNCHANGED pipes /\ qtyPipes' = qtyPipes
      BY <1>2, <2>2 DEF KillProcess
    <3>. QED  BY <3>1 DEF CountOutcome, Live
  <2>. QED  BY <2>1, <2>2
<1>3. Reads(victim, s) => FreePipe(s)
  BY DEF KillProcess, Reads, Holds
<1>. QED  BY <1>1, <1>2, <1>3

LEMMA CountChanges ==
  ASSUME TableInv, [Next]_vars
  PROVE  CountOutcome
<1>. DEFINE Same == Live' = Live /\ qtyPipes' = qtyPipes
<1>1. CASE UNCHANGED vars
  BY <1>1 DEF vars, tableVars, CountOutcome, Live
<1>2. CASE GetPipe(Shell)
  <2>1. CASE qtyPipes >= MAX_PIPES
    BY <1>2, <2>1 DEF GetPipe, tableVars, CountOutcome, Live
  <2>2. CASE ~(qtyPipes >= MAX_PIPES)
    <3>. DEFINE n == NextFreePipe
    <3>1. n \in Slots \ Live
      BY <1>2, <2>2, NextFreePipeLemma DEF TableInv, GetPipe
    <3>2. /\ pipes' = [pipes EXCEPT ![n] = NewPipe] /\ qtyPipes < MaxGrants
          /\ qtyPipes' = (qtyPipes + 1) % QtyRange
      BY <1>2, <2>2 DEF GetPipe
    <3>. HIDE DEF n
    <3>3. Live' = Live \cup {n}
      BY <3>1, <3>2, NewPipeLemma, NamesAssumption DEF TableInv, TypeInv, Live
    <3>. QED  BY <3>1, <3>2, <3>3 DEF CountOutcome
  <2>. QED  BY <2>1, <2>2
<1>3. ASSUME NEW child \in Procs \ {Shell}, Spawn(Shell, child) PROVE CountOutcome
  <2>. DEFINE s == handle[1]
              mode == IF handle[2] = "left" THEN "write" ELSE "read"
  <2>1. s \in Slots /\ mode \in {"read", "write"}
    BY <1>3 DEF Spawn, TableInv, TypeInv
  <2>2. Grant(child, s, mode) /\ qtyPipes < MaxGrants
    BY <1>3 DEF Spawn
  <2>. HIDE DEF s, mode
  <2>3. Live' = Live \cup {s} /\ qtyPipes' = (qtyPipes + 1) % QtyRange
    BY <2>1, <2>2, GrantStep DEF TableInv, Grant
  <2>. QED  BY <2>1, <2>2, <2>3 DEF CountOutcome
<1>4. ASSUME NEW p \in Procs, NEW s \in Slots, NEW bytes \in Messages, Write(p, s, bytes)
      PROVE  CountOutcome
  <2>. DEFINE c == TransmitCall(p, s, bytes, NoPid)
  <2>1. c \in TransmitCalls /\ c.slot = s
    BY WriteCallLemma
  <2>2. s \in Live /\ StartTransmit(p, c) /\ qtyPipes' = qtyPipes
    BY <1>4 DEF Write, tableVars
  <2>. HIDE DEF c
  <2>3. Live' = Live
    BY <2>1, <2>2, StartTransmitStep DEF TableInv
  <2>. QED  BY <2>2, <2>3 DEF CountOutcome
<1>5. ASSUME NEW p \in Procs, NEW s \in Slots, NEW len \in Lens, Read(p, s, len)
      PROVE  CountOutcome
  <2>1. s \in Live /\ len \in Nat \ {0} /\ qtyPipes' = qtyPipes
    BY <1>5, NamesAssumption DEF Read, tableVars
  <2>2. CASE Empty(pipes[s])
    <3>1. pipes' = [pipes EXCEPT ![s].isBlocking = TRUE]
      BY <1>5, <2>2 DEF Read
    <3>2. Live' = Live
      BY <2>1, <3>1, MarkedLemma DEF TableInv
    <3>. QED  BY <2>1, <3>2 DEF CountOutcome
  <2>3. CASE ~Empty(pipes[s])
    <3>1. Retrieve(p, s, len)
      BY <1>5, <2>3 DEF Read
    <3>2. Live' = Live
      BY <2>1, <3>1, RetrieveStep DEF TableInv
    <3>. QED  BY <2>1, <3>2 DEF CountOutcome
  <2>. QED  BY <2>2, <2>3
<1>6. ASSUME NEW p \in Procs, ResumeTransmit(p) PROVE CountOutcome
  <2>. DEFINE c == call[p]
  <2>1. c \in TransmitCalls /\ qtyPipes' = qtyPipes
    BY <1>6, MyCallLemma DEF ResumeTransmit, TableInv, tableVars
  <2>2. CASE c.slot \in Live /\ Transmit(p, c)
    <3>1. Live' = Live
      BY <2>1, <2>2, TransmitStep DEF TableInv
    <3>. QED  BY <2>1, <3>1 DEF CountOutcome
  <2>3. CASE UNCHANGED pipes
    BY <2>1, <2>3 DEF CountOutcome, Live
  <2>. QED  BY <1>6, <2>2, <2>3 DEF ResumeTransmit
<1>7. ASSUME NEW p \in Procs, ResumeRetrieve(p) PROVE CountOutcome
  <2>. DEFINE c == call[p]
  <2>1. c \in RetrieveCalls /\ qtyPipes' = qtyPipes
    BY <1>7, MyCallLemma DEF ResumeRetrieve, TableInv, tableVars
  <2>2. c # NoCall /\ c.len \in Nat \ {0} /\ (~c.lost => c.slot \in Live)
    BY <2>1, CallLemma DEF TableInv, KeepsSlot
  <2>3. CASE c.lost
    <3>1. UNCHANGED pipes
      BY <1>7, <2>3 DEF ResumeRetrieve
    <3>. QED  BY <2>1, <3>1 DEF CountOutcome, Live
  <2>4. CASE ~c.lost
    <3>1. Retrieve(p, c.slot, c.len)
      BY <1>7, <2>4 DEF ResumeRetrieve
    <3>2. Live' = Live
      BY <2>2, <2>4, <3>1, RetrieveStep DEF TableInv
    <3>. QED  BY <2>1, <3>2 DEF CountOutcome
  <2>. QED  BY <2>3, <2>4
<1>8. ASSUME NEW p \in Procs, Exit(p) PROVE CountOutcome
  BY <1>8, CountKill DEF Exit
<1>9. ASSUME NEW p \in Procs, NEW v \in Procs, Kill(p, v) PROVE CountOutcome
  BY <1>9, CountKill DEF Kill
<1>10. ASSUME NEW p \in Procs, NEW s \in Slots, Close(p, s) PROVE CountOutcome
  <2>1. CASE /\ Holds(p, s, "inputPid") /\ qtyPipes' = qtyPipes
             /\ StartTransmit(p, TransmitCall(p, s, <<Eof>>, NoPid))
    <3>. DEFINE c == TransmitCall(p, s, <<Eof>>, NoPid)
    <3>1. c \in TransmitCalls /\ c.slot = s /\ s \in Live
      BY <2>1, EofCallLemma DEF Holds
    <3>2. StartTransmit(p, c)
      BY <2>1
    <3>. HIDE DEF c
    <3>3. Live' = Live
      BY <3>1, <3>2, StartTransmitStep DEF TableInv
    <3>. QED  BY <2>1, <3>3 DEF CountOutcome
  <2>2. CASE Reads(p, s) /\ FreePipe(s)
    <3>1. s \in Live
      BY <2>2 DEF Reads, Holds
    <3>2. Live' = Live \ {s} /\ qtyPipes' = (qtyPipes - 1) % QtyRange
      BY <2>2, <3>1, FreeStep DEF TableInv, FreePipe
    <3>. QED  BY <3>1, <3>2 DEF CountOutcome
  <2>. QED  BY <1>10, <2>1, <2>2 DEF Close
<1>11. ASSUME NEW p \in Procs, NEW s \in Slots, NEW mode \in {"read", "write"},
              Open(p, s, mode)
       PROVE  CountOutcome
  <2>1. Grant(p, s, mode) /\ qtyPipes < MaxGrants
    BY <1>11 DEF Open
  <2>2. Live' = Live \cup {s} /\ qtyPipes' = (qtyPipes + 1) % QtyRange
    BY <2>1, GrantStep DEF TableInv, Grant
  <2>. QED  BY <2>1, <2>2 DEF CountOutcome
<1>12. ASSUME NEW v \in Procs, Unblock(v) PROVE CountOutcome
  BY <1>12 DEF Unblock, tableVars, CountOutcome, Live
<1>. QED
  BY <1>1, <1>2, <1>3, <1>4, <1>5, <1>6, <1>7, <1>8, <1>9, <1>10, <1>11, <1>12
     DEF Next, Step

LEMMA CountStep ==
  ASSUME MaxGrants \in Nat, MaxGrants < QtyRange
  PROVE  TableInv /\ CountCoversPool /\ [Next]_vars => CountCoversPool'
<1>. SUFFICES ASSUME TableInv, CountCoversPool, [Next]_vars PROVE CountCoversPool'
  OBVIOUS
<1>1. Live \in SUBSET Slots /\ IsFiniteSet(Live) /\ Cardinality(Live) \in Nat
  BY SlotsLemma DEF Live
<1>2. qtyPipes \in Nat /\ qtyPipes < QtyRange /\ Cardinality(Live) <= qtyPipes
  BY DEF TableInv, TypeInv, CountCoversPool
<1>3. CASE Live' = Live /\ qtyPipes' = qtyPipes
  BY <1>2, <1>3 DEF CountCoversPool
<1>4. ASSUME NEW s \in Slots, Live' = Live \cup {s}, qtyPipes < MaxGrants,
             qtyPipes' = (qtyPipes + 1) % QtyRange
      PROVE  CountCoversPool'
  <2>. DEFINE n == qtyPipes + 1
  <2>1. n \in Nat /\ n < QtyRange
    <3>1. QtyRange \in Nat
      BY DEF QtyRange
    <3>. HIDE DEF QtyRange
    <3>. QED  BY <1>2, <1>4, <3>1
  <2>2. Cardinality(Live \cup {s}) <= Cardinality(Live) + 1
        /\ Cardinality(Live \cup {s}) \in Nat
    BY <1>1, SlotsLemma, FS_AddElement
  <2>. HIDE DEF n
  <2>3. n % QtyRange = n
    BY <2>1, CountedLemma
  <2>4. qtyPipes' = n /\ n = qtyPipes + 1
    BY <1>4, <2>3 DEF n
  <2>. QED  BY <1>1, <1>2, <1>4, <2>2, <2>4 DEF CountCoversPool
<1>5. ASSUME NEW s \in Live, Live' = Live \ {s}, qtyPipes' = (qtyPipes - 1) % QtyRange
      PROVE  CountCoversPool'
  <2>1. Cardinality(Live \ {s}) = Cardinality(Live) - 1 /\ Cardinality(Live \ {s}) \in Nat
    BY <1>1, SlotsLemma, FS_RemoveElement
  <2>. DEFINE n == qtyPipes - 1
  <2>2. n \in Nat /\ n < QtyRange
    <3>1. QtyRange \in Nat
      BY DEF QtyRange
    <3>. HIDE DEF QtyRange
    <3>. QED  BY <1>1, <1>2, <2>1, <3>1
  <2>. HIDE DEF n
  <2>3. n % QtyRange = n
    BY <2>2, CountedLemma
  <2>4. qtyPipes' = n /\ n = qtyPipes - 1
    BY <1>5, <2>3 DEF n
  <2>. QED  BY <1>1, <1>2, <1>5, <2>1, <2>4 DEF CountCoversPool
<1>. QED  BY <1>3, <1>4, <1>5, CountChanges DEF CountOutcome

(* The scan of requestNewPipeHandle (pipeManager.c 71-73) ends whatever    *)
(* the programs open, close and kill, as long as the counter of 16 bits    *)
(* has not wrapped: the grants counted are at least as many as the live    *)
(* pipes, so a table found not full by its count has a free slot.          *)
THEOREM CountCoversPoolHolds ==
  ASSUME MaxGrants \in Nat, MaxGrants < QtyRange
  PROVE  Spec => []CountCoversPool
<1>1. Init => CountCoversPool
  <2>1. Init => Live = {}
    BY DEF Init, Live
  <2>2. Init => qtyPipes = 0
    BY DEF Init
  <2>3. Cardinality({}) = 0
    BY FS_EmptySet
  <2>. QED  BY <2>1, <2>2, <2>3 DEF CountCoversPool
<1>2. Init => TableInv /\ CountCoversPool
  BY <1>1, TableInit
<1>3. (TableInv /\ CountCoversPool) /\ [Next]_vars => (TableInv /\ CountCoversPool)'
  BY TableStep, CountStep
<1>. QED  BY <1>2, <1>3, PTL DEF Spec

-----------------------------------------------------------------------------
(* What a round of a transmission changes, besides the ring.               *)
SameEnds ==
  /\ Live' = Live
  /\ \A t \in Live : /\ pipes'[t].inputPid = pipes[t].inputPid
                     /\ pipes'[t].outputPid = pipes[t].outputPid

(* c goes on as the call d of p: the same but for what is left.            *)
GoesOn(c, d) ==
  /\ d \in TransmitCalls /\ d.pid = c.pid /\ d.slot = c.slot
  /\ d.victim = c.victim /\ d.lost = c.lost /\ (d.rest = <<Eof>> <=> c.rest = <<Eof>>)

TransmitOutcome(p, c) ==
  /\ SameEnds
  /\ \A t \in Live \ {c.slot} : pipes'[t] = pipes[t]
  /\ \A q \in Procs \ {p} : call'[q] \in {call[q], NoCall}
  /\ \A q \in Procs \ {c.victim} : status[q] # "none" => status'[q] # "none"
  /\ \/ /\ GoesOn(c, call'[p])
        /\ Full(pipes'[c.slot]) /\ pipes'[c.slot].isBlocking
        /\ status'[c.pid] = "blocked"
        /\ \A q \in Procs \ {c.pid} : status'[q] = "blocked" =>
             /\ status[q] = "blocked"
             /\ \/ Full(pipes[c.slot]) \/ ~pipes[c.slot].isBlocking
                \/ q # pipes[c.slot].outputPid
     \/ /\ call'[p] = NoCall /\ \A q \in Procs : q = c.victim => call'[q] = NoCall
        /\ ~pipes'[c.slot].isBlocking /\ ~Full(pipes[c.slot])
        /\ \A q \in Procs : status'[q] = "blocked" =>
             /\ status[q] = "blocked"
             /\ ~pipes[c.slot].isBlocking \/ q # pipes[c.slot].outputPid

LEMMA TransmitChanges ==
  ASSUME TypeInv, NEW p \in Procs, NEW c \in TransmitCalls,
         c.slot \in Live, Transmit(p, c)
  PROVE  TransmitOutcome(p, c)
<1>. DEFINE pipe == pipes[c.slot]
            put == Accepted(pipe, c.rest)
            left == SubSeq(c.rest, Len(put) + 1, Len(c.rest))
            k == AtMost(Len(c.rest), PIPE_SIZE - pipe.currentSize)
            st == IF pipe.isBlocking THEN Woken(status, pipe.outputPid) ELSE status
<1>1. c.rest \in Rests /\ c.slot \in Slots /\ c.pid \in Procs
  BY CallLemma
<1>2. pipe \in PipeRecord
  BY <1>1, LiveLemma
<1>3. /\ Live' = Live
      /\ \A t \in Slots \ {c.slot} : pipes'[t] = pipes[t]
      /\ pipes'[c.slot].isBlocking = (left # <<>>)
      /\ pipes'[c.slot].inputPid = pipe.inputPid
      /\ pipes'[c.slot].outputPid = pipe.outputPid
      /\ pipes'[c.slot].currentSize = IF put = <<Eof>> THEN pipe.currentSize
                                      ELSE pipe.currentSize + Len(put)
  BY <1>1, <1>2, StoredLemma DEF Transmit
<1>4. SameEnds /\ \A t \in Live \ {c.slot} : pipes'[t] = pipes[t]
  BY <1>3 DEF SameEnds, Live
<1>5. /\ Len(put) = k /\ k \in 0 .. Len(c.rest) /\ Len(c.rest) \in Nat \ {0}
      /\ left = <<>> <=> k = Len(c.rest)
      /\ left # <<>> => left \in Rests /\ (left = <<Eof>> <=> c.rest = <<Eof>>)
      /\ left # <<>> => k = PIPE_SIZE - pipe.currentSize
      /\ put = <<Eof>> <=> c.rest = <<Eof>> /\ ~Full(pipe)
  BY <1>1, <1>2, AcceptedLemma, RestsLemma
<1>6. /\ IF left = <<>> THEN Finish(p, c.victim, st)
                        ELSE Suspend(p, [c EXCEPT !.rest = left], st)
  BY DEF Transmit
<1>7. /\ st \in [Procs -> {"none", "ready", "blocked"}]
      /\ \A q \in Procs : /\ st[q] = "none" <=> status[q] = "none"
                          /\ st[q] = "blocked" => /\ status[q] = "blocked"
                                                  /\ ~pipe.isBlocking \/ q # pipe.outputPid
  BY DEF Woken, TypeInv
<1>8. pipe.currentSize \in 0 .. PIPE_SIZE
  BY <1>2 DEF PipeRecord
<1>9. left # <<>> => GoesOn(c, [c EXCEPT !.rest = left]) /\ [c EXCEPT !.rest = left].pid = c.pid
  <2>. HIDE DEF left
  <2>. QED  BY <1>5, CallChanges DEF GoesOn, TransmitCalls
<1>. HIDE DEF left, st, put, k
<1>10. CASE left # <<>>
  <2>1. /\ status' = [st EXCEPT ![c.pid] = "blocked"]
        /\ call' = [call EXCEPT ![p] = [c EXCEPT !.rest = left]]
    BY <1>6, <1>9, <1>10 DEF Suspend
  <2>2. Full(pipes'[c.slot])
    <3>1. put # <<Eof>>
      <4>1. CASE c.rest = <<Eof>>
        <5>1. Len(c.rest) = 1
          BY <4>1
        <5>2. Full(pipe)
          BY <5>1, <1>5, <1>8, <1>10, SizeAssumption DEF Full
        <5>. QED  BY <1>5, <5>2
      <4>2. CASE c.rest # <<Eof>>
        BY <4>2, <1>5
      <4>. QED  BY <4>1, <4>2
    <3>. QED  BY <3>1, <1>3, <1>5, <1>8, <1>10, SizeAssumption DEF Full
  <2>3. /\ GoesOn(c, call'[p]) /\ \A q \in Procs \ {p} : call'[q] = call[q]
    BY <1>9, <1>10, <2>1 DEF TypeInv
  <2>4. /\ status'[c.pid] = "blocked" /\ \A q \in Procs \ {c.pid} : status'[q] = st[q]
    BY <1>1, <1>7, <2>1
  <2>. QED  BY <1>3, <1>4, <1>7, <1>10, <2>2, <2>3, <2>4 DEF TransmitOutcome
<1>11. CASE left = <<>>
  <2>1. /\ status' = IF c.victim = NoPid THEN st ELSE [st EXCEPT ![c.victim] = "none"]
        /\ call' = Without(call, p, c.victim)
    BY <1>6, <1>11 DEF Finish
  <2>2. \A q \in Procs : /\ call'[q] \in {call[q], NoCall}
                         /\ q = p \/ q = c.victim => call'[q] = NoCall
    BY <2>1 DEF Without
  <2>3. \A q \in Procs : /\ q # c.victim => status'[q] = st[q]
                         /\ status'[q] = "blocked" => st[q] = "blocked"
    BY <1>7, <2>1
  <2>4. ~Full(pipe)
    BY <1>5, <1>8, <1>11, SizeAssumption DEF Full, k, AtMost
  <2>. QED  BY <1>3, <1>4, <1>7, <1>11, <2>2, <2>3, <2>4 DEF TransmitOutcome
<1>. QED  BY <1>10, <1>11

LEMMA StartTransmitChanges ==
  ASSUME TypeInv, NEW p \in Procs, NEW c \in TransmitCalls,
         c.slot \in Live, StartTransmit(p, c)
  PROVE  TransmitOutcome(p, c)
<1>1. CASE ~Full(pipes[c.slot])
  BY <1>1, TransmitChanges DEF StartTransmit
<1>2. CASE Full(pipes[c.slot])
  <2>1. /\ pipes' = [pipes EXCEPT ![c.slot].isBlocking = TRUE]
        /\ status' = [status EXCEPT ![c.pid] = "blocked"]
        /\ call' = [call EXCEPT ![p] = c]
    BY <1>2 DEF StartTransmit, Suspend
  <2>2. /\ Live' = Live /\ pipes'[c.slot].isBlocking
        /\ \A t \in Slots \ {c.slot} : pipes'[t] = pipes[t]
        /\ pipes'[c.slot].inputPid = pipes[c.slot].inputPid
        /\ pipes'[c.slot].outputPid = pipes[c.slot].outputPid
        /\ pipes'[c.slot].currentSize = pipes[c.slot].currentSize
    BY <2>1, MarkedLemma
  <2>3. SameEnds /\ (\A t \in Live \ {c.slot} : pipes'[t] = pipes[t]) /\ Full(pipes'[c.slot])
    BY <1>2, <2>2 DEF SameEnds, Live, Full
  <2>4. GoesOn(c, call'[p]) /\ \A q \in Procs \ {p} : call'[q] = call[q]
    BY <2>1 DEF TypeInv, GoesOn
  <2>5. /\ status'[c.pid] = "blocked" /\ \A q \in Procs \ {c.pid} : status'[q] = status[q]
    BY <2>1, CallLemma DEF TypeInv
  <2>. QED  BY <1>2, <2>2, <2>3, <2>4, <2>5 DEF TransmitOutcome
<1>. QED  BY <1>1, <1>2

(* What freeing the pipe at the reading end of the victim changes.         *)
FreeOutcome(s, victim) ==
  /\ s \in Live /\ Live' = Live \ {s} /\ pipes[s].outputPid = victim
  /\ \A t \in Live \ {s} : pipes'[t] = pipes[t]
  /\ \A q \in Procs :
       \/ call'[q] = NoCall
       \/ call'[q] = call[q] /\ call[q].slot # s /\ q # victim
       \/ /\ call[q] # NoCall /\ call[q].slot = s /\ q # victim /\ call'[q].lost
          /\ call[q] \in TransmitCalls =>
               /\ call'[q] \in TransmitCalls
               /\ call'[q].pid = call[q].pid /\ call'[q].victim = call[q].victim
  /\ call'[victim] = NoCall

(* What killProcess changes: it frees a pipe, or starts to send the end of *)
(* the stream, or only ends the victim.                                    *)
KillOutcome(p, victim) ==
  \/ /\ FreeOutcome(fds[victim], victim) /\ Reads(victim, fds[victim])
     /\ status' = [status EXCEPT ![victim] = "none"]
     /\ fault' = (fault \/ BeingKilled(victim, p))
  \/ /\ ~Reads(victim, fds[victim])
     /\ \E s \in Live : LET c == TransmitCall(victim, s, <<Eof>>, victim)
                        IN  /\ c \in TransmitCalls /\ c.slot = s /\ c.pid = victim
                            /\ c.victim = victim /\ c.rest = <<Eof>> /\ ~c.lost
                            /\ pipes[s].inputPid = victim
                            /\ StartTransmit(p, c) /\ TransmitOutcome(p, c)
  \/ /\ ~Reads(victim, fds[victim])
     /\ status' = [status EXCEPT ![victim] = "none"]
     /\ \A q \in Procs : call'[q] = IF q = p \/ q = victim THEN NoCall ELSE call[q]
     /\ UNCHANGED pipes /\ Live' = Live
     /\ fault' = (fault \/ BeingKilled(victim, p))

LEMMA KillChanges ==
  ASSUME TypeInv, NEW p \in Procs, NEW victim \in Procs, KillProcess(p, victim)
  PROVE  KillOutcome(p, victim)
<1>. DEFINE s == fds[victim]
<1>1. CASE Reads(victim, s)
  <2>1. s \in Live /\ s \in Slots /\ pipes[s].outputPid = victim
    BY <1>1 DEF Reads, Holds, Live
  <2>2. /\ FreePipe(s)
        /\ status' = [status EXCEPT ![victim] = "none"]
        /\ call' = Losing(Without(call, p, victim), s)
        /\ fault' = (fault \/ BeingKilled(victim, p))
    BY <1>1 DEF KillProcess, Reads, Holds
  <2>3. Live' = Live \ {s} /\ \A t \in Slots \ {s} : pipes'[t] = pipes[t]
    <3>1. pipes' = [pipes EXCEPT ![s] = NoPipe]
      BY <2>2 DEF FreePipe
    <3>2. pipes'[s] = NoPipe /\ \A t \in Slots \ {s} : pipes'[t] = pipes[t]
      BY <2>1, <3>1 DEF TypeInv
    <3>. HIDE DEF s
    <3>. QED  BY <3>2 DEF Live
  <2>. DEFINE cs == Without(call, p, victim)
  <2>4. /\ cs \in [Procs -> {NoCall} \cup TransmitCalls \cup RetrieveCalls]
        /\ \A q \in Procs : cs[q] = IF q = p \/ q = victim THEN NoCall ELSE call[q]
    BY DEF Without, TypeInv
  <2>. HIDE DEF cs, s
  <2>5. call' = Losing(cs, s)
    BY <2>2 DEF cs
  <2>6. /\ \A q \in Procs : IF cs[q] # NoCall /\ cs[q].slot = s
                            THEN call'[q] # NoCall /\ call'[q].lost
                            ELSE call'[q] = cs[q]
        /\ \A q \in Procs : cs[q] \in TransmitCalls =>
             /\ call'[q] \in TransmitCalls
             /\ call'[q].pid = cs[q].pid /\ call'[q].victim = cs[q].victim
    BY <2>4, <2>5, LosingLemma
  <2>7. \A q \in Procs :
          \/ call'[q] = NoCall
          \/ call'[q] = call[q] /\ call[q].slot # s /\ q # victim
          \/ /\ call[q] # NoCall /\ call[q].slot = s /\ q # victim /\ call'[q].lost
             /\ call[q] \in TransmitCalls =>
                  /\ call'[q] \in TransmitCalls
                  /\ call'[q].pid = call[q].pid /\ call'[q].victim = call[q].victim
    BY <2>4, <2>6
  <2>8. call'[victim] = NoCall
    BY <2>4, <2>6
  <2>9. FreeOutcome(s, victim)
    BY <2>1, <2>3, <2>7, <2>8 DEF FreeOutcome, Live
  <2>. QED  BY <1>1, <2>2, <2>9 DEF KillOutcome, s
<1>2. CASE Holds(victim, s, "inputPid") /\ ~EofStored(pipes[s])
  <2>1. s \in Live /\ s \in Slots /\ pipes[s].inputPid = victim
    BY <1>2 DEF Holds, Live
  <2>. DEFINE c == TransmitCall(victim, s, <<Eof>>, victim)
  <2>2. StartTransmit(p, c)
    BY <1>2 DEF KillProcess
  <2>3. /\ c \in TransmitCalls /\ c.slot = s /\ c.pid = victim /\ c.victim = victim
        /\ c.rest = <<Eof>> /\ ~c.lost
    BY <2>1 DEF TransmitCall, TransmitCalls, Rests
  <2>4. TransmitOutcome(p, c)
    <3>. HIDE DEF c
    <3>. QED  BY <2>1, <2>2, <2>3, StartTransmitChanges
  <2>. QED  BY <1>2, <2>1, <2>2, <2>3, <2>4 DEF KillOutcome, Reads, Holds
<1>3. CASE /\ ~(Holds(victim, s, "inputPid") /\ ~EofStored(pipes[s]))
           /\ ~Reads(victim, s)
  <2>1. /\ Finish(p, victim, status)
        /\ fault' = (fault \/ BeingKilled(victim, p))
        /\ UNCHANGED <<pipes, qtyPipes, history>>
    BY <1>3 DEF KillProcess
  <2>2. Live' = Live
    BY <2>1 DEF Live
  <2>3. /\ status' = [status EXCEPT ![victim] = "none"]
        /\ \A q \in Procs : call'[q] = IF q = p \/ q = victim THEN NoCall ELSE call[q]
    BY <2>1, NamesAssumption DEF Finish, Without
  <2>. QED  BY <1>3, <2>1, <2>2, <2>3 DEF KillOutcome, Reads, Holds
<1>. QED  BY <1>1, <1>2, <1>3

-----------------------------------------------------------------------------
(* Whoever is inside a call holds the end that the call is about: for the  *)
(* reader always, for a writer, or for the victim whose end is closed, as  *)
(* long as the pipe is not freed under the call.                           *)
WriterKeepsPipe ==
  \A p \in Procs : call[p] # NoCall /\ call[p].op = "transmit" /\ ~call[p].lost
                     => pipes[call[p].slot].inputPid = call[p].pid
EndsInv == ReaderKeepsPipe /\ WriterKeepsPipe

LEMMA EndsKept ==
  ASSUME TableInv, EndsInv, KeepsSlot', SameEnds, NEW p \in Procs,
         \A q \in Procs \ {p} : call'[q] \in {call[q], NoCall},
         \/ call'[p] = NoCall
         \/ /\ call'[p] \in TransmitCalls /\ call'[p].slot \in Live
            /\ ~call'[p].lost => pipes[call'[p].slot].inputPid = call'[p].pid
         \/ /\ call'[p] \in RetrieveCalls /\ call'[p].slot \in Live
            /\ ~call'[p].lost /\ pipes[call'[p].slot].outputPid = p
  PROVE  EndsInv'
<1>1. \A q \in Procs \ {p} : call'[q] # NoCall =>
        /\ call'[q] = call[q]
        /\ ~call[q].lost => call[q].slot \in Live
  BY DEF TableInv, KeepsSlot
<1>2. ReaderKeepsPipe'
  BY <1>1, CallLemma DEF EndsInv, ReaderKeepsPipe, SameEnds
<1>3. WriterKeepsPipe'
  BY <1>1, CallLemma DEF EndsInv, WriterKeepsPipe, SameEnds
<1>. QED  BY <1>2, <1>3 DEF EndsInv

LEMMA EndsTransmit ==
  ASSUME TableInv, TableInv', EndsInv, NEW p \in Procs, NEW c \in TransmitCalls,
         c.slot \in Live, ~c.lost => pipes[c.slot].inputPid = c.pid,
         TransmitOutcome(p, c)
  PROVE  EndsInv'
<1>1. /\ SameEnds /\ \A q \in Procs \ {p} : call'[q] \in {call[q], NoCall}
      /\ call'[p] = NoCall \/ GoesOn(c, call'[p])
  BY DEF TransmitOutcome
<1>2. \/ call'[p] = NoCall
      \/ /\ call'[p] \in TransmitCalls /\ call'[p].slot \in Live
         /\ ~call'[p].lost => pipes[call'[p].slot].inputPid = call'[p].pid
  BY <1>1 DEF GoesOn
<1>. QED  BY <1>1, <1>2, EndsKept DEF TableInv

LEMMA EndsRetrieve ==
  ASSUME TableInv, TableInv', EndsInv, NEW p \in Procs, NEW s \in Live,
         NEW len \in Nat \ {0}, pipes[s].outputPid = p, Retrieve(p, s, len)
  PROVE  EndsInv'
<1>1. /\ Live' = Live /\ \A t \in Slots \ {s} : pipes'[t] = pipes[t]
      /\ pipes'[s].inputPid = pipes[s].inputPid
      /\ pipes'[s].outputPid = pipes[s].outputPid
      /\ \A q \in Procs \ {p} : call'[q] = call[q]
      /\ \/ call'[p] = NoCall
         \/ call'[p] \in RetrieveCalls /\ call'[p].slot = s /\ ~call'[p].lost
  BY RetrieveStep DEF TableInv
<1>2. SameEnds
  BY <1>1 DEF SameEnds, Live
<1>. QED  BY <1>1, <1>2, EndsKept DEF TableInv

LEMMA EndsFree ==
  ASSUME TableInv, TableInv', EndsInv, NEW s, NEW victim \in Procs, FreeOutcome(s, victim)
  PROVE  EndsInv'
<1>1. \A q \in Procs : call'[q] # NoCall /\ ~call'[q].lost =>
        /\ call'[q] = call[q] /\ call[q] # NoCall /\ call[q].slot \in Live /\ call[q].slot # s
        /\ pipes'[call[q].slot] = pipes[call[q].slot] /\ call[q].slot \in Live'
  BY DEF FreeOutcome, TableInv, KeepsSlot
<1>2. ASSUME NEW q \in Procs, call'[q] # NoCall, call'[q].op = "retrieve"
      PROVE  ~call'[q].lost
  <2>1. CASE call'[q] = call[q]
    BY <1>2, <2>1 DEF EndsInv, ReaderKeepsPipe
  <2>2. CASE /\ call[q] # NoCall /\ call[q].slot = s /\ q # victim /\ call'[q].lost
             /\ call[q] \in TransmitCalls => call'[q] \in TransmitCalls
    <3>1. call[q] \notin TransmitCalls
      BY <1>2, <2>2, CallLemma
    <3>2. call[q].op = "retrieve"
      BY <2>2, <3>1, CallLemma DEF TableInv, TypeInv
    <3>3. pipes[s].outputPid = q
      BY <2>2, <3>2 DEF EndsInv, ReaderKeepsPipe
    <3>. QED  BY <2>2, <3>3 DEF FreeOutcome
  <2>. QED  BY <1>2, <2>1, <2>2 DEF FreeOutcome
<1>3. ReaderKeepsPipe'
  BY <1>1, <1>2 DEF EndsInv, ReaderKeepsPipe
<1>4. WriterKeepsPipe'
  BY <1>1 DEF EndsInv, WriterKeepsPipe
<1>. QED  BY <1>3, <1>4 DEF EndsInv

LEMMA EndsGrant ==
  ASSUME TableInv, TableInv', EndsInv, NEW pid \in Procs, NEW s \in Slots,
         NEW mode \in {"read", "write"}, Grant(pid, s, mode), UNCHANGED call
  PROVE  EndsInv'
<1>1. /\ Live' = Live \cup {s}
      /\ \A t \in Slots \ {s} : pipes'[t] = pipes[t]
      /\ pipes'[s].inputPid = IF mode = "write" /\ Opened(s).inputPid = NoPid
                              THEN pid ELSE Opened(s).inputPid
      /\ pipes'[s].outputPid = IF mode = "read" /\ Opened(s).outputPid = NoPid
                               THEN pid ELSE Opened(s).outputPid
  BY GrantStep DEF TableInv
<1>2. s \in Live => Opened(s) = pipes[s]
  BY DEF Opened, Live
<1>3. \A q \in Procs : call[q] # NoCall =>
        /\ call[q].slot \in Slots /\ (~call[q].lost => call[q].slot \in Live)
        /\ call[q].op = "transmit" => call[q].pid \in Procs
  BY CallLemma DEF TableInv, TypeInv, KeepsSlot
<1>. HIDE DEF Opened
<1>4. ReaderKeepsPipe'
  BY <1>1, <1>2, <1>3, NamesAssumption DEF EndsInv, ReaderKeepsPipe
<1>5. WriterKeepsPipe'
  BY <1>1, <1>2, <1>3, NamesAssumption DEF EndsInv, WriterKeepsPipe
<1>. QED  BY <1>4, <1>5 DEF EndsInv

LEMMA EndsSame ==
  ASSUME TableInv, TableInv', EndsInv, UNCHANGED pipes,
         \A q \in Procs : call'[q] \in {call[q], NoCall}
  PROVE  EndsInv'
<1>1. Live' = Live
  BY DEF Live
<1>. QED  BY <1>1 DEF EndsInv, ReaderKeepsPipe, WriterKeepsPipe

LEMMA EndsKill ==
  ASSUME TableInv, TableInv', EndsInv, NEW p \in Procs, NEW victim \in Procs,
         KillProcess(p, victim)
  PROVE  EndsInv'
<1>1. KillOutcome(p, victim)
  BY KillChanges DEF TableInv
<1>2. CASE FreeOutcome(fds[victim], victim)
  BY <1>2, EndsFree
<1>3. ASSUME NEW s \in Live, NEW c \in TransmitCalls, c.slot = s, c.pid = victim,
             pipes[s].inputPid = victim, TransmitOutcome(p, c)
      PROVE  EndsInv'
  BY <1>3, EndsTransmit
<1>4. CASE /\ UNCHANGED pipes
           /\ \A q \in Procs : call'[q] = IF q = p \/ q = victim THEN NoCall ELSE call[q]
  BY <1>4, EndsSame
<1>. QED  BY <1>1, <1>2, <1>3, <1>4 DEF KillOutcome

LEMMA EndsInit == Init => EndsInv
BY DEF Init, EndsInv, ReaderKeepsPipe, WriterKeepsPipe

LEMMA EndsStep == TableInv /\ TableInv' /\ EndsInv /\ [Next]_vars => EndsInv'
<1>. SUFFICES ASSUME TableInv, TableInv', EndsInv, [Next]_vars PROVE EndsInv'
  OBVIOUS
<1>1. CASE UNCHANGED vars
  BY <1>1, EndsSame DEF vars, procVars
<1>2. CASE GetPipe(Shell)
  <2>1. CASE qtyPipes >= MAX_PIPES
    BY <1>2, <2>1, EndsSame DEF GetPipe, procVars
  <2>2. CASE ~(qtyPipes >= MAX_PIPES)
    <3>. DEFINE n == NextFreePipe
    <3>1. n \in Slots \ Live
      BY <1>2, <2>2, NextFreePipeLemma DEF TableInv, GetPipe
    <3>2. pipes' = [pipes EXCEPT ![n] = NewPipe] /\ UNCHANGED procVars
      BY <1>2, <2>2 DEF GetPipe
    <3>. HIDE DEF n
    <3>3. /\ \A t \in Live : pipes'[t] = pipes[t]
          /\ \A t \in Live : t \in Live'
      BY <3>1, <3>2, NamesAssumption DEF TableInv, TypeInv, Live
    <3>. QED  BY <3>2, <3>3 DEF EndsInv, ReaderKeepsPipe, WriterKeepsPipe, TableInv, KeepsSlot, procVars
  <2>. QED  BY <2>1, <2>2
<1>3. ASSUME NEW child \in Procs \ {Shell}, Spawn(Shell, child) PROVE EndsInv'
  <2>. DEFINE s == handle[1]
              mode == IF handle[2] = "left" THEN "write" ELSE "read"
  <2>1. s \in Slots /\ mode \in {"read", "write"}
    BY <1>3 DEF Spawn, TableInv, TypeInv
  <2>2. Grant(child, s, mode) /\ UNCHANGED call
    BY <1>3 DEF Spawn
  <2>. HIDE DEF s, mode
  <2>. QED  BY <2>1, <2>2, EndsGrant
<1>4. ASSUME NEW p \in Procs, NEW s \in Slots, NEW bytes \in Messages, Write(p, s, bytes)
      PROVE  EndsInv'
  <2>. DEFINE c == TransmitCall(p, s, bytes, NoPid)
  <2>1. c \in TransmitCalls /\ c.slot = s /\ c.pid = p
    BY WriteCallLemma DEF TransmitCall
  <2>2. s \in Live /\ StartTransmit(p, c) /\ pipes[s].inputPid = p
    BY <1>4 DEF Write
  <2>. HIDE DEF c
  <2>. QED  BY <2>1, <2>2, StartTransmitChanges, EndsTransmit DEF TableInv
<1>5. ASSUME NEW p \in Procs, NEW s \in Slots, NEW len \in Lens, Read(p, s, len)
      PROVE  EndsInv'
  <2>1. s \in Live /\ len \in Nat \ {0} /\ pipes[s].outputPid = p
    BY <1>5, NamesAssumption DEF Read
  <2>2. CASE Empty(pipes[s])
    <3>1. /\ pipes' = [pipes EXCEPT ![s].isBlocking = TRUE]
          /\ call' = [call EXCEPT ![p] = ReadCall(s, len)]
      BY <1>5, <2>2 DEF Read, ReadCall
    <3>2. /\ call'[p] \in RetrieveCalls /\ call'[p].slot = s /\ ~call'[p].lost
          /\ \A q \in Procs \ {p} : call'[q] = call[q]
      BY <2>1, <3>1, ReadWaitStep DEF TableInv
    <3>3. SameEnds
      BY <2>1, <3>1, MarkedLemma DEF SameEnds, TableInv, Live
    <3>. QED  BY <2>1, <3>2, <3>3, EndsKept DEF TableInv
  <2>3. CASE ~Empty(pipes[s])
    BY <1>5, <2>1, <2>3, EndsRetrieve DEF Read
  <2>. QED  BY <2>2, <2>3
<1>6. ASSUME NEW p \in Procs, ResumeTransmit(p) PROVE EndsInv'
  <2>. DEFINE c == call[p]
  <2>1. c \in TransmitCalls /\ (~c.lost => pipes[c.slot].inputPid = c.pid)
    BY <1>6, MyCallLemma DEF ResumeTransmit, TableInv, EndsInv, WriterKeepsPipe
  <2>2. CASE c.slot \in Live /\ Transmit(p, c)
    <3>1. TransmitOutcome(p, c)
      BY <2>1, <2>2, TransmitChanges DEF TableInv
    <3>. QED  BY <2>1, <2>2, <3>1, EndsTransmit
  <2>3. CASE Finish(p, c.victim, status) /\ UNCHANGED pipes
    BY <2>3, EndsSame DEF Finish, Without
  <2>. QED  BY <1>6, <2>2, <2>3 DEF ResumeTransmit
<1>7. ASSUME NEW p \in Procs, ResumeRetrieve(p) PROVE EndsInv'
  <2>. DEFINE c == call[p]
  <2>1. /\ c \in RetrieveCalls /\ ~c.lost /\ c.slot \in Live /\ pipes[c.slot].outputPid = p
    BY <1>7, MyCallLemma DEF ResumeRetrieve, TableInv, EndsInv, ReaderKeepsPipe
  <2>2. Retrieve(p, c.slot, c.len)
    BY <1>7, <2>1 DEF ResumeRetrieve
  <2>. QED  BY <2>1, <2>2, CallLemma, EndsRetrieve
<1>8. ASSUME NEW p \in Procs, Exit(p) PROVE EndsInv'
  BY <1>8, EndsKill DEF Exit
<1>9. ASSUME NEW p \in Procs, NEW v \in Procs, Kill(p, v) PROVE EndsInv'
  BY <1>9, EndsKill DEF Kill
<1>10. ASSUME NEW p \in Procs, NEW s \in Slots, Close(p, s) PROVE EndsInv'
  <2>1. CASE /\ Holds(p, s, "inputPid")
             /\ StartTransmit(p, TransmitCall(p, s, <<Eof>>, NoPid))
    <3>. DEFINE c == TransmitCall(p, s, <<Eof>>, NoPid)
    <3>1. c \in TransmitCalls /\ c.slot = s /\ c.pid = p /\ s \in Live
      BY <2>1, EofCallLemma DEF Holds, TransmitCall
    <3>2. StartTransmit(p, c) /\ pipes[s].inputPid = p
      BY <2>1 DEF Holds
    <3>. HIDE DEF c
    <3>. QED  BY <3>1, <3>2, StartTransmitChanges, EndsTransmit DEF TableInv
  <2>2. CASE /\ Reads(p, s) /\ FreePipe(s) /\ call' = Losing(call, s)
    <3>1. call[p] = NoCall
      BY <1>10 DEF Close, InUser
    <3>2. s \in Live /\ pipes[s].outputPid = p
      BY <2>2 DEF Reads, Holds
    <3>3. Live' = Live \ {s} /\ \A t \in Slots \ {s} : pipes'[t] = pipes[t]
      BY <2>2, <3>2, FreeStep DEF TableInv
    <3>4. /\ \A q \in Procs : IF call[q] # NoCall /\ call[q].slot = s
                              THEN call'[q] # NoCall /\ call'[q].lost
                              ELSE call'[q] = call[q]
          /\ \A q \in Procs : call[q] \in TransmitCalls =>
               /\ call'[q] \in TransmitCalls
               /\ call'[q].pid = call[q].pid /\ call'[q].victim = call[q].victim
      BY <2>2, LosingLemma DEF TableInv, TypeInv
    <3>5. FreeOutcome(s, p)
      BY <3>1, <3>2, <3>3, <3>4 DEF FreeOutcome, Live
    <3>. QED  BY <3>5, EndsFree
  <2>. QED  BY <1>10, <2>1, <2>2 DEF Close
<1>11. ASSUME NEW p \in Procs, NEW s \in Slots, NEW mode \in {"read", "write"},
              Open(p, s, mode)
       PROVE  EndsInv'
  BY <1>11, EndsGrant DEF Open, procVars
<1>12. ASSUME NEW v \in Procs, Unblock(v) PROVE EndsInv'
  BY <1>12, EndsSame DEF Unblock
<1>. QED
  BY <1>1, <1>2, <1>3, <1>4, <1>5, <1>6, <1>7, <1>8, <1>9, <1>10, <1>11, <1>12
     DEF Next, Step

(* The reader that yields inside the kernel does not look at the table     *)
(* again (pipeManager.c 190): the pipe it goes on with is still the one it *)
(* read from, and its own, whatever is opened, closed and killed meanwhile.*)
THEOREM ReaderKeepsPipeHolds == Spec => []ReaderKeepsPipe
<1>1. Init => TableInv /\ EndsInv
  BY TableInit, EndsInit
<1>2. (TableInv /\ EndsInv) /\ [Next]_vars => (TableInv /\ EndsInv)'
  BY TableStep, EndsStep
<1>3. TableInv /\ EndsInv => ReaderKeepsPipe
  BY DEF EndsInv
<1>. QED  BY <1>1, <1>2, <1>3, PTL DEF Spec

-----------------------------------------------------------------------------
(* From here on only the shell opens pipes: one pipeline at a time, whose  *)
(* right command stays at the reading end until it dies and the pipe is    *)
(* freed with it.  Whoever is blocked then waits at an end of the only     *)
(* pipe, which is marked, and full for the writer or empty for the reader. *)
ShellOnly == Calls \subseteq {"kill", "early", "unblock"}

EndsAre ==
  /\ \A s \in Live : /\ pipes[s].inputPid \in Writers \cup {NoPid}
                     /\ pipes[s].outputPid \in Readers \cup {NoPid}
  /\ \A p \in Procs : call[p] \in TransmitCalls =>
       call[p].pid \in Writers /\ call[p].victim \in Writers \cup {NoPid}
OnePipeline ==
  /\ \A s, t \in Live : s = t
  /\ handle # <<>> => /\ handle[1] \in Live /\ pipes[handle[1]].outputPid = NoPid
                      /\ handle[2] = "left" => pipes[handle[1]].inputPid = NoPid
  /\ handle = <<>> => \A s \in Live : /\ pipes[s].outputPid \in Readers
                                      /\ status[pipes[s].outputPid] # "none"
                                      /\ fds[pipes[s].outputPid] = s
BlockedInv ==
  \A p \in Procs : status[p] = "blocked" => \A s \in Live :
    /\ pipes[s].isBlocking
    /\ \/ p = pipes[s].inputPid /\ Full(pipes[s])
       \/ /\ p = pipes[s].outputPid /\ Empty(pipes[s])
          /\ call[p] \in RetrieveCalls
PipelineInv == EndsAre /\ OnePipeline /\ BlockedInv

LEMMA PipelineInit == Init => PipelineInv
<1>. SUFFICES ASSUME Init PROVE PipelineInv
  OBVIOUS
<1>1. Live = {}
  BY DEF Init, Live
<1>. QED  BY <1>1, CallLemma DEF Init, PipelineInv, EndsAre, OnePipeline, BlockedInv

LEMMA PipelineTransmit ==
  ASSUME TableInv, TableInv', PipelineInv, NEW p \in Procs, NEW c \in TransmitCalls,
         c.slot \in Live, pipes[c.slot].inputPid = c.pid,
         c.victim \in Writers \cup {NoPid}, TransmitOutcome(p, c),
         UNCHANGED handle,
         \A q \in Procs \ Writers : fds'[q] = fds[q]
  PROVE  PipelineInv'
<1>1. c.slot \in Slots /\ c.pid \in Writers /\ c.pid \in Procs
  BY CallLemma, NamesAssumption DEF PipelineInv, EndsAre
<1>2. \A s \in Live : s = c.slot
  BY DEF PipelineInv, OnePipeline
<1>3. /\ Live' = Live
      /\ pipes'[c.slot].inputPid = pipes[c.slot].inputPid
      /\ pipes'[c.slot].outputPid = pipes[c.slot].outputPid
  BY DEF TransmitOutcome, SameEnds
<1>4. /\ \A q \in Procs \ {p} : call'[q] \in {call[q], NoCall}
      /\ call'[p] = NoCall \/ GoesOn(c, call'[p])
  BY DEF TransmitOutcome
<1>5. EndsAre'
  BY <1>1, <1>2, <1>3, <1>4, CallLemma DEF GoesOn, EndsAre, PipelineInv
<1>6. OnePipeline'
  <2>1. \A q \in Readers : /\ status[q] # "none" => status'[q] # "none"
                           /\ fds'[q] = fds[q]
    <3>1. \A q \in Readers : q \in Procs \ {c.victim} /\ q \in Procs \ Writers
      BY NamesAssumption DEF Procs
    <3>. QED  BY <3>1 DEF TransmitOutcome
  <2>. QED  BY <1>2, <1>3, <2>1 DEF OnePipeline, PipelineInv
<1>7. BlockedInv'
  <2>. SUFFICES ASSUME NEW q \in Procs, status'[q] = "blocked"
                PROVE  /\ pipes'[c.slot].isBlocking
                       /\ \/ q = pipes'[c.slot].inputPid /\ Full(pipes'[c.slot])
                          \/ /\ q = pipes'[c.slot].outputPid /\ Empty(pipes'[c.slot])
                             /\ call'[q] \in RetrieveCalls
    BY <1>2, <1>3 DEF BlockedInv
  <2>1. ~(Full(pipes[c.slot]) /\ Empty(pipes[c.slot]))
    BY <1>1, LiveLemma, SizeAssumption DEF Full, Empty, TableInv, PipeRecord
  <2>2. status[q] = "blocked" =>
          /\ pipes[c.slot].isBlocking
          /\ \/ q = pipes[c.slot].inputPid /\ Full(pipes[c.slot])
             \/ q = pipes[c.slot].outputPid /\ Empty(pipes[c.slot])
    BY DEF PipelineInv, BlockedInv
  <2>3. CASE /\ Full(pipes'[c.slot]) /\ pipes'[c.slot].isBlocking
             /\ \A r \in Procs \ {c.pid} : status'[r] = "blocked" =>
                  /\ status[r] = "blocked"
                  /\ \/ Full(pipes[c.slot]) \/ ~pipes[c.slot].isBlocking
                     \/ r # pipes[c.slot].outputPid
    BY <1>3, <2>1, <2>2, <2>3
  <2>4. CASE /\ ~Full(pipes[c.slot])
             /\ \A r \in Procs : status'[r] = "blocked" =>
                  /\ status[r] = "blocked"
                  /\ ~pipes[c.slot].isBlocking \/ r # pipes[c.slot].outputPid
    BY <2>2, <2>4
  <2>. QED  BY <2>3, <2>4 DEF TransmitOutcome
<1>. QED  BY <1>5, <1>6, <1>7 DEF PipelineInv

LEMMA PipelineRetrieve ==
  ASSUME TableInv, TableInv', PipelineInv, NEW p \in Procs, NEW s \in Live,
         NEW len \in Nat \ {0}, pipes[s].outputPid = p, status[p] = "ready",
         Retrieve(p, s, len), UNCHANGED <<fds, handle>>
  PROVE  PipelineInv'
<1>. DEFINE st == IF pipes[s].isBlocking THEN Woken(status, pipes[s].inputPid) ELSE status
<1>1. /\ Live' = Live
      /\ pipes'[s].inputPid = pipes[s].inputPid
      /\ pipes'[s].outputPid = pipes[s].outputPid
      /\ pipes'[s].isBlocking \in BOOLEAN
      /\ pipes'[s].isBlocking => Empty(pipes'[s]) /\ call'[p] \in RetrieveCalls
      /\ status' = IF pipes'[s].isBlocking THEN [st EXCEPT ![p] = "blocked"] ELSE st
      /\ ~pipes'[s].isBlocking => call'[p] = NoCall
      /\ \A q \in Procs \ {p} : call'[q] = call[q]
  BY RetrieveStep DEF TableInv
<1>2. \A t \in Live : t = s
  BY DEF PipelineInv, OnePipeline
<1>3. st \in [Procs -> {"none", "ready", "blocked"}]
      /\ \A q \in Procs : /\ st[q] = "none" <=> status[q] = "none"
                          /\ st[q] = "blocked" => /\ status[q] = "blocked"
                                                  /\ ~pipes[s].isBlocking \/ q # pipes[s].inputPid
  BY DEF Woken, TableInv, TypeInv
<1>. HIDE DEF st
<1>4. EndsAre'
  BY <1>1, <1>2, CallLemma DEF EndsAre, PipelineInv
<1>5. \A q \in Procs : status[q] # "none" => status'[q] # "none"
  BY <1>1, <1>3
<1>6. OnePipeline'
  <2>1. Readers \subseteq Procs
    BY DEF Procs
  <2>. QED  BY <1>1, <1>2, <1>5, <2>1 DEF OnePipeline, PipelineInv
<1>7. BlockedInv'
  <2>1. ASSUME NEW q \in Procs, st[q] = "blocked" PROVE FALSE
    <3>1. /\ status[q] = "blocked" /\ pipes[s].isBlocking /\ q # p
          /\ q = pipes[s].inputPid \/ q = pipes[s].outputPid
      BY <2>1, <1>3 DEF PipelineInv, BlockedInv
    <3>. QED  BY <2>1, <3>1, <1>3
  <2>. QED  BY <1>1, <1>2, <1>3, <2>1 DEF BlockedInv
<1>. QED  BY <1>4, <1>6, <1>7 DEF PipelineInv

LEMMA PipelineKill ==
  ASSUME TableInv, TableInv', EndsInv, PipelineInv, NEW p \in Procs,
         NEW victim \in Procs, status[p] = "ready", KillProcess(p, victim)
  PROVE  PipelineInv'
<1>1. KillOutcome(p, victim)
  BY KillChanges DEF TableInv
<1>2. UNCHANGED handle /\ UNCHANGED fds
  BY DEF KillProcess
<1>3. CASE FreeOutcome(fds[victim], victim)
  <2>. DEFINE s == fds[victim]
  <2>1. s \in Live /\ Live' = {}
    BY <1>3 DEF FreeOutcome, PipelineInv, OnePipeline
  <2>2. handle = <<>>
    BY <1>3, <2>1, NamesAssumption DEF FreeOutcome, PipelineInv, OnePipeline
  <2>3. ASSUME NEW q \in Procs, call'[q] \in TransmitCalls
        PROVE  /\ call[q] \in TransmitCalls
               /\ call'[q].pid = call[q].pid /\ call'[q].victim = call[q].victim
    <3>1. CASE call'[q] = call[q]
      BY <2>3, <3>1
    <3>2. CASE /\ call[q] # NoCall /\ call[q].slot = s /\ q # victim
               /\ call[q] \in TransmitCalls =>
                    /\ call'[q] \in TransmitCalls
                    /\ call'[q].pid = call[q].pid /\ call'[q].victim = call[q].victim
      <4>1. ~(call[q] # NoCall /\ call[q].op = "retrieve")
        BY <1>3, <3>2 DEF EndsInv, ReaderKeepsPipe, FreeOutcome
      <4>2. call[q] \in TransmitCalls
        BY <3>2, <4>1, CallLemma DEF TableInv, TypeInv
      <4>. QED  BY <3>2, <4>2
    <3>3. call'[q] # NoCall
      BY <2>3, CallLemma
    <3>. QED  BY <1>3, <3>1, <3>2, <3>3 DEF FreeOutcome
  <2>4. EndsAre'
    BY <2>1, <2>3 DEF EndsAre, PipelineInv
  <2>. HIDE DEF s
  <2>5. OnePipeline' /\ BlockedInv'
    BY <1>2, <2>1, <2>2 DEF OnePipeline, BlockedInv
  <2>. QED  BY <2>4, <2>5 DEF PipelineInv
<1>4. ASSUME NEW s \in Live, NEW c \in TransmitCalls, c.slot = s, c.pid = victim,
             c.victim = victim, pipes[s].inputPid = victim, TransmitOutcome(p, c)
      PROVE  PipelineInv'
  <2>1. victim \in Writers
    BY <1>4, NamesAssumption DEF PipelineInv, EndsAre
  <2>. QED  BY <1>2, <1>4, <2>1, PipelineTransmit
<1>5. CASE /\ ~Reads(victim, fds[victim])
           /\ status' = [status EXCEPT ![victim] = "none"]
           /\ \A q \in Procs : call'[q] = IF q = p \/ q = victim THEN NoCall ELSE call[q]
           /\ UNCHANGED pipes /\ Live' = Live
  <2>1. EndsAre'
    BY <1>5, CallLemma DEF EndsAre, PipelineInv
  <2>2. \A q \in Procs \ {victim} : status'[q] = status[q]
    BY <1>5 DEF TableInv, TypeInv
  <2>3. status'[victim] = "none"
    BY <1>5 DEF TableInv, TypeInv
  <2>4. OnePipeline'
    <3>1. Readers \subseteq Procs
      BY DEF Procs
    <3>2. handle = <<>> => \A s \in Live : pipes[s].outputPid # victim
      BY <1>5, <3>1, NamesAssumption DEF PipelineInv, OnePipeline, EndsAre, Reads, Holds
    <3>. QED  BY <1>2, <1>5, <2>2, <3>1, <3>2 DEF OnePipeline, PipelineInv
  <2>5. BlockedInv'
    BY <1>5, <2>2, <2>3 DEF BlockedInv, PipelineInv, Empty, Full, EofStored
  <2>. QED  BY <2>1, <2>4, <2>5 DEF PipelineInv
<1>. QED  BY <1>1, <1>3, <1>4, <1>5 DEF KillOutcome

LEMMA PipelineStep ==
  ASSUME ShellOnly
  PROVE  TableInv /\ TableInv' /\ EndsInv /\ PipelineInv /\ [Next]_vars => PipelineInv'
<1>. SUFFICES ASSUME TableInv, TableInv', EndsInv, PipelineInv, [Next]_vars
              PROVE  PipelineInv'
  OBVIOUS
<1>. DEFINE Frame == UNCHANGED <<pipes, fds, handle, call>>
<1>0. ASSUME Frame, \A q \in Procs : status'[q] # status[q] => status[q] = "blocked"
                                                          /\ status'[q] = "ready"
      PROVE  PipelineInv'
  <2>1. Live' = Live
    BY <1>0 DEF Live
  <2>2. EndsAre'
    BY <1>0, <2>1 DEF PipelineInv, EndsAre
  <2>3. OnePipeline'
    <3>1. Readers \subseteq Procs
      BY DEF Procs
    <3>. QED  BY <1>0, <2>1, <3>1 DEF PipelineInv, OnePipeline
  <2>4. BlockedInv'
    BY <1>0, <2>1 DEF PipelineInv, BlockedInv, Full, Empty, EofStored
  <2>. QED  BY <2>2, <2>3, <2>4 DEF PipelineInv
<1>1. CASE UNCHANGED vars
  BY <1>0, <1>1 DEF vars, procVars, tableVars
<1>2. CASE GetPipe(Shell)
  <2>1. CASE qtyPipes >= MAX_PIPES
    BY <1>0, <1>2, <2>1 DEF GetPipe, procVars, tableVars
  <2>2. CASE ~(qtyPipes >= MAX_PIPES)
    <3>. DEFINE n == NextFreePipe
    <3>1. n \in Slots \ Live
      BY <1>2, <2>2, NextFreePipeLemma DEF TableInv, GetPipe
    <3>2. /\ pipes' = [pipes EXCEPT ![n] = NewPipe] /\ handle' = <<n, "left">>
          /\ UNCHANGED procVars
          /\ handle = <<>> /\ status[Shell] = "ready"
          /\ \A q \in Procs \ {Shell} : status[q] = "none"
      BY <1>2, <2>2 DEF GetPipe, InUser
    <3>. HIDE DEF n
    <3>3. Live = {}
      BY <3>2, NamesAssumption DEF PipelineInv, OnePipeline, Procs
    <3>4. pipes'[n] = NewPipe /\ Live' = {n}
      BY <3>1, <3>2, <3>3, NewPipeLemma, NamesAssumption DEF TableInv, TypeInv, Live
    <3>5. EndsAre'
      BY <3>2, <3>4 DEF PipelineInv, EndsAre, NewPipe, procVars
    <3>6. OnePipeline'
      BY <3>2, <3>4 DEF OnePipeline, NewPipe
    <3>7. BlockedInv'
      BY <3>2 DEF BlockedInv, procVars
    <3>. QED  BY <3>5, <3>6, <3>7 DEF PipelineInv
  <2>. QED  BY <2>1, <2>2
<1>3. ASSUME NEW child \in Procs \ {Shell}, Spawn(Shell, child) PROVE PipelineInv'
  <2>. DEFINE s == handle[1]
              left == handle[2] = "left"
              mode == IF left THEN "write" ELSE "read"
  <2>1. /\ s \in Slots /\ mode \in {"read", "write"} /\ handle # <<>>
        /\ child \in (IF left THEN Writers ELSE Readers) /\ status[child] = "none"
        /\ status' = [status EXCEPT ![child] = "ready"]
        /\ fds' = [fds EXCEPT ![child] = s]
        /\ Grant(child, s, mode)
        /\ handle' = IF left THEN <<s, "right">> ELSE <<>>
        /\ UNCHANGED call
    BY <1>3 DEF Spawn, TableInv, TypeInv
  <2>2. s \in Live /\ pipes[s].outputPid = NoPid /\ (left => pipes[s].inputPid = NoPid)
    BY <2>1 DEF PipelineInv, OnePipeline
  <2>3. Opened(s) = pipes[s]
    BY <2>2 DEF Opened, Live
  <2>. HIDE DEF s
  <2>4. /\ Live' = Live
        /\ pipes'[s].inputPid = IF mode = "write" /\ pipes[s].inputPid = NoPid
                                THEN child ELSE pipes[s].inputPid
        /\ pipes'[s].outputPid = IF mode = "read" /\ pipes[s].outputPid = NoPid
                                 THEN child ELSE pipes[s].outputPid
        /\ pipes'[s].startPosition = pipes[s].startPosition
        /\ pipes'[s].currentSize = pipes[s].currentSize
        /\ pipes'[s].buffer = pipes[s].buffer
        /\ pipes'[s].isBlocking = pipes[s].isBlocking
    <3>. HIDE DEF mode
    <3>1. mode \in {"read", "write"} /\ Grant(child, s, mode) /\ s \in Slots
      BY <2>1
    <3>2. Live' = Live \cup {s}
      BY <3>1, GrantStep DEF TableInv
    <3>3. /\ pipes'[s].inputPid = IF mode = "write" /\ Opened(s).inputPid = NoPid
                                  THEN child ELSE Opened(s).inputPid
          /\ pipes'[s].outputPid = IF mode = "read" /\ Opened(s).outputPid = NoPid
                                   THEN child ELSE Opened(s).outputPid
          /\ pipes'[s].startPosition = Opened(s).startPosition
          /\ pipes'[s].currentSize = Opened(s).currentSize
          /\ pipes'[s].buffer = Opened(s).buffer
          /\ pipes'[s].isBlocking = Opened(s).isBlocking
      BY <3>1, GrantStep DEF TableInv
    <3>. QED  BY <2>2, <2>3, <3>2, <3>3
  <2>5. \A t \in Live : t = s
    BY <2>2 DEF PipelineInv, OnePipeline
  <2>6. EndsAre'
    BY <2>1, <2>2, <2>4, <2>5 DEF PipelineInv, EndsAre
  <2>7. OnePipeline'
    <3>1. CASE left
      <4>1. handle' = <<s, "right">> /\ pipes'[s].outputPid = NoPid
        BY <2>1, <2>2, <2>4, <3>1
      <4>. QED  BY <2>2, <2>4, <2>5, <4>1 DEF OnePipeline
    <3>2. CASE ~left
      <4>1. /\ handle' = <<>> /\ pipes'[s].outputPid = child /\ child \in Readers
            /\ fds'[child] = s /\ status'[child] = "ready"
        BY <2>1, <2>2, <2>4, <3>2 DEF TableInv, TypeInv
      <4>. QED  BY <2>2, <2>4, <2>5, <4>1 DEF OnePipeline
    <3>. QED  BY <3>1, <3>2
  <2>8. BlockedInv'
    <3>1. ASSUME NEW q \in Procs, status'[q] = "blocked"
          PROVE  status[q] = "blocked"
      BY <2>1, <3>1 DEF TableInv, TypeInv
    <3>2. Full(pipes'[s]) <=> Full(pipes[s])
      BY <2>4 DEF Full
    <3>3. Empty(pipes'[s]) <=> Empty(pipes[s])
      BY <2>4 DEF Empty, EofStored, BufferPosition
    <3>. QED  BY <2>1, <2>2, <2>4, <2>5, <3>1, <3>2, <3>3, NamesAssumption
              DEF PipelineInv, BlockedInv
  <2>. QED  BY <2>6, <2>7, <2>8 DEF PipelineInv
<1>4. ASSUME NEW p \in Procs, NEW s \in Slots, NEW bytes \in Messages, Write(p, s, bytes)
      PROVE  PipelineInv'
  <2>. DEFINE c == TransmitCall(p, s, bytes, NoPid)
  <2>1. c \in TransmitCalls /\ c.slot = s /\ c.pid = p /\ c.victim = NoPid
    BY WriteCallLemma DEF TransmitCall
  <2>2. /\ s \in Live /\ StartTransmit(p, c) /\ pipes[s].inputPid = p
        /\ UNCHANGED <<fds, handle>>
    BY <1>4 DEF Write, tableVars
  <2>. HIDE DEF c
  <2>. QED  BY <2>1, <2>2, StartTransmitChanges, PipelineTransmit DEF TableInv
<1>5. ASSUME NEW p \in Procs, NEW s \in Slots, NEW len \in Lens, Read(p, s, len)
      PROVE  PipelineInv'
  <2>1. /\ s \in Live /\ len \in Nat \ {0} /\ pipes[s].outputPid = p
        /\ status[p] = "ready" /\ UNCHANGED <<fds, handle>>
    BY <1>5, NamesAssumption DEF Read, InUser, tableVars
  <2>2. CASE Empty(pipes[s])
    <3>1. /\ pipes' = [pipes EXCEPT ![s].isBlocking = TRUE]
          /\ call' = [call EXCEPT ![p] = ReadCall(s, len)]
          /\ status' = [status EXCEPT ![p] = "blocked"]
      BY <1>5, <2>2 DEF Read, ReadCall
    <3>2. /\ call'[p] \in RetrieveCalls
          /\ \A q \in Procs \ {p} : call'[q] = call[q]
      BY <2>1, <3>1, ReadWaitStep DEF TableInv
    <3>3. /\ Live' = Live /\ pipes'[s].isBlocking
          /\ pipes'[s].inputPid = pipes[s].inputPid
          /\ pipes'[s].outputPid = pipes[s].outputPid
          /\ pipes'[s].startPosition = pipes[s].startPosition
          /\ pipes'[s].currentSize = pipes[s].currentSize
          /\ pipes'[s].buffer = pipes[s].buffer
      BY <2>1, <3>1, MarkedLemma DEF TableInv
    <3>4. \A t \in Live : t = s
      BY <2>1 DEF PipelineInv, OnePipeline
    <3>5. Empty(pipes'[s]) /\ ~Full(pipes[s])
      BY <2>1, <2>2, <3>3, LiveLemma, SizeAssumption
         DEF Empty, EofStored, BufferPosition, Full
    <3>6. EndsAre'
      BY <3>2, <3>3, <3>4, CallLemma DEF EndsAre, PipelineInv
    <3>7. /\ status'[p] = "blocked" /\ \A q \in Procs \ {p} : status'[q] = status[q]
      BY <3>1 DEF TableInv, TypeInv
    <3>8. OnePipeline'
      <4>1. Readers \subseteq Procs
        BY DEF Procs
      <4>. QED  BY <2>1, <3>3, <3>4, <3>7, <4>1 DEF OnePipeline, PipelineInv
    <3>9. BlockedInv'
      <4>1. ASSUME NEW q \in Procs \ {p}, status[q] = "blocked" PROVE FALSE
        BY <2>1, <3>5, <4>1 DEF PipelineInv, BlockedInv
      <4>. QED  BY <2>1, <3>2, <3>3, <3>4, <3>5, <3>7, <4>1 DEF BlockedInv
    <3>. QED  BY <3>6, <3>8, <3>9 DEF PipelineInv
  <2>3. CASE ~Empty(pipes[s])
    BY <1>5, <2>1, <2>3, PipelineRetrieve DEF Read
  <2>. QED  BY <2>2, <2>3
<1>6. ASSUME NEW p \in Procs, ResumeTransmit(p) PROVE PipelineInv'
  <2>. DEFINE c == call[p]
  <2>1. /\ c \in TransmitCalls /\ (~c.lost => pipes[c.slot].inputPid = c.pid)
        /\ c.victim \in Writers \cup {NoPid} /\ status[p] = "ready"
        /\ UNCHANGED <<fds, handle>>
    BY <1>6, MyCallLemma
       DEF ResumeTransmit, TableInv, EndsInv, WriterKeepsPipe, PipelineInv, EndsAre, tableVars
  <2>2. CASE c.slot \in Live /\ ~c.lost /\ Transmit(p, c)
    <3>1. TransmitOutcome(p, c)
      BY <2>1, <2>2, TransmitChanges DEF TableInv
    <3>. QED  BY <2>1, <2>2, <3>1, PipelineTransmit
  <2>3. CASE Finish(p, c.victim, status) /\ UNCHANGED pipes
    <3>1. /\ status' = IF c.victim = NoPid THEN status ELSE [status EXCEPT ![c.victim] = "none"]
          /\ \A q \in Procs : /\ call'[q] \in {call[q], NoCall}
                              /\ q # p /\ q # c.victim => call'[q] = call[q]
          /\ Live' = Live
      BY <2>3 DEF Finish, Without, Live
    <3>2. \A q \in Procs : /\ status'[q] \in {status[q], "none"}
                           /\ q # c.victim => status'[q] = status[q]
                           /\ q = c.victim => status'[q] = "none"
      BY <3>1, NamesAssumption DEF TableInv, TypeInv
    <3>3. EndsAre'
      BY <2>3, <3>1, CallLemma DEF EndsAre, PipelineInv
    <3>4. OnePipeline'
      <4>1. Readers \subseteq Procs /\ \A q \in Readers : q # c.victim
        BY <2>1, NamesAssumption DEF Procs
      <4>. QED  BY <2>1, <2>3, <3>1, <3>2, <4>1 DEF OnePipeline, PipelineInv
    <3>5. BlockedInv'
      BY <2>1, <2>3, <3>1, <3>2 DEF BlockedInv, PipelineInv, Full, Empty, EofStored
    <3>. QED  BY <3>3, <3>4, <3>5 DEF PipelineInv
  <2>. QED  BY <1>6, <2>2, <2>3 DEF ResumeTransmit, ShellOnly
<1>7. ASSUME NEW p \in Procs, ResumeRetrieve(p) PROVE PipelineInv'
  <2>. DEFINE c == call[p]
  <2>1. /\ c \in RetrieveCalls /\ ~c.lost /\ c.slot \in Live /\ pipes[c.slot].outputPid = p
        /\ status[p] = "ready" /\ UNCHANGED <<fds, handle>>
    BY <1>7, MyCallLemma DEF ResumeRetrieve, TableInv, EndsInv, ReaderKeepsPipe, tableVars
  <2>2. Retrieve(p, c.slot, c.len)
    BY <1>7, <2>1 DEF ResumeRetrieve
  <2>. QED  BY <2>1, <2>2, CallLemma, PipelineRetrieve
<1>8. ASSUME NEW p \in Procs, Exit(p) PROVE PipelineInv'
  BY <1>8, PipelineKill DEF Exit, InUser
<1>9. ASSUME NEW p \in Procs, NEW v \in Procs, Kill(p, v) PROVE PipelineInv'
  BY <1>9, PipelineKill DEF Kill, InUser
<1>10. ASSUME NEW p \in Procs, NEW s \in Slots, Close(p, s) PROVE PipelineInv'
  BY <1>10 DEF Close, ShellOnly
<1>11. ASSUME NEW p \in Procs, NEW s \in Slots, NEW mode \in {"read", "write"},
              Open(p, s, mode)
       PROVE  PipelineInv'
  BY <1>11 DEF Open, ShellOnly
<1>12. ASSUME NEW v \in Procs, Unblock(v) PROVE PipelineInv'
  BY <1>0, <1>12 DEF Unblock, tableVars, TableInv, TypeInv
<1>. QED
  BY <1>1, <1>2, <1>3, <1>4, <1>5, <1>6, <1>7, <1>8, <1>9, <1>10, <1>11, <1>12
     DEF Next, Step

LEMMA SleepersLemma ==
  TableInv /\ EndsInv /\ PipelineInv => PipeTypeOK /\ SleepersWait /\ ReaderKeepsPipe
<1>. SUFFICES ASSUME TableInv, EndsInv, PipelineInv
              PROVE  PipeTypeOK /\ SleepersWait /\ ReaderKeepsPipe
  OBVIOUS
<1>1. PipeTypeOK
  BY CallLemma DEF TableInv, TypeInv, PipeTypeOK
<1>2. ReaderKeepsPipe
  BY DEF EndsInv
<1>3. ASSUME NEW p \in Procs, call[p] # NoCall, status[p] = "blocked", ~call[p].lost
      PROVE  /\ pipes[call[p].slot].isBlocking
             /\ IF call[p].op = "retrieve" THEN Empty(pipes[call[p].slot])
                                           ELSE Full(pipes[call[p].slot])
  <2>. DEFINE s == call[p].slot
  <2>1. s \in Live
    BY <1>3 DEF TableInv, KeepsSlot
  <2>2. /\ pipes[s].isBlocking
        /\ \/ p = pipes[s].inputPid /\ Full(pipes[s])
           \/ /\ p = pipes[s].outputPid /\ Empty(pipes[s])
              /\ call[p] \in RetrieveCalls
    BY <1>3, <2>1 DEF PipelineInv, BlockedInv
  <2>3. CASE call[p].op = "retrieve"
    <3>1. pipes[s].outputPid = p
      BY <1>3, <2>3 DEF EndsInv, ReaderKeepsPipe
    <3>2. pipes[s].inputPid # p
      BY <2>1, <3>1, NamesAssumption DEF PipelineInv, EndsAre
    <3>. QED  BY <2>2, <2>3, <3>2
  <2>4. CASE call[p].op # "retrieve"
    BY <2>2, <2>4, CallLemma
  <2>. QED  BY <2>3, <2>4
<1>4. SleepersWait
  BY <1>3 DEF SleepersWait
<1>. QED  BY <1>1, <1>2, <1>4

(* No wakeup is lost between the two loops of a pipe, for any number of    *)
(* bytes, slots and processes, when only the shell opens pipes: who sleeps *)
(* in a call on a pipe that still exists has found it empty and without    *)
(* end, or full, it still is, and the mark that makes the other end wake   *)
(* it is set, though commands end early, are killed at any step and        *)
(* unblocked by others.  It says nothing of a writer whose reader has      *)
(* freed the pipe: that one stays BLOCKED (see NobodyStranded).            *)
THEOREM SleepersWaitHolds ==
  ASSUME ShellOnly
  PROVE  Spec => [](PipeTypeOK /\ SleepersWait /\ ReaderKeepsPipe)
<1>1. Init => TableInv /\ EndsInv /\ PipelineInv
  BY TableInit, EndsInit, PipelineInit
<1>2. (TableInv /\ EndsInv /\ PipelineInv) /\ [Next]_vars
        => (TableInv /\ EndsInv /\ PipelineInv)'
  BY TableStep, EndsStep, PipelineStep
<1>. QED  BY <1>1, <1>2, SleepersLemma, PTL DEF Spec

-----------------------------------------------------------------------------
(* A pipeline left alone: every call is its caller's own, and a pipe is    *)
(* marked only while one of its two processes is blocked.                  *)
OwnCalls ==
  \A p \in Procs : call[p] \in TransmitCalls =>
    call[p].pid = p /\ call[p].victim \in {p, NoPid}
MarkedForSomebody ==
  \A s \in Live : pipes[s].isBlocking => \E q \in Procs : status[q] = "blocked"
AloneInv == OwnCalls /\ MarkedForSomebody /\ ~fault

LEMMA AloneInit == Init => AloneInv
<1>. SUFFICES ASSUME Init PROVE AloneInv
  OBVIOUS
<1>1. Live = {}
  BY DEF Init, Live
<1>. QED  BY <1>1, CallLemma DEF Init, AloneInv, OwnCalls, MarkedForSomebody

LEMMA AloneTransmit ==
  ASSUME TableInv, PipelineInv, AloneInv, NEW p \in Procs, status[p] = "ready",
         NEW c \in TransmitCalls, c.pid = p, c.victim \in {p, NoPid},
         c.slot \in Live, pipes[c.slot].inputPid = p,
         Transmit(p, c) \/ StartTransmit(p, c), TransmitOutcome(p, c)
  PROVE  AloneInv'
<1>1. \A t \in Live : t = c.slot
  BY DEF PipelineInv, OnePipeline
<1>2. OwnCalls'
  BY CallLemma DEF TransmitOutcome, GoesOn, AloneInv, OwnCalls
<1>3. MarkedForSomebody'
  BY <1>1 DEF TransmitOutcome, SameEnds, MarkedForSomebody
<1>4. ~BeingKilled(p, p)
  <2>1. \A q \in Procs \ {p} : call[q] # NoCall /\ call[q].op = "transmit"
                                 => call[q] \in TransmitCalls
    BY MyCallLemma DEF TableInv
  <2>. QED  BY <2>1, NamesAssumption DEF BeingKilled, AloneInv, OwnCalls
<1>5. pipes[c.slot].isBlocking => pipes[c.slot].outputPid # NoPid
  <2>1. SUFFICES ASSUME pipes[c.slot].isBlocking PROVE pipes[c.slot].outputPid # NoPid
    OBVIOUS
  <2>2. PICK q \in Procs : status[q] = "blocked"
    BY <2>1 DEF AloneInv, MarkedForSomebody
  <2>3. q \in {pipes[c.slot].inputPid, pipes[c.slot].outputPid}
    BY <2>2 DEF PipelineInv, BlockedInv
  <2>. QED  BY <2>2, <2>3, NamesAssumption
<1>6. ~fault'
  BY <1>4, <1>5 DEF Transmit, StartTransmit, AloneInv
<1>. QED  BY <1>2, <1>3, <1>6 DEF AloneInv

LEMMA AloneRetrieve ==
  ASSUME TableInv, PipelineInv, AloneInv, NEW p \in Procs, status[p] = "ready",
         NEW s \in Live, NEW len \in Nat \ {0}, pipes[s].outputPid = p, Retrieve(p, s, len)
  PROVE  AloneInv'
<1>1. /\ Live' = Live
      /\ pipes'[s].isBlocking \in BOOLEAN
      /\ pipes'[s].isBlocking => call'[p] \in RetrieveCalls
      /\ ~pipes'[s].isBlocking => call'[p] = NoCall
      /\ \A q \in Procs \ {p} : call'[q] = call[q]
  BY RetrieveStep DEF TableInv
<1>2. \A t \in Live : t = s
  BY DEF PipelineInv, OnePipeline
<1>3. OwnCalls'
  BY <1>1, CallLemma DEF AloneInv, OwnCalls
<1>4. MarkedForSomebody'
  <2>. DEFINE st == IF pipes[s].isBlocking THEN Woken(status, pipes[s].inputPid) ELSE status
  <2>1. status' = IF pipes'[s].isBlocking THEN [st EXCEPT ![p] = "blocked"] ELSE st
    BY RetrieveStep DEF TableInv
  <2>2. st \in [Procs -> {"none", "ready", "blocked"}]
    BY WokenLemma DEF TableInv, TypeInv
  <2>. HIDE DEF st
  <2>. QED  BY <1>1, <1>2, <2>1, <2>2 DEF MarkedForSomebody
<1>5. pipes[s].isBlocking => pipes[s].inputPid # NoPid
  <2>1. SUFFICES ASSUME pipes[s].isBlocking PROVE pipes[s].inputPid # NoPid
    OBVIOUS
  <2>2. PICK q \in Procs : status[q] = "blocked"
    BY <2>1 DEF AloneInv, MarkedForSomebody
  <2>3. q \in {pipes[s].inputPid, pipes[s].outputPid}
    BY <2>2 DEF PipelineInv, BlockedInv
  <2>. QED  BY <2>2, <2>3, NamesAssumption
<1>6. ~fault'
  BY <1>5 DEF Retrieve, AloneInv
<1>. QED  BY <1>3, <1>4, <1>6 DEF AloneInv

LEMMA AloneStep ==
  ASSUME Calls = {}
  PROVE  TableInv /\ TableInv' /\ EndsInv /\ PipelineInv /\ AloneInv /\ [Next]_vars => AloneInv'
<1>. SUFFICES ASSUME TableInv, TableInv', EndsInv, PipelineInv, AloneInv, [Next]_vars
              PROVE  AloneInv'
  OBVIOUS
<1>1. CASE UNCHANGED vars
  BY <1>1 DEF vars, procVars, tableVars, AloneInv, OwnCalls, MarkedForSomebody, Live
<1>2. CASE GetPipe(Shell)
  <2>1. CASE qtyPipes >= MAX_PIPES
    BY <1>2, <2>1 DEF GetPipe, procVars, tableVars, AloneInv, OwnCalls, MarkedForSomebody, Live
  <2>2. CASE ~(qtyPipes >= MAX_PIPES)
    <3>. DEFINE n == NextFreePipe
    <3>1. n \in Slots \ Live
      BY <1>2, <2>2, NextFreePipeLemma DEF TableInv, GetPipe
    <3>2. /\ pipes' = [pipes EXCEPT ![n] = NewPipe] /\ UNCHANGED procVars /\ UNCHANGED fault
      BY <1>2, <2>2 DEF GetPipe
    <3>. HIDE DEF n
    <3>3. \A s \in Live' : \/ s = n /\ ~pipes'[s].isBlocking
                           \/ s \in Live /\ pipes'[s] = pipes[s]
      BY <3>1, <3>2 DEF TableInv, TypeInv, Live, NewPipe
    <3>. QED  BY <3>2, <3>3 DEF AloneInv, OwnCalls, MarkedForSomebody, procVars
  <2>. QED  BY <2>1, <2>2
<1>3. ASSUME NEW child \in Procs \ {Shell}, Spawn(Shell, child) PROVE AloneInv'
  <2>. DEFINE s == handle[1]
              mode == IF handle[2] = "left" THEN "write" ELSE "read"
  <2>1. /\ mode \in {"read", "write"} /\ handle # <<>>
        /\ status[child] = "none"
        /\ status' = [status EXCEPT ![child] = "ready"]
        /\ Grant(child, s, mode)
        /\ UNCHANGED <<call, fault>>
    BY <1>3 DEF Spawn
  <2>2. s \in Live /\ s \in Slots
    BY <2>1 DEF PipelineInv, OnePipeline, Live
  <2>3. Opened(s) = pipes[s]
    BY <2>2 DEF Opened, Live
  <2>. HIDE DEF s, mode
  <2>4. /\ Live' = Live \cup {s}
        /\ \A t \in Slots \ {s} : pipes'[t] = pipes[t]
        /\ pipes'[s].isBlocking = Opened(s).isBlocking
    BY <2>1, <2>2, GrantStep DEF TableInv
  <2>5. \A q \in Procs : status[q] = "blocked" => status'[q] = "blocked"
    BY <2>1 DEF TableInv, TypeInv
  <2>. QED  BY <2>1, <2>2, <2>3, <2>4, <2>5 DEF AloneInv, OwnCalls, MarkedForSomebody, Live
<1>4. ASSUME NEW p \in Procs, NEW s \in Slots, NEW bytes \in Messages, Write(p, s, bytes)
      PROVE  AloneInv'
  <2>. DEFINE c == TransmitCall(p, s, bytes, NoPid)
  <2>1. c \in TransmitCalls /\ c.slot = s /\ c.pid = p /\ c.victim = NoPid
    BY WriteCallLemma DEF TransmitCall
  <2>2. /\ s \in Live /\ StartTransmit(p, c) /\ pipes[s].inputPid = p
        /\ status[p] = "ready"
    BY <1>4 DEF Write, InUser
  <2>. HIDE DEF c
  <2>. QED  BY <2>1, <2>2, StartTransmitChanges, AloneTransmit DEF TableInv
<1>5. ASSUME NEW p \in Procs, NEW s \in Slots, NEW len \in Lens, Read(p, s, len)
      PROVE  AloneInv'
  <2>1. /\ s \in Live /\ len \in Nat \ {0} /\ pipes[s].outputPid = p
        /\ status[p] = "ready"
    BY <1>5, NamesAssumption DEF Read, InUser
  <2>2. CASE Empty(pipes[s])
    <3>1. /\ pipes' = [pipes EXCEPT ![s].isBlocking = TRUE]
          /\ call' = [call EXCEPT ![p] = ReadCall(s, len)]
          /\ status' = [status EXCEPT ![p] = "blocked"]
          /\ UNCHANGED fault
      BY <1>5, <2>2 DEF Read, ReadCall
    <3>2. /\ call'[p] \in RetrieveCalls
          /\ \A q \in Procs \ {p} : call'[q] = call[q]
      BY <2>1, <3>1, ReadWaitStep DEF TableInv
    <3>3. status'[p] = "blocked"
      BY <3>1 DEF TableInv, TypeInv
    <3>. QED  BY <3>1, <3>2, <3>3, CallLemma DEF AloneInv, OwnCalls, MarkedForSomebody
  <2>3. CASE ~Empty(pipes[s])
    BY <1>5, <2>1, <2>3, AloneRetrieve DEF Read
  <2>. QED  BY <2>2, <2>3
<1>6. ASSUME NEW p \in Procs, ResumeTransmit(p) PROVE AloneInv'
  <2>. DEFINE c == call[p]
  <2>1. /\ c \in TransmitCalls /\ (~c.lost => pipes[c.slot].inputPid = c.pid)
        /\ c.pid = p /\ c.victim \in {p, NoPid} /\ status[p] = "ready"
    BY <1>6, MyCallLemma
       DEF ResumeTransmit, TableInv, EndsInv, WriterKeepsPipe, AloneInv, OwnCalls
  <2>2. CASE c.slot \in Live /\ ~c.lost /\ Transmit(p, c)
    <3>1. TransmitOutcome(p, c)
      BY <2>1, <2>2, TransmitChanges DEF TableInv
    <3>. QED  BY <2>1, <2>2, <3>1, AloneTransmit
  <2>3. CASE /\ Finish(p, c.victim, status)
             /\ fault' = (fault \/ (c.victim # NoPid /\ BeingKilled(c.victim, p)))
             /\ UNCHANGED pipes
    <3>1. \A q \in Procs : call'[q] \in {call[q], NoCall}
      BY <2>3 DEF Finish, Without
    <3>2. Live' = Live
      BY <2>3 DEF Live
    <3>3. \A q \in Procs : status[q] = "blocked" => status'[q] = "blocked"
      BY <2>1, <2>3 DEF Finish, TableInv, TypeInv
    <3>4. ~BeingKilled(p, p)
      <4>1. \A q \in Procs \ {p} : call[q] # NoCall /\ call[q].op = "transmit"
                                     => call[q] \in TransmitCalls
        BY MyCallLemma DEF TableInv
      <4>. QED  BY <4>1, NamesAssumption DEF BeingKilled, AloneInv, OwnCalls
    <3>. QED  BY <2>1, <2>3, <3>1, <3>2, <3>3, <3>4, CallLemma
              DEF AloneInv, OwnCalls, MarkedForSomebody
  <2>. QED  BY <1>6, <2>2, <2>3 DEF ResumeTransmit
<1>7. ASSUME NEW p \in Procs, ResumeRetrieve(p) PROVE AloneInv'
  <2>. DEFINE c == call[p]
  <2>1. /\ c \in RetrieveCalls /\ ~c.lost /\ c.slot \in Live /\ pipes[c.slot].outputPid = p
        /\ status[p] = "ready"
    BY <1>7, MyCallLemma DEF ResumeRetrieve, TableInv, EndsInv, ReaderKeepsPipe
  <2>2. Retrieve(p, c.slot, c.len)
    BY <1>7, <2>1 DEF ResumeRetrieve
  <2>. QED  BY <2>1, <2>2, CallLemma, AloneRetrieve
<1>8. ASSUME NEW p \in Procs, Exit(p) PROVE AloneInv'
  <2>1. status[p] = "ready" /\ KillProcess(p, p)
    BY <1>8 DEF Exit, InUser
  <2>2. KillOutcome(p, p)
    BY <2>1, KillChanges DEF TableInv
  <2>3. ~BeingKilled(p, p)
    <3>1. \A q \in Procs \ {p} : call[q] # NoCall /\ call[q].op = "transmit"
                                   => call[q] \in TransmitCalls
      BY MyCallLemma DEF TableInv
    <3>. QED  BY <3>1, NamesAssumption DEF BeingKilled, AloneInv, OwnCalls
  <2>4. ASSUME status' = [status EXCEPT ![p] = "none"]
        PROVE  \A q \in Procs : status[q] = "blocked" => status'[q] = "blocked"
    BY <2>1, <2>4 DEF TableInv, TypeInv
  <2>5. CASE /\ FreeOutcome(fds[p], p) /\ fault' = (fault \/ BeingKilled(p, p))
    <3>1. Live' = {}
      BY <2>5 DEF FreeOutcome, PipelineInv, OnePipeline
    <3>2. \A q \in Procs : call'[q] \in TransmitCalls =>
            /\ call[q] \in TransmitCalls
            /\ call'[q].pid = call[q].pid /\ call'[q].victim = call[q].victim
      <4>1. ASSUME NEW q \in Procs, call[q] # NoCall, call[q] \notin TransmitCalls,
                   q # p, call[q].slot = fds[p]
            PROVE  FALSE
        <5>1. call[q].op = "retrieve"
          BY <4>1, CallLemma DEF TableInv, TypeInv
        <5>. QED  BY <2>5, <4>1, <5>1 DEF EndsInv, ReaderKeepsPipe, FreeOutcome
      <4>. QED  BY <2>5, <4>1, CallLemma DEF FreeOutcome
    <3>. QED  BY <2>3, <2>5, <3>1, <3>2 DEF AloneInv, OwnCalls, MarkedForSomebody
  <2>6. ASSUME NEW s \in Live, NEW c \in TransmitCalls, c.slot = s, c.pid = p,
               c.victim = p, pipes[s].inputPid = p, StartTransmit(p, c), TransmitOutcome(p, c)
        PROVE  AloneInv'
    BY <2>1, <2>6, AloneTransmit
  <2>7. CASE /\ status' = [status EXCEPT ![p] = "none"]
             /\ \A q \in Procs : call'[q] = IF q = p \/ q = p THEN NoCall ELSE call[q]
             /\ UNCHANGED pipes /\ Live' = Live
             /\ fault' = (fault \/ BeingKilled(p, p))
    BY <2>3, <2>4, <2>7, CallLemma DEF AloneInv, OwnCalls, MarkedForSomebody
  <2>. QED  BY <2>2, <2>5, <2>6, <2>7 DEF KillOutcome
<1>9. ASSUME NEW p \in Procs, NEW v \in Procs, Kill(p, v) PROVE AloneInv'
  BY <1>9 DEF Kill
<1>10. ASSUME NEW p \in Procs, NEW s \in Slots, Close(p, s) PROVE AloneInv'
  BY <1>10 DEF Close
<1>11. ASSUME NEW p \in Procs, NEW s \in Slots, NEW mode \in {"read", "write"},
              Open(p, s, mode)
       PROVE  AloneInv'
  BY <1>11 DEF Open
<1>12. ASSUME NEW v \in Procs, Unblock(v) PROVE AloneInv'
  BY <1>12 DEF Unblock
<1>. QED
  BY <1>1, <1>2, <1>3, <1>4, <1>5, <1>6, <1>7, <1>8, <1>9, <1>10, <1>11, <1>12
     DEF Next, Step

(* In a pipeline the shell built and nobody disturbs, no process is woken  *)
(* through an end that was never opened (processTable[(uint16_t) -1],      *)
(* pipeManager.c 171 and 204), none dies twice, and none goes on with a    *)
(* pipe that is freed.                                                     *)
THEOREM PipeNoFaultHolds ==
  ASSUME Calls = {}
  PROVE  Spec => []NoFault
<1>. DEFINE Inv == TableInv /\ EndsInv /\ PipelineInv /\ AloneInv
<1>1. Init => Inv
  BY TableInit, EndsInit, PipelineInit, AloneInit
<1>2. Inv /\ [Next]_vars => Inv'
  BY TableStep, EndsStep, PipelineStep, AloneStep DEF ShellOnly
<1>3. Inv => NoFault
  BY DEF AloneInv, NoFault
<1>. HIDE DEF Inv
<1>. QED  BY <1>1, <1>2, <1>3, PTL DEF Spec

-----------------------------------------------------------------------------
(* The ring as a sequence.  First the positions: where the i-th byte is,   *)
(* counted from the first free cell, and how that moves with the start.    *)
LEMMA RingLemma ==
  ASSUME NEW a \in Cells, NEW n \in 0 .. PIPE_SIZE
  PROVE  LET bp == (a + n) % PIPE_SIZE
             at(i) == (a + i - 1) % PIPE_SIZE
         IN  /\ bp \in Cells
             /\ \A i \in 1 .. PIPE_SIZE :
                  /\ at(i) \in Cells
                  /\ (at(i) - bp) % PIPE_SIZE = IF i <= n THEN PIPE_SIZE - n + i - 1
                                                         ELSE i - n - 1
             /\ \A k \in 0 .. n :
                  /\ (a + k) % PIPE_SIZE \in Cells
                  /\ (((a + k) % PIPE_SIZE) + (n - k)) % PIPE_SIZE = bp
                  /\ \A i \in 1 .. n - k : (((a + k) % PIPE_SIZE) + i - 1) % PIPE_SIZE = at(k + i)
<1>. DEFINE P == PIPE_SIZE
            bp == (a + n) % P
            at(i) == (a + i - 1) % P
            norm(x) == IF x < P THEN x ELSE x - P
<1>1. P \in Nat \ {0} /\ a \in 0 .. P - 1
  BY SizeAssumption DEF Cells
<1>2. \A x \in 0 .. 2 * P - 1 : x % P = norm(x)
  BY <1>1
<1>3. \A x \in -(P - 1) .. P - 1 : x % P = IF x >= 0 THEN x ELSE x + P
  BY <1>1
<1>4. bp = norm(a + n) /\ bp \in 0 .. P - 1
  BY <1>1, <1>2
<1>5. \A i \in 1 .. P : at(i) = norm(a + i - 1) /\ at(i) \in 0 .. P - 1
  BY <1>1, <1>2
<1>. HIDE DEF bp, at
<1>6. \A i \in 1 .. P : (at(i) - bp) % P = IF i <= n THEN P - n + i - 1 ELSE i - n - 1
  <2>. TAKE i \in 1 .. P
  <2>1. at(i) - bp \in -(P - 1) .. P - 1
    BY <1>1, <1>4, <1>5
  <2>2. (at(i) - bp) % P = IF at(i) - bp >= 0 THEN at(i) - bp ELSE at(i) - bp + P
    BY <1>3, <2>1
  <2>. QED  BY <1>1, <1>4, <1>5, <2>2
<1>7. ASSUME NEW k \in 0 .. n
      PROVE  /\ (a + k) % P \in 0 .. P - 1
             /\ (((a + k) % P) + (n - k)) % P = bp
             /\ \A i \in 1 .. n - k : (((a + k) % P) + i - 1) % P = at(k + i)
  <2>1. (a + k) % P = norm(a + k) /\ norm(a + k) \in 0 .. P - 1
    BY <1>1, <1>2
  <2>2. (((a + k) % P) + (n - k)) % P = norm(norm(a + k) + (n - k))
    <3>1. norm(a + k) + (n - k) \in 0 .. 2 * P - 1
      BY <1>1, <2>1
    <3>. QED  BY <1>2, <2>1, <3>1
  <2>3. ASSUME NEW i \in 1 .. n - k PROVE (((a + k) % P) + i - 1) % P = at(k + i)
    <3>1. norm(a + k) + i - 1 \in 0 .. 2 * P - 1
      BY <1>1, <2>1
    <3>2. (((a + k) % P) + i - 1) % P = norm(norm(a + k) + i - 1)
      BY <1>2, <2>1, <3>1
    <3>3. k + i \in 1 .. P
      BY <1>1
    <3>4. at(k + i) = norm(a + (k + i) - 1)
      BY <1>5, <3>3
    <3>. QED  BY <1>1, <3>2, <3>4
  <2>. QED  BY <1>1, <1>4, <2>1, <2>2, <2>3
<1>. QED  BY <1>4, <1>5, <1>6, <1>7 DEF bp, at, Cells

(* In a ring only the first free cell may hold the end of the stream.      *)
PipeRing(pipe) ==
  \A i \in Cells : pipe.buffer[i] = Eof => i = BufferPosition(pipe) /\ ~Full(pipe)
NoEof(pipe) == \A i \in Cells : pipe.buffer[i] # Eof

LEMMA ContentsLemma ==
  ASSUME NEW pipe \in PipeRecord
  PROVE  /\ Contents(pipe) \in Seq(Symbols) /\ Len(Contents(pipe)) = pipe.currentSize
         /\ \A i \in 1 .. pipe.currentSize :
              Contents(pipe)[i] = pipe.buffer[(pipe.startPosition + i - 1) % PIPE_SIZE]
         /\ BufferPosition(pipe) \in Cells
<1>1. Contents(pipe) \in Seq(Symbols) /\ Len(Contents(pipe)) = pipe.currentSize
  BY DropLemma
<1>2. BufferPosition(pipe) \in Cells
  BY RingLemma DEF BufferPosition, PipeRecord
<1>. QED  BY <1>1, <1>2 DEF Contents

(* Bytes are appended.                                                     *)
LEMMA StoreBytes ==
  ASSUME NEW pipe \in PipeRecord, NEW r \in Rests, r # <<Eof>>, NoEof(pipe),
         NEW q \in PipeRecord,
         q.startPosition = pipe.startPosition,
         q.buffer = Store(pipe, Accepted(pipe, r)).buffer,
         q.currentSize = IF Accepted(pipe, r) = <<Eof>> THEN pipe.currentSize
                         ELSE pipe.currentSize + Len(Accepted(pipe, r))
  PROVE  Contents(q) = Contents(pipe) \o Accepted(pipe, r) /\ NoEof(q)
<1>. DEFINE put == Accepted(pipe, r)
            k == AtMost(Len(r), PIPE_SIZE - pipe.currentSize)
            a == pipe.startPosition
            n == pipe.currentSize
            bp == (a + n) % PIPE_SIZE
            at(i) == (a + i - 1) % PIPE_SIZE
            d(i) == (i - bp) % PIPE_SIZE
<1>1. /\ Len(put) = k /\ k \in 0 .. Len(r) /\ put \in Seq(Symbols) /\ put # <<Eof>>
      /\ \A i \in 1 .. k : put[i] = r[i]
  BY AcceptedLemma
<1>2. Len(r) \in Nat /\ \A i \in 1 .. Len(r) : r[i] # Eof
  BY RestsLemma
<1>3. a \in Cells /\ n \in 0 .. PIPE_SIZE /\ PIPE_SIZE \in Nat \ {0}
  BY SizeAssumption DEF PipeRecord
<1>4. /\ bp \in Cells
      /\ \A i \in 1 .. PIPE_SIZE : /\ at(i) \in Cells
                                   /\ d(at(i)) = IF i <= n THEN PIPE_SIZE - n + i - 1
                                                           ELSE i - n - 1
  BY <1>3, RingLemma
<1>5. k <= PIPE_SIZE - n
  BY <1>2, <1>3 DEF AtMost
<1>6. \A i \in Cells : q.buffer[i] = IF d(i) < Len(put) THEN put[d(i) + 1]
                                                        ELSE pipe.buffer[i]
  BY StoreLemma DEF BufferPosition
<1>7. q.currentSize = n + k
  BY <1>1
<1>. HIDE DEF put, k, bp, at
<1>8. \A i \in Cells : d(i) \in Nat
  <2>. TAKE i \in Cells
  <2>1. i - bp \in -(PIPE_SIZE - 1) .. PIPE_SIZE - 1
    BY <1>3, <1>4 DEF Cells
  <2>2. \A x \in -(PIPE_SIZE - 1) .. PIPE_SIZE - 1 : x % PIPE_SIZE \in Nat
    BY <1>3
  <2>. QED  BY <2>1, <2>2
<1>. HIDE DEF d
<1>9. NoEof(q)
  <2>. SUFFICES ASSUME NEW i \in Cells PROVE q.buffer[i] # Eof
    BY DEF NoEof
  <2>1. CASE d(i) < Len(put)
    <3>1. d(i) + 1 \in 1 .. k
      BY <1>1, <1>8, <2>1
    <3>. QED  BY <1>1, <1>2, <1>6, <2>1, <3>1
  <2>2. CASE ~(d(i) < Len(put))
    BY <1>6, <2>2 DEF NoEof
  <2>. QED  BY <2>1, <2>2
<1>10. \A i \in 1 .. n + k : Contents(q)[i] = q.buffer[at(i)]
  BY <1>7, ContentsLemma DEF at
<1>11. \A i \in 1 .. n : Contents(pipe)[i] = pipe.buffer[at(i)]
  BY ContentsLemma DEF at
<1>12. ASSUME NEW i \in 1 .. n PROVE Contents(q)[i] = Contents(pipe)[i]
  <2>1. i \in 1 .. PIPE_SIZE /\ i \in 1 .. n + k
    BY <1>1, <1>2, <1>3
  <2>2. ~(d(at(i)) < Len(put)) /\ at(i) \in Cells
    BY <1>1, <1>2, <1>3, <1>4, <1>5, <2>1
  <2>. QED  BY <1>6, <1>10, <1>11, <2>1, <2>2
<1>13. ASSUME NEW i \in n + 1 .. n + k PROVE Contents(q)[i] = put[i - n]
  <2>1. i \in 1 .. PIPE_SIZE /\ i \in 1 .. n + k
    BY <1>1, <1>2, <1>3, <1>5
  <2>2. d(at(i)) = i - n - 1 /\ d(at(i)) < Len(put) /\ at(i) \in Cells
    BY <1>1, <1>2, <1>3, <1>4, <2>1
  <2>3. (i - n - 1) + 1 = i - n
    BY <1>3
  <2>. QED  BY <1>6, <1>10, <2>1, <2>2, <2>3
<1>14. /\ Contents(q) \in Seq(Symbols) /\ Len(Contents(q)) = n + k
       /\ Contents(pipe) \in Seq(Symbols) /\ Len(Contents(pipe)) = n
  BY <1>7, ContentsLemma
<1>15. /\ Contents(pipe) \o put \in Seq(Symbols)
       /\ Len(Contents(pipe) \o put) = n + k
       /\ \A i \in 1 .. n + k : (Contents(pipe) \o put)[i] =
            IF i <= n THEN Contents(pipe)[i] ELSE put[i - n]
  <2>1. /\ Contents(pipe) \o put \in Seq(Symbols)
        /\ Len(Contents(pipe) \o put) = Len(Contents(pipe)) + Len(put)
        /\ \A i \in 1 .. Len(Contents(pipe)) + Len(put) : (Contents(pipe) \o put)[i] =
             IF i <= Len(Contents(pipe)) THEN Contents(pipe)[i]
             ELSE put[i - Len(Contents(pipe))]
    BY <1>1, <1>14, ConcatProperties
  <2>. QED  BY <1>1, <1>14, <2>1
<1>16. \A i \in 1 .. n + k : Contents(q)[i] = (Contents(pipe) \o put)[i]
  BY <1>1, <1>2, <1>3, <1>12, <1>13, <1>15
<1>17. Contents(q) = Contents(pipe) \o put
  BY <1>14, <1>15, <1>16, SeqEqual
<1>. QED  BY <1>9, <1>17 DEF put

(* The end takes the first free cell; in a full ring nothing is stored.    *)
LEMMA StoreEof ==
  ASSUME NEW pipe \in PipeRecord, PipeRing(pipe), NEW q \in PipeRecord,
         q.startPosition = pipe.startPosition,
         q.buffer = Store(pipe, Accepted(pipe, <<Eof>>)).buffer,
         q.currentSize = IF Accepted(pipe, <<Eof>>) = <<Eof>> THEN pipe.currentSize
                         ELSE pipe.currentSize + Len(Accepted(pipe, <<Eof>>))
  PROVE  /\ Contents(q) = Contents(pipe) /\ PipeRing(q) /\ q.currentSize = pipe.currentSize
         /\ IF Full(pipe) THEN q.buffer = pipe.buffer ELSE EofStored(q)
<1>. DEFINE put == Accepted(pipe, <<Eof>>)
            k == AtMost(Len(<<Eof>>), PIPE_SIZE - pipe.currentSize)
            a == pipe.startPosition
            n == pipe.currentSize
            bp == (a + n) % PIPE_SIZE
            at(i) == (a + i - 1) % PIPE_SIZE
            d(i) == (i - bp) % PIPE_SIZE
<1>1. Len(put) = k /\ (put = <<Eof>> <=> ~Full(pipe)) /\ Len(<<Eof>>) = 1
  BY AcceptedLemma DEF Rests
<1>2. a \in Cells /\ n \in 0 .. PIPE_SIZE /\ PIPE_SIZE \in Nat \ {0}
  BY SizeAssumption DEF PipeRecord
<1>3. /\ bp \in Cells
      /\ \A i \in 1 .. PIPE_SIZE : /\ at(i) \in Cells
                                   /\ d(at(i)) = IF i <= n THEN PIPE_SIZE - n + i - 1
                                                           ELSE i - n - 1
  BY <1>2, RingLemma
<1>4. k = IF Full(pipe) THEN 0 ELSE 1
  BY <1>1, <1>2 DEF AtMost, Full
<1>5. \A i \in Cells : q.buffer[i] = IF d(i) < Len(put) THEN put[d(i) + 1]
                                                        ELSE pipe.buffer[i]
  BY StoreLemma DEF BufferPosition, Rests
<1>6. q.currentSize = n
  BY <1>1, <1>2, <1>4
<1>9. BufferPosition(q) = bp /\ BufferPosition(pipe) = bp /\ (Full(q) <=> Full(pipe))
  BY <1>6 DEF BufferPosition, Full
<1>10. /\ Contents(q) = [i \in 1 .. n |-> q.buffer[at(i)]]
       /\ Contents(pipe) = [i \in 1 .. n |-> pipe.buffer[at(i)]]
  BY <1>6 DEF Contents
<1>. HIDE DEF put, k, bp, at
<1>7. \A i \in Cells : d(i) \in Nat /\ (d(i) = 0 => i = bp)
  <2>. TAKE i \in Cells
  <2>1. i - bp \in -(PIPE_SIZE - 1) .. PIPE_SIZE - 1
    BY <1>2, <1>3 DEF Cells
  <2>2. \A x \in -(PIPE_SIZE - 1) .. PIPE_SIZE - 1 :
          x % PIPE_SIZE \in Nat /\ (x % PIPE_SIZE = 0 => x = 0)
    BY <1>2
  <2>3. d(i) \in Nat /\ (d(i) = 0 => i - bp = 0)
    BY <2>1, <2>2
  <2>. QED  BY <1>2, <1>3, <2>3 DEF Cells
<1>8. d(bp) = 0
  BY <1>2, <1>3 DEF Cells
<1>. HIDE DEF d
<1>11. CASE Full(pipe)
  <2>1. \A i \in Cells : q.buffer[i] = pipe.buffer[i]
    BY <1>1, <1>4, <1>5, <1>7, <1>11
  <2>2. q.buffer = pipe.buffer
    BY <2>1 DEF PipeRecord
  <2>. QED  BY <1>6, <1>9, <1>10, <1>11, <2>2 DEF PipeRing
<1>12. CASE ~Full(pipe)
  <2>1. q.buffer[bp] = Eof
    <3>1. put[1] = Eof /\ d(bp) < Len(put) /\ d(bp) + 1 = 1
      BY <1>1, <1>4, <1>8, <1>12
    <3>. QED  BY <1>3, <1>5, <3>1
  <2>2. \A i \in Cells \ {bp} : q.buffer[i] = pipe.buffer[i]
    BY <1>1, <1>4, <1>5, <1>7, <1>12
  <2>3. \A i \in 1 .. n : at(i) \in Cells \ {bp}
    <3>. TAKE i \in 1 .. n
    <3>1. i \in 1 .. PIPE_SIZE
      BY <1>2
    <3>2. d(at(i)) = PIPE_SIZE - n + i - 1 /\ at(i) \in Cells
      BY <1>2, <1>3, <3>1
    <3>3. n < PIPE_SIZE
      BY <1>2, <1>12 DEF Full
    <3>4. d(at(i)) # 0
      BY <1>2, <3>2, <3>3
    <3>. QED  BY <1>8, <3>2, <3>4
  <2>4. Contents(q) = Contents(pipe)
    BY <1>10, <2>2, <2>3
  <2>5. PipeRing(q)
    BY <1>9, <1>12, <2>2 DEF PipeRing
  <2>. QED  BY <1>6, <1>9, <1>12, <2>1, <2>4, <2>5 DEF EofStored
<1>. QED  BY <1>11, <1>12

(* What is handed over comes off the front.                                *)
LEMMA DropContents ==
  ASSUME NEW pipe \in PipeRecord, PipeRing(pipe), NEW len \in Nat, NEW q \in PipeRecord,
         q.buffer = pipe.buffer,
         q.currentSize = pipe.currentSize - AtMost(len, pipe.currentSize),
         q.startPosition =
           (pipe.startPosition + AtMost(len, pipe.currentSize)) % PIPE_SIZE
  PROVE  /\ Contents(pipe) = Given(pipe, len) \o Contents(q)
         /\ EofStored(q) <=> EofStored(pipe)
         /\ PipeRing(q)
<1>. DEFINE k == AtMost(len, pipe.currentSize)
            a == pipe.startPosition
            n == pipe.currentSize
            got == Given(pipe, len)
            at(i) == (a + i - 1) % PIPE_SIZE
<1>1. /\ k \in 0 .. n /\ Len(got) = k /\ got \in Seq(Symbols)
      /\ \A i \in 1 .. k : got[i] = Contents(pipe)[i]
  BY DropLemma
<1>2. a \in Cells /\ n \in 0 .. PIPE_SIZE /\ PIPE_SIZE \in Nat \ {0}
  BY SizeAssumption DEF PipeRecord
<1>. HIDE DEF k
<1>3. /\ (((a + k) % PIPE_SIZE) + (n - k)) % PIPE_SIZE = (a + n) % PIPE_SIZE
      /\ \A i \in 1 .. n - k : (((a + k) % PIPE_SIZE) + i - 1) % PIPE_SIZE = at(k + i)
  BY <1>1, <1>2, RingLemma
<1>4. q.currentSize = n - k /\ q.startPosition = (a + k) % PIPE_SIZE
  BY DEF k
<1>5. BufferPosition(q) = BufferPosition(pipe)
  BY <1>3, <1>4 DEF BufferPosition
<1>6. EofStored(q) <=> EofStored(pipe)
  BY <1>5 DEF EofStored
<1>7. PipeRing(q)
  BY <1>1, <1>2, <1>4, <1>5 DEF PipeRing, Full
<1>. HIDE DEF got, at
<1>8. \A i \in 1 .. n : Contents(pipe)[i] = pipe.buffer[at(i)]
  BY ContentsLemma DEF at
<1>9. \A i \in 1 .. n - k : Contents(q)[i] = pipe.buffer[at(k + i)]
  BY <1>3, <1>4, ContentsLemma
<1>10. /\ Contents(q) \in Seq(Symbols) /\ Len(Contents(q)) = n - k
       /\ Contents(pipe) \in Seq(Symbols) /\ Len(Contents(pipe)) = n
  BY <1>4, ContentsLemma
<1>11. /\ got \o Contents(q) \in Seq(Symbols)
       /\ Len(got \o Contents(q)) = k + (n - k)
       /\ \A i \in 1 .. k + (n - k) : (got \o Contents(q))[i] =
            IF i <= k THEN got[i] ELSE Contents(q)[i - k]
  BY <1>1, <1>10, ConcatProperties
<1>12. ASSUME NEW i \in 1 .. n PROVE Contents(pipe)[i] = (got \o Contents(q))[i]
  <2>1. i \in 1 .. k + (n - k)
    BY <1>1, <1>2
  <2>2. CASE i <= k
    BY <1>1, <1>2, <1>11, <2>1, <2>2
  <2>3. CASE ~(i <= k)
    <3>1. i - k \in 1 .. n - k /\ k + (i - k) = i
      BY <1>1, <1>2, <2>3
    <3>2. Contents(q)[i - k] = pipe.buffer[at(i)]
      BY <1>9, <3>1
    <3>. QED  BY <1>8, <1>11, <2>1, <2>3, <3>2
  <2>. QED  BY <2>2, <2>3
<1>13. Len(got \o Contents(q)) = Len(Contents(pipe))
  BY <1>1, <1>2, <1>10, <1>11
<1>14. Contents(pipe) = got \o Contents(q)
  BY <1>10, <1>11, <1>12, <1>13, SeqEqual
<1>. QED  BY <1>6, <1>7, <1>14 DEF got

-----------------------------------------------------------------------------
(* A pipe implements a channel.  The history is shaped, a slot that holds  *)
(* no pipe has none; every ring is one; a call that has not lost its pipe  *)
(* sends for the caller, or the end of the stream for the process it       *)
(* kills; and while a writer waits with bytes the stream is not ended.     *)
HistInv ==
  /\ taken \in [Slots -> Seq(Symbols)] /\ ended \in [Slots -> BOOLEAN]
  /\ \A s \in Slots \ Live : taken[s] = <<>> /\ ~ended[s]
RingsInv == \A s \in Live : PipeRing(pipes[s])
SendsFor(c, p) ==
  c.victim \in {NoPid, c.pid} /\ (c.rest # <<Eof>> \/ c.victim = NoPid => c.pid = p)
SendsForInv ==
  \A p \in Procs : call[p] \in TransmitCalls /\ ~call[p].lost => SendsFor(call[p], p)
StillOpen ==
  \A p \in Procs : call[p] \in TransmitCalls /\ ~call[p].lost /\ call[p].rest # <<Eof>>
                     => ~EofStored(pipes[call[p].slot])
ChannelInv == HistInv /\ RingsInv /\ SendsForInv /\ StillOpen

(* What one slot is as a channel.                                          *)
SentOn(s) == taken[s] \o (IF s \in Live THEN Contents(pipes[s]) ELSE <<>>)
ClosedOn(s) == s \in Live /\ EofStored(pipes[s])

LEMMA PrefixLemma ==
  ASSUME NEW a \in Seq(Symbols), NEW b \in Seq(Symbols)
  PROVE  IsPrefix(a, a \o b) /\ a \o b \in Seq(Symbols) /\ Len(a \o b) = Len(a) + Len(b)
<1>1. /\ a \o b \in Seq(Symbols) /\ Len(a \o b) = Len(a) + Len(b)
      /\ \A i \in 1 .. Len(a) + Len(b) : (a \o b)[i] = IF i <= Len(a) THEN a[i] ELSE b[i - Len(a)]
  BY ConcatProperties
<1>2. Len(a) \in Nat /\ Len(b) \in Nat
  OBVIOUS
<1>. DEFINE ab == a \o b
<1>. HIDE DEF ab
<1>3. ab \in Seq(Symbols) /\ \A i \in 1 .. Len(a) : ab[i] = a[i] /\ a[i] \in Symbols
  BY <1>1, <1>2 DEF ab
<1>4. /\ SubSeq(a, 1, Len(a)) \in Seq(Symbols) /\ Len(SubSeq(a, 1, Len(a))) = Len(a)
      /\ \A i \in 1 .. Len(a) : SubSeq(a, 1, Len(a))[i] = a[i]
  BY <1>2, <1>3
<1>5. /\ SubSeq(ab, 1, Len(a)) \in Seq(Symbols) /\ Len(SubSeq(ab, 1, Len(a))) = Len(a)
      /\ \A i \in 1 .. Len(a) : SubSeq(ab, 1, Len(a))[i] = ab[i]
  BY <1>2, <1>3
<1>6. SubSeq(a, 1, Len(a)) = SubSeq(ab, 1, Len(a))
  BY <1>3, <1>4, <1>5, SeqEqual
<1>. QED  BY <1>1, <1>2, <1>6 DEF IsPrefix, ab

LEMMA JoinLemma ==
  ASSUME NEW a \in Seq(Symbols), NEW b \in Seq(Symbols), NEW c \in Seq(Symbols)
  PROVE  (a \o b) \o c = a \o (b \o c)
BY ConcatAssociative

(* The four ways of a channel, told of a slot.                             *)
LEMMA StayLemma ==
  ASSUME NEW s \in Slots, SentOn(s)' = SentOn(s), ClosedOn(s)' = ClosedOn(s),
         taken'[s] = taken[s], ended'[s] = ended[s]
  PROVE  AsChannel!Stay(s)
BY DEF AsChannel!Stay, SentOn, ClosedOn

LEMMA SendLemma ==
  ASSUME NEW s \in Slots, ~ClosedOn(s), IsPrefix(SentOn(s), SentOn(s)'),
         Len(SentOn(s)') - Len(taken[s]) <= PIPE_SIZE,
         taken'[s] = taken[s], ended'[s] = ended[s]
  PROVE  AsChannel!Send(s)
<1>1. ClosedOn(s)' \in BOOLEAN
  BY DEF ClosedOn, EofStored
<1>. QED  BY <1>1 DEF AsChannel!Send, AsChannel!IsPrefix, IsPrefix, SentOn, ClosedOn

LEMMA ReceiveLemma ==
  ASSUME NEW s \in Slots, IsPrefix(taken[s], taken'[s]), IsPrefix(taken'[s], SentOn(s)),
         ended'[s] => ended[s] \/ (ClosedOn(s) /\ taken'[s] = SentOn(s)),
         ended[s] => ended'[s],
         SentOn(s)' = SentOn(s), ClosedOn(s)' = ClosedOn(s)
  PROVE  AsChannel!Receive(s)
BY DEF AsChannel!Receive, AsChannel!IsPrefix, IsPrefix, SentOn, ClosedOn

LEMMA DiscardLemma ==
  ASSUME NEW s \in Slots, SentOn(s)' = <<>>, ~ClosedOn(s)', taken'[s] = <<>>, ~ended'[s]
  PROVE  AsChannel!Discard(s)
BY DEF AsChannel!Discard, AsChannel!Fresh, SentOn, ClosedOn

(* A pipe whose ring is not disturbed stays.                               *)
LEMMA UndisturbedLemma ==
  ASSUME NEW s \in Slots, s \in Live <=> s \in Live',
         s \in Live => /\ pipes'[s].buffer = pipes[s].buffer
                       /\ pipes'[s].startPosition = pipes[s].startPosition
                       /\ pipes'[s].currentSize = pipes[s].currentSize,
         taken'[s] = taken[s], ended'[s] = ended[s]
  PROVE  /\ AsChannel!Stay(s)
         /\ s \in Live => /\ EofStored(pipes'[s]) <=> EofStored(pipes[s])
                          /\ PipeRing(pipes[s]) => PipeRing(pipes'[s])
<1>1. s \in Live => /\ Contents(pipes'[s]) = Contents(pipes[s])
                    /\ EofStored(pipes'[s]) <=> EofStored(pipes[s])
                    /\ PipeRing(pipes[s]) => PipeRing(pipes'[s])
  BY DEF Contents, EofStored, BufferPosition, PipeRing, Full
<1>2. SentOn(s)' = SentOn(s) /\ ClosedOn(s)' = ClosedOn(s)
  BY <1>1 DEF SentOn, ClosedOn
<1>. QED  BY <1>1, <1>2, StayLemma

(* A round of a transmission appends bytes that fit to an open channel, or *)
(* ends it, or does not change it.                                         *)
RingSends(s, c) ==
  /\ \E put \in Seq(Symbols) : /\ Contents(pipes'[s]) = Contents(pipes[s]) \o put
                               /\ EofStored(pipes[s]) => put = <<>>
  /\ PipeRing(pipes'[s]) /\ (EofStored(pipes[s]) => EofStored(pipes'[s]))
  /\ EofStored(pipes'[s]) => EofStored(pipes[s]) \/ (c.rest = <<Eof>> /\ ~Full(pipes[s]))
  /\ c.rest = <<Eof>> => pipes'[s].currentSize = pipes[s].currentSize

LEMMA RingTransmit ==
  ASSUME TypeInv, NEW p \in Procs, NEW c \in TransmitCalls, c.slot \in Live,
         PipeRing(pipes[c.slot]), c.rest # <<Eof>> => ~EofStored(pipes[c.slot]),
         Transmit(p, c) \/ StartTransmit(p, c)
  PROVE  RingSends(c.slot, c)
<1>. DEFINE s == c.slot
            pipe == pipes[s]
            r == c.rest
            left == SubSeq(r, Len(Accepted(pipe, r)) + 1, Len(r))
<1>1. r \in Rests /\ s \in Slots /\ s \in Live
  BY CallLemma
<1>2. pipe \in PipeRecord
  BY <1>1, LiveLemma
<1>3. <<>> \in Seq(Symbols) /\ Contents(pipe) \o <<>> = Contents(pipe)
  BY <1>2, ContentsLemma, ConcatEmptySeq
<1>4. CASE Full(pipe) /\ ~Transmit(p, c)
  <2>1. pipes' = [pipes EXCEPT ![s].isBlocking = TRUE]
    BY <1>4 DEF StartTransmit
  <2>2. /\ pipes'[s].startPosition = pipe.startPosition /\ pipes'[s].buffer = pipe.buffer
        /\ pipes'[s].currentSize = pipe.currentSize
    <3>. HIDE DEF s
    <3>. QED  BY <1>1, <2>1, MarkedLemma
  <2>. QED  BY <1>3, <2>2 DEF RingSends, Contents, EofStored, BufferPosition, PipeRing, Full
<1>5. CASE Transmit(p, c)
  <2>1. pipes' = [pipes EXCEPT ![s] =
          [Store(pipes[s], Accepted(pipes[s], r)) EXCEPT !.isBlocking = (left # <<>>)]]
    BY <1>5 DEF Transmit
  <2>. DEFINE q == pipes'[s]
              put == Accepted(pipe, r)
  <2>. HIDE DEF s, r, left
  <2>2. /\ q \in PipeRecord /\ q.startPosition = pipe.startPosition
        /\ q.buffer = Store(pipe, put).buffer
        /\ q.currentSize = IF put = <<Eof>> THEN pipe.currentSize
                           ELSE pipe.currentSize + Len(put)
    BY <1>1, <2>1, StoredLemma
  <2>. HIDE DEF q, pipe, put
  <2>3. CASE r = <<Eof>>
    <3>1. /\ Contents(q) = Contents(pipe) /\ PipeRing(q)
          /\ q.currentSize = pipe.currentSize
          /\ IF Full(pipe) THEN q.buffer = pipe.buffer ELSE EofStored(q)
      BY <1>2, <2>2, <2>3, StoreEof DEF pipe, put, s
    <3>2. /\ EofStored(pipe) => EofStored(q)
          /\ EofStored(q) => EofStored(pipe) \/ ~Full(pipe)
      BY <2>2, <3>1 DEF EofStored, BufferPosition
    <3>3. PICK none \in Seq(Symbols) : none = <<>>
      BY <1>3
    <3>. QED  BY <1>3, <2>3, <3>1, <3>2, <3>3 DEF RingSends, q, pipe, r, s
  <2>4. CASE r # <<Eof>>
    <3>1. NoEof(pipe) /\ ~EofStored(pipe)
      BY <2>4 DEF NoEof, PipeRing, EofStored, pipe, r, s
    <3>2. Contents(q) = Contents(pipe) \o put /\ NoEof(q)
      BY <1>1, <1>2, <2>2, <2>4, <3>1, StoreBytes DEF put
    <3>3. put \in Seq(Symbols)
      BY <1>1, <1>2, AcceptedLemma DEF put
    <3>4. BufferPosition(q) \in Cells
      BY <2>2, ContentsLemma
    <3>5. PipeRing(q) /\ ~EofStored(q)
      BY <3>2, <3>4 DEF NoEof, PipeRing, EofStored
    <3>. QED  BY <2>4, <3>1, <3>2, <3>3, <3>5 DEF RingSends, q, pipe, s, r
  <2>. QED  BY <2>3, <2>4
<1>. QED  BY <1>4, <1>5 DEF StartTransmit

LEMMA ChannelSends ==
  ASSUME TableInv, TableInv', HistInv, RingsInv, NEW s \in Live, NEW c,
         RingSends(s, c), Live' = Live,
         \A t \in Live \ {s} : pipes'[t] = pipes[t], UNCHANGED history
  PROVE  HistInv' /\ RingsInv' /\ AsChannel!Next
<1>1. taken' = taken /\ ended' = ended /\ s \in Slots
  BY DEF history, Live
<1>2. HistInv'
  BY <1>1 DEF HistInv
<1>3. RingsInv'
  BY DEF RingsInv, RingSends
<1>4. ASSUME NEW t \in Slots \ {s} PROVE AsChannel!Stay(t)
  BY <1>1, <1>4, UndisturbedLemma
<1>5. AsChannel!Stay(s) \/ AsChannel!Send(s)
  <2>1. PICK put \in Seq(Symbols) : /\ Contents(pipes'[s]) = Contents(pipes[s]) \o put
                                    /\ EofStored(pipes[s]) => put = <<>>
    BY DEF RingSends
  <2>2. /\ pipes[s] \in PipeRecord /\ pipes'[s] \in PipeRecord
        /\ taken[s] \in Seq(Symbols) /\ SentOn(s) = taken[s] \o Contents(pipes[s])
        /\ SentOn(s)' = taken[s] \o Contents(pipes'[s])
    BY <1>1, LiveLemma DEF HistInv, SentOn, TableInv, TypeInv, Live
  <2>3. Contents(pipes[s]) \in Seq(Symbols) /\ Contents(pipes'[s]) \in Seq(Symbols)
        /\ Len(Contents(pipes'[s])) = pipes'[s].currentSize
        /\ pipes'[s].currentSize <= PIPE_SIZE
    BY <2>2, ContentsLemma, SizeAssumption DEF PipeRecord
  <2>4. SentOn(s) \in Seq(Symbols) /\ SentOn(s)' = SentOn(s) \o put
    <3>1. SentOn(s) \in Seq(Symbols)
      BY <2>2, <2>3, PrefixLemma
    <3>2. (taken[s] \o Contents(pipes[s])) \o put = taken[s] \o (Contents(pipes[s]) \o put)
      BY <2>2, <2>3, JoinLemma
    <3>. QED  BY <2>1, <2>2, <3>1, <3>2
  <2>5. CASE EofStored(pipes[s])
    <3>1. SentOn(s)' = SentOn(s)
      BY <2>1, <2>4, <2>5, ConcatEmptySeq
    <3>2. ClosedOn(s)' = ClosedOn(s)
      BY <2>5 DEF ClosedOn, RingSends
    <3>. QED  BY <1>1, <3>1, <3>2, StayLemma
  <2>6. CASE ~EofStored(pipes[s])
    <3>1. IsPrefix(SentOn(s), SentOn(s)')
      BY <2>4, PrefixLemma
    <3>2. Len(SentOn(s)') - Len(taken[s]) <= PIPE_SIZE
      <4>1. Len(SentOn(s)') = Len(taken[s]) + Len(Contents(pipes'[s]))
        BY <2>2, <2>3, PrefixLemma
      <4>. QED  BY <2>2, <2>3, <4>1, SizeAssumption DEF PipeRecord
    <3>3. ~ClosedOn(s)
      BY <2>6 DEF ClosedOn
    <3>. QED  BY <1>1, <3>1, <3>2, <3>3, SendLemma
  <2>. QED  BY <2>5, <2>6
<1>6. AsChannel!Next
  BY <1>4, <1>5 DEF AsChannel!Next
<1>. QED  BY <1>2, <1>3, <1>6

LEMMA ChannelTransmit ==
  ASSUME TableInv, TableInv', EndsInv, ChannelInv, NEW p \in Procs, NEW c \in TransmitCalls,
         c.slot \in Live, ~c.lost, pipes[c.slot].inputPid = c.pid, SendsFor(c, p),
         c.rest # <<Eof>> => ~EofStored(pipes[c.slot]),
         Transmit(p, c) \/ StartTransmit(p, c), UNCHANGED history
  PROVE  ChannelInv' /\ AsChannel!Next
<1>. DEFINE s == c.slot
<1>1. TransmitOutcome(p, c)
  BY TransmitChanges, StartTransmitChanges DEF TableInv
<1>2. RingSends(s, c)
  BY RingTransmit DEF TableInv, ChannelInv, RingsInv
<1>3. /\ Live' = Live /\ \A t \in Live \ {s} : pipes'[t] = pipes[t]
      /\ \A q \in Procs \ {p} : call'[q] \in {call[q], NoCall}
      /\ \/ GoesOn(c, call'[p]) /\ Full(pipes'[s])
         \/ call'[p] = NoCall /\ \A q \in Procs : q = c.victim => call'[q] = NoCall
  BY <1>1 DEF TransmitOutcome, SameEnds
<1>4. HistInv' /\ RingsInv' /\ AsChannel!Next
  BY <1>2, <1>3, ChannelSends DEF ChannelInv
<1>5. SendsForInv'
  <2>. SUFFICES ASSUME NEW q \in Procs, call'[q] \in TransmitCalls, ~call'[q].lost
                PROVE  SendsFor(call'[q], q)
    BY DEF SendsForInv, SendsFor
  <2>1. CASE q # p
    BY <1>3, <2>1, CallLemma DEF ChannelInv, SendsForInv
  <2>2. CASE q = p
    BY <1>3, <2>2, CallLemma DEF GoesOn, SendsFor
  <2>. QED  BY <2>1, <2>2
<1>6. StillOpen'
  <2>. SUFFICES ASSUME NEW q \in Procs, call'[q] \in TransmitCalls, ~call'[q].lost,
                       call'[q].rest # <<Eof>>
                PROVE  ~EofStored(pipes'[call'[q].slot])
    BY DEF StillOpen
  <2>1. CASE q # p
    <3>1. call'[q] = call[q] /\ call[q] \in TransmitCalls
      BY <1>3, <2>1, CallLemma
    <3>2. call[q].slot \in Live /\ ~EofStored(pipes[call[q].slot])
      BY <3>1, CallLemma DEF ChannelInv, StillOpen, TableInv, KeepsSlot
    <3>3. CASE call[q].slot # s
      BY <1>3, <3>1, <3>2, <3>3
    <3>4. CASE call[q].slot = s /\ EofStored(pipes'[s])
      <4>1. c.rest = <<Eof>>
        BY <1>2, <3>2, <3>4 DEF RingSends
      <4>2. call'[p] = NoCall /\ \A v \in Procs : v = c.victim => call'[v] = NoCall
        <5>1. ~Full(pipes'[s])
          <6>1. BufferPosition(pipes'[s]) \in Cells
            BY <1>3, LiveLemma, ContentsLemma DEF TableInv, TypeInv, Live
          <6>. QED  BY <1>2, <3>4, <6>1 DEF RingSends, PipeRing, EofStored
        <5>. QED  BY <1>3, <5>1
      <4>3. call[q].pid = q /\ q = c.pid
        BY <3>1, <3>4, CallLemma DEF EndsInv, WriterKeepsPipe, ChannelInv, SendsForInv, SendsFor
      <4>. QED  BY <2>1, <3>1, <4>2, <4>3, CallLemma DEF SendsFor
    <3>. QED  BY <3>1, <3>3, <3>4
  <2>2. CASE q = p
    <3>1. call'[p] # NoCall
      BY <2>2, CallLemma
    <3>2. Full(pipes'[s]) /\ call'[p].slot = s
      BY <1>3, <3>1 DEF GoesOn
    <3>3. BufferPosition(pipes'[s]) \in Cells
      BY <1>3, LiveLemma, ContentsLemma DEF TableInv, TypeInv, Live
    <3>. QED  BY <1>2, <2>2, <3>2, <3>3 DEF RingSends, PipeRing, EofStored
  <2>. QED  BY <2>1, <2>2
<1>. QED  BY <1>4, <1>5, <1>6 DEF ChannelInv

(* Reading hands over the front of the ring.                               *)
LEMMA ChannelRetrieve ==
  ASSUME TableInv, TableInv', ChannelInv, NEW p \in Procs, NEW s \in Live,
         NEW len \in Nat \ {0}, Retrieve(p, s, len)
  PROVE  ChannelInv' /\ AsChannel!Next
<1>. DEFINE pipe == pipes[s]
            got == Given(pipe, len)
            q == pipes'[s]
            k == AtMost(len, pipe.currentSize)
            after == Drop(pipe, Len(got))
<1>1. /\ Live' = Live /\ \A t \in Slots \ {s} : pipes'[t] = pipes[t]
      /\ q \in PipeRecord
      /\ q.buffer = pipe.buffer
      /\ q.currentSize = pipe.currentSize - k
      /\ q.startPosition = (pipe.startPosition + k) % PIPE_SIZE
      /\ call'[p] = NoCall \/ call'[p] \in RetrieveCalls
      /\ \A v \in Procs \ {p} : call'[v] = call[v]
  BY RetrieveStep DEF TableInv
<1>2. s \in Slots /\ pipe \in PipeRecord /\ len \in Nat
  BY LiveLemma DEF Live, TableInv
<1>3. /\ taken' = [taken EXCEPT ![s] = @ \o got]
      /\ ended' = [ended EXCEPT ![s] = @ \/ (Len(got) < len /\ EofStored(after))]
  BY DEF Retrieve
<1>4. /\ got \in Seq(Symbols) /\ Len(got) = k /\ k \in 0 .. pipe.currentSize
      /\ after.buffer = pipe.buffer
      /\ after.currentSize = pipe.currentSize - k
      /\ after.startPosition = (pipe.startPosition + k) % PIPE_SIZE
  BY <1>2, DropLemma
<1>5. EofStored(after) <=> EofStored(q)
  BY <1>1, <1>4 DEF EofStored, BufferPosition
<1>6. PipeRing(pipe)
  BY DEF ChannelInv, RingsInv
<1>7. /\ Contents(pipe) = got \o Contents(q)
      /\ EofStored(q) <=> EofStored(pipe)
      /\ PipeRing(q)
  <2>. HIDE DEF q, pipe
  <2>. QED  BY <1>1, <1>2, <1>6, DropContents DEF got
<1>8. /\ Contents(q) \in Seq(Symbols) /\ Len(Contents(q)) = pipe.currentSize - k
  BY <1>1, ContentsLemma
<1>. HIDE DEF got, after, k, q
<1>9. /\ taken'[s] = taken[s] \o got
      /\ ended'[s] = (ended[s] \/ (Len(got) < len /\ EofStored(q)))
      /\ \A t \in Slots \ {s} : taken'[t] = taken[t] /\ ended'[t] = ended[t]
      /\ taken[s] \in Seq(Symbols) /\ ended[s] \in BOOLEAN
      /\ taken'[s] \in Seq(Symbols)
  BY <1>2, <1>3, <1>4, <1>5, PrefixLemma DEF ChannelInv, HistInv
<1>10. HistInv'
  <2>1. taken' \in [Slots -> Seq(Symbols)]
    BY <1>3, <1>9 DEF ChannelInv, HistInv
  <2>2. ended' \in [Slots -> BOOLEAN]
    BY <1>3, <1>9 DEF ChannelInv, HistInv
  <2>3. \A t \in Slots \ Live : t # s
    OBVIOUS
  <2>. QED  BY <1>1, <1>9, <2>1, <2>2, <2>3 DEF ChannelInv, HistInv
<1>11. RingsInv'
  BY <1>1, <1>7 DEF ChannelInv, RingsInv, Live, q
<1>12. SendsForInv' /\ StillOpen'
  <2>1. \A v \in Procs : call'[v] \in TransmitCalls => call'[v] = call[v]
    BY <1>1, CallLemma
  <2>2. SendsForInv'
    BY <2>1 DEF SendsForInv, SendsFor, ChannelInv
  <2>3. \A t \in Slots : EofStored(pipes'[t]) => EofStored(pipes[t])
    BY <1>1, <1>7 DEF q
  <2>4. StillOpen'
    BY <2>1, <2>3, CallLemma DEF StillOpen, ChannelInv
  <2>. QED  BY <2>2, <2>4
<1>13. ASSUME NEW t \in Slots \ {s} PROVE AsChannel!Stay(t)
  BY <1>1, <1>9, <1>13, UndisturbedLemma
<1>14. AsChannel!Receive(s)
  <2>1. SentOn(s) = taken[s] \o Contents(pipe) /\ SentOn(s)' = taken'[s] \o Contents(q)
    BY <1>1 DEF SentOn, q
  <2>2. SentOn(s) = taken'[s] \o Contents(q)
    <3>1. (taken[s] \o got) \o Contents(q) = taken[s] \o (got \o Contents(q))
      BY <1>4, <1>8, <1>9, JoinLemma
    <3>. QED  BY <1>7, <1>9, <2>1, <3>1
  <2>3. ClosedOn(s)' = ClosedOn(s)
    BY <1>1, <1>7 DEF ClosedOn, q
  <2>4. IsPrefix(taken[s], taken'[s]) /\ IsPrefix(taken'[s], SentOn(s))
    BY <1>4, <1>8, <1>9, <2>2, PrefixLemma
  <2>5. ended'[s] => ended[s] \/ (ClosedOn(s) /\ taken'[s] = SentOn(s))
    <3>. SUFFICES ASSUME Len(got) < len, EofStored(q)
                  PROVE  ClosedOn(s) /\ taken'[s] = SentOn(s)
      BY <1>9
    <3>1. ClosedOn(s)
      BY <1>7 DEF ClosedOn
    <3>2. k = pipe.currentSize
      BY <1>2, <1>4 DEF k, AtMost, PipeRecord
    <3>3. Contents(q) = <<>>
      BY <1>2, <1>8, <3>2, EmptySeq DEF PipeRecord
    <3>. QED  BY <1>9, <2>2, <3>1, <3>3, ConcatEmptySeq
  <2>6. ended[s] => ended'[s]
    BY <1>9
  <2>. QED  BY <1>2, <2>1, <2>2, <2>3, <2>4, <2>5, <2>6, ReceiveLemma
<1>15. AsChannel!Next
  BY <1>13, <1>14 DEF AsChannel!Next
<1>. QED  BY <1>10, <1>11, <1>12, <1>15 DEF ChannelInv

(* A pipe that is freed is a channel thrown away.                          *)
LEMMA ChannelFree ==
  ASSUME TableInv, TableInv', ChannelInv, NEW s, NEW victim, FreeOutcome(s, victim),
         taken' = [taken EXCEPT ![s] = <<>>], ended' = [ended EXCEPT ![s] = FALSE]
  PROVE  ChannelInv' /\ AsChannel!Next
<1>1. s \in Slots /\ s \in Live /\ Live' = Live \ {s}
  BY DEF FreeOutcome, Live
<1>2. \A t \in Live \ {s} : pipes'[t] = pipes[t]
  BY DEF FreeOutcome
<1>3. /\ taken'[s] = <<>> /\ ended'[s] = FALSE
      /\ \A t \in Slots \ {s} : taken'[t] = taken[t] /\ ended'[t] = ended[t]
      /\ taken' \in [Slots -> Seq(Symbols)] /\ ended' \in [Slots -> BOOLEAN]
  BY <1>1 DEF ChannelInv, HistInv
<1>4. HistInv'
  BY <1>1, <1>3 DEF ChannelInv, HistInv
<1>5. RingsInv'
  BY <1>1, <1>2 DEF ChannelInv, RingsInv
<1>6. \A q \in Procs : call'[q] \in TransmitCalls /\ ~call'[q].lost =>
        /\ call'[q] = call[q] /\ call[q].slot \in Live \ {s}
  BY CallLemma DEF FreeOutcome, TableInv, KeepsSlot
<1>7. SendsForInv' /\ StillOpen'
  BY <1>2, <1>6 DEF ChannelInv, SendsForInv, SendsFor, StillOpen
<1>8. ASSUME NEW t \in Slots \ {s} PROVE AsChannel!Stay(t)
  BY <1>1, <1>2, <1>3, <1>8, UndisturbedLemma
<1>9. AsChannel!Discard(s)
  <2>1. SentOn(s)' = <<>> \o <<>> /\ ~ClosedOn(s)'
    BY <1>1, <1>3 DEF SentOn, ClosedOn
  <2>2. <<>> \o <<>> = <<>>
    OBVIOUS
  <2>. QED  BY <1>1, <1>3, <2>1, <2>2, DiscardLemma
<1>10. AsChannel!Next
  BY <1>8, <1>9 DEF AsChannel!Next
<1>. QED  BY <1>4, <1>5, <1>7, <1>10 DEF ChannelInv

(* Whatever leaves the rings and the history alone leaves the channels     *)
(* alone; a pipe that is made is an empty one.                             *)
LEMMA ChannelSame ==
  ASSUME TableInv, TableInv', ChannelInv, UNCHANGED history,
         \A t \in Live : /\ t \in Live'
                         /\ pipes'[t].buffer = pipes[t].buffer
                         /\ pipes'[t].startPosition = pipes[t].startPosition
                         /\ pipes'[t].currentSize = pipes[t].currentSize,
         \A t \in Live' \ Live : /\ pipes'[t].buffer = NewPipe.buffer
                                 /\ pipes'[t].startPosition = NewPipe.startPosition
                                 /\ pipes'[t].currentSize = NewPipe.currentSize,
         \A q \in Procs : call'[q] \in TransmitCalls /\ ~call'[q].lost => call'[q] = call[q]
  PROVE  ChannelInv' /\ AsChannel!Next
<1>1. taken' = taken /\ ended' = ended
  BY DEF history
<1>2. \A t \in Live' : t \in Slots
  BY DEF Live
<1>3. ASSUME NEW t \in Live
      PROVE  /\ EofStored(pipes'[t]) <=> EofStored(pipes[t])
             /\ PipeRing(pipes'[t])
             /\ AsChannel!Stay(t)
  <2>1. t \in Slots /\ t \in Live' /\ PipeRing(pipes[t])
    BY <1>3 DEF Live, ChannelInv, RingsInv
  <2>. QED  BY <1>1, <1>3, <2>1, UndisturbedLemma
<1>4. ASSUME NEW t \in Live' \ Live
      PROVE  /\ ~EofStored(pipes'[t]) /\ PipeRing(pipes'[t]) /\ Contents(pipes'[t]) = <<>>
  <2>1. pipes'[t] \in PipeRecord /\ pipes'[t].currentSize = 0
        /\ \A i \in Cells : pipes'[t].buffer[i] # Eof
    <3>1. Blank \in Byte
      BY NamesAssumption DEF Blank
    <3>2. pipes'[t] \in PipeRecord
      BY <1>2, <1>4 DEF TableInv, TypeInv, Live
    <3>. QED  BY <1>4, <3>1, <3>2, BytesAssumption DEF NewPipe
  <2>2. BufferPosition(pipes'[t]) \in Cells /\ Contents(pipes'[t]) = <<>>
    BY <2>1, ContentsLemma, EmptySeq
  <2>. QED  BY <2>1, <2>2 DEF EofStored, PipeRing
<1>5. \A t \in Slots : \/ t \in Live
                       \/ t \in Live' \ Live
                       \/ t \notin Live /\ t \notin Live'
  OBVIOUS
<1>6. HistInv'
  <2>1. \A t \in Slots \ Live' : t \in Slots \ Live
    OBVIOUS
  <2>. QED  BY <1>1, <2>1 DEF ChannelInv, HistInv
<1>7. RingsInv'
  BY <1>2, <1>3, <1>4, <1>5 DEF RingsInv
<1>8. SendsForInv'
  BY DEF ChannelInv, SendsForInv, SendsFor
<1>9. StillOpen'
  <2>1. \A q \in Procs : call'[q] \in TransmitCalls /\ ~call'[q].lost => call[q].slot \in Live
    BY CallLemma DEF TableInv, KeepsSlot
  <2>. QED  BY <1>3, <2>1 DEF ChannelInv, StillOpen
<1>10. ASSUME NEW t \in Slots PROVE AsChannel!Stay(t)
  <2>1. CASE t \in Live
    BY <1>3, <2>1
  <2>2. CASE t \in Live' \ Live
    <3>1. taken[t] = <<>>
      BY <2>2 DEF ChannelInv, HistInv
    <3>2. SentOn(t)' = SentOn(t) /\ ClosedOn(t)' = ClosedOn(t)
      BY <1>1, <1>4, <2>2, <3>1 DEF SentOn, ClosedOn
    <3>. QED  BY <1>1, <3>2, StayLemma
  <2>3. CASE t \notin Live /\ t \notin Live'
    BY <1>1, <2>3, UndisturbedLemma
  <2>. QED  BY <1>5, <2>1, <2>2, <2>3
<1>11. AsChannel!Next
  BY <1>10 DEF AsChannel!Next
<1>. QED  BY <1>6, <1>7, <1>8, <1>9, <1>11 DEF ChannelInv

LEMMA ChannelGrant ==
  ASSUME TableInv, TableInv', ChannelInv, NEW pid \in Procs, NEW s \in Slots,
         NEW mode \in {"read", "write"}, Grant(pid, s, mode), UNCHANGED <<call, history>>
  PROVE  ChannelInv' /\ AsChannel!Next
<1>1. /\ Live' = Live \cup {s}
      /\ \A t \in Slots \ {s} : pipes'[t] = pipes[t]
      /\ pipes'[s].startPosition = Opened(s).startPosition
      /\ pipes'[s].currentSize = Opened(s).currentSize
      /\ pipes'[s].buffer = Opened(s).buffer
  BY GrantStep DEF TableInv
<1>2. Opened(s) = IF s \in Live THEN pipes[s] ELSE NewPipe
  BY DEF Opened, Live
<1>3. \A t \in Live : t \in Slots
  BY DEF Live
<1>. HIDE DEF Opened
<1>. QED  BY <1>1, <1>2, <1>3, ChannelSame

LEMMA ChannelKill ==
  ASSUME TableInv, TableInv', EndsInv, ChannelInv, NEW p \in Procs, NEW victim \in Procs,
         KillProcess(p, victim)
  PROVE  ChannelInv' /\ AsChannel!Next
<1>. DEFINE t == fds[victim]
<1>1. KillOutcome(p, victim)
  BY KillChanges DEF TableInv
<1>2. CASE FreeOutcome(t, victim) /\ Reads(victim, t)
  <2>1. FreePipe(t)
    BY <1>2 DEF KillProcess, Reads, Holds
  <2>2. taken' = [taken EXCEPT ![t] = <<>>] /\ ended' = [ended EXCEPT ![t] = FALSE]
    BY <2>1 DEF FreePipe
  <2>. HIDE DEF t
  <2>. QED  BY <1>2, <2>2, ChannelFree
<1>3. CASE ~Reads(victim, t)
  <2>1. UNCHANGED history
    BY <1>3 DEF KillProcess
  <2>2. ASSUME NEW s \in Live, NEW c \in TransmitCalls, c.slot = s, c.pid = victim,
               c.victim = victim, c.rest = <<Eof>>, ~c.lost, pipes[s].inputPid = victim,
               StartTransmit(p, c)
        PROVE  ChannelInv' /\ AsChannel!Next
    <3>1. SendsFor(c, p)
      BY <2>2, NamesAssumption DEF SendsFor
    <3>. QED  BY <2>1, <2>2, <3>1, ChannelTransmit
  <2>3. CASE /\ UNCHANGED pipes
             /\ \A q \in Procs : call'[q] = IF q = p \/ q = victim THEN NoCall ELSE call[q]
    <3>1. Live' = Live
      BY <2>3 DEF Live
    <3>2. \A q \in Procs : call'[q] \in TransmitCalls => call'[q] = call[q]
      BY <2>3, CallLemma
    <3>. QED  BY <2>1, <2>3, <3>1, <3>2, ChannelSame
  <2>4. \/ \E s \in Live : LET c == TransmitCall(victim, s, <<Eof>>, victim)
                           IN  /\ c \in TransmitCalls /\ c.slot = s /\ c.pid = victim
                               /\ c.victim = victim /\ c.rest = <<Eof>> /\ ~c.lost
                               /\ pipes[s].inputPid = victim
                               /\ StartTransmit(p, c)
        \/ /\ UNCHANGED pipes
           /\ \A q \in Procs : call'[q] = IF q = p \/ q = victim THEN NoCall ELSE call[q]
    BY <1>1, <1>3 DEF KillOutcome
  <2>. QED  BY <2>2, <2>3, <2>4
<1>4. (FreeOutcome(t, victim) /\ Reads(victim, t)) \/ ~Reads(victim, t)
  BY <1>1 DEF KillOutcome
<1>. QED  BY <1>2, <1>3, <1>4

LEMMA ChannelInit == Init => ChannelInv /\ AsChannel!Init
<1>. SUFFICES ASSUME Init PROVE ChannelInv /\ AsChannel!Init
  OBVIOUS
<1>1. /\ Live = {} /\ \A p \in Procs : call[p] = NoCall
      /\ taken = [s \in Slots |-> <<>>] /\ ended = [s \in Slots |-> FALSE]
  BY DEF Init, Live
<1>2. <<>> \in Seq(Symbols) /\ <<>> \o <<>> = <<>>
  BY EmptySeq
<1>3. ChannelInv
  BY <1>1, <1>2, CallLemma DEF ChannelInv, HistInv, RingsInv, SendsForInv, StillOpen
<1>4. AsChannel!Init
  BY <1>1, <1>2 DEF AsChannel!Init
<1>. QED  BY <1>3, <1>4

LEMMA ChannelStep ==
  ASSUME "reuse" \notin Calls, TableInv, TableInv', EndsInv, ChannelInv, [Next]_vars
  PROVE  ChannelInv' /\ AsChannel!Next
<1>1. CASE UNCHANGED vars
  <2>1. /\ UNCHANGED pipes /\ UNCHANGED call /\ UNCHANGED history
    BY <1>1 DEF vars, procVars
  <2>2. Live' = Live
    BY <2>1 DEF Live
  <2>. QED  BY <2>1, <2>2, ChannelSame
<1>2. CASE GetPipe(Shell)
  <2>1. UNCHANGED call /\ UNCHANGED history
    BY <1>2 DEF GetPipe, procVars
  <2>2. CASE UNCHANGED pipes
    <3>1. Live' = Live
      BY <2>2 DEF Live
    <3>. QED  BY <2>1, <2>2, <3>1, ChannelSame
  <2>3. CASE ~(qtyPipes >= MAX_PIPES)
    <3>. DEFINE n == NextFreePipe
    <3>1. n \in Slots \ Live
      BY <1>2, <2>3, NextFreePipeLemma DEF TableInv, GetPipe
    <3>2. pipes' = [pipes EXCEPT ![n] = NewPipe]
      BY <1>2, <2>3 DEF GetPipe
    <3>. HIDE DEF n
    <3>3. pipes'[n] = NewPipe /\ \A t \in Slots \ {n} : pipes'[t] = pipes[t]
      BY <3>1, <3>2 DEF TableInv, TypeInv
    <3>4. /\ \A t \in Live : t \in Live' /\ pipes'[t] = pipes[t]
          /\ \A t \in Live' \ Live : pipes'[t] = NewPipe
      BY <3>1, <3>3, NewPipeLemma, NamesAssumption DEF Live
    <3>. QED  BY <2>1, <3>4, ChannelSame
  <2>. QED  BY <1>2, <2>2, <2>3 DEF GetPipe
<1>3. ASSUME NEW child \in Procs \ {Shell}, Spawn(Shell, child)
      PROVE  ChannelInv' /\ AsChannel!Next
  <2>. DEFINE s == handle[1]
              mode == IF handle[2] = "left" THEN "write" ELSE "read"
  <2>1. s \in Slots /\ mode \in {"read", "write"}
    BY <1>3 DEF Spawn, TableInv, TypeInv
  <2>2. Grant(child, s, mode) /\ UNCHANGED <<call, history>>
    BY <1>3 DEF Spawn
  <2>. HIDE DEF s, mode
  <2>. QED  BY <2>1, <2>2, ChannelGrant
<1>4. ASSUME NEW p \in Procs, NEW s \in Slots, NEW bytes \in Messages, Write(p, s, bytes)
      PROVE  ChannelInv' /\ AsChannel!Next
  <2>. DEFINE c == TransmitCall(p, s, bytes, NoPid)
  <2>1. /\ c \in TransmitCalls /\ c.slot = s /\ c.pid = p /\ c.victim = NoPid /\ ~c.lost
    BY WriteCallLemma DEF TransmitCall
  <2>2. /\ s \in Live /\ StartTransmit(p, c) /\ pipes[s].inputPid = p
        /\ ~EofStored(pipes[s]) /\ UNCHANGED history
    BY <1>4 DEF Write
  <2>. HIDE DEF c
  <2>3. SendsFor(c, p)
    BY <2>1 DEF SendsFor
  <2>. QED  BY <2>1, <2>2, <2>3, ChannelTransmit
<1>5. ASSUME NEW p \in Procs, NEW s \in Slots, NEW len \in Lens, Read(p, s, len)
      PROVE  ChannelInv' /\ AsChannel!Next
  <2>1. s \in Live /\ len \in Nat \ {0}
    BY <1>5, NamesAssumption DEF Read
  <2>2. CASE Empty(pipes[s])
    <3>1. /\ pipes' = [pipes EXCEPT ![s].isBlocking = TRUE]
          /\ call' = [call EXCEPT ![p] = ReadCall(s, len)] /\ UNCHANGED history
      BY <1>5, <2>2 DEF Read, ReadCall
    <3>2. /\ call'[p] \in RetrieveCalls /\ \A q \in Procs \ {p} : call'[q] = call[q]
      BY <2>1, <3>1, ReadWaitStep DEF TableInv
    <3>3. \A q \in Procs : call'[q] \in TransmitCalls => call'[q] = call[q]
      BY <3>2, CallLemma
    <3>4. /\ Live' = Live
          /\ \A t \in Slots \ {s} : pipes'[t] = pipes[t]
          /\ pipes'[s].startPosition = pipes[s].startPosition
          /\ pipes'[s].buffer = pipes[s].buffer
          /\ pipes'[s].currentSize = pipes[s].currentSize
      BY <2>1, <3>1, MarkedLemma DEF TableInv
    <3>5. \A t \in Live : t \in Slots
      BY DEF Live
    <3>. QED  BY <3>1, <3>3, <3>4, <3>5, ChannelSame
  <2>3. CASE ~Empty(pipes[s])
    BY <1>5, <2>1, <2>3, ChannelRetrieve DEF Read
  <2>. QED  BY <2>2, <2>3
<1>6. ASSUME NEW p \in Procs, ResumeTransmit(p) PROVE ChannelInv' /\ AsChannel!Next
  <2>. DEFINE c == call[p]
  <2>1. c \in TransmitCalls /\ UNCHANGED history
    BY <1>6, MyCallLemma DEF ResumeTransmit, TableInv
  <2>2. CASE c.slot \in Live /\ ~c.lost /\ Transmit(p, c)
    <3>1. /\ pipes[c.slot].inputPid = c.pid /\ SendsFor(c, p)
          /\ c.rest # <<Eof>> => ~EofStored(pipes[c.slot])
      BY <2>1, <2>2, CallLemma
         DEF EndsInv, WriterKeepsPipe, ChannelInv, SendsForInv, StillOpen
    <3>. HIDE DEF c
    <3>. QED  BY <2>1, <2>2, <3>1, ChannelTransmit
  <2>3. CASE Finish(p, c.victim, status) /\ UNCHANGED pipes
    <3>1. Live' = Live
      BY <2>3 DEF Live
    <3>2. \A q \in Procs : call'[q] \in {call[q], NoCall}
      BY <2>3 DEF Finish, Without
    <3>3. \A q \in Procs : call'[q] \in TransmitCalls => call'[q] = call[q]
      BY <3>2, CallLemma
    <3>. QED  BY <2>1, <2>3, <3>1, <3>3, ChannelSame
  <2>4. c.lost \in BOOLEAN
    BY <2>1, CallLemma
  <2>. QED  BY <1>6, <2>2, <2>3, <2>4 DEF ResumeTransmit
<1>7. ASSUME NEW p \in Procs, ResumeRetrieve(p) PROVE ChannelInv' /\ AsChannel!Next
  <2>. DEFINE c == call[p]
  <2>1. c \in RetrieveCalls /\ ~c.lost /\ c.slot \in Live
    BY <1>7, MyCallLemma DEF ResumeRetrieve, TableInv, EndsInv, ReaderKeepsPipe
  <2>2. Retrieve(p, c.slot, c.len)
    BY <1>7, <2>1 DEF ResumeRetrieve
  <2>. QED  BY <2>1, <2>2, CallLemma, ChannelRetrieve
<1>8. ASSUME NEW p \in Procs, Exit(p) PROVE ChannelInv' /\ AsChannel!Next
  BY <1>8, ChannelKill DEF Exit
<1>9. ASSUME NEW p \in Procs, NEW v \in Procs, Kill(p, v) PROVE ChannelInv' /\ AsChannel!Next
  BY <1>9, ChannelKill DEF Kill
<1>10. ASSUME NEW p \in Procs, NEW s \in Slots, Close(p, s)
       PROVE  ChannelInv' /\ AsChannel!Next
  <2>1. CASE /\ Holds(p, s, "inputPid") /\ UNCHANGED history
             /\ StartTransmit(p, TransmitCall(p, s, <<Eof>>, NoPid))
    <3>. DEFINE c == TransmitCall(p, s, <<Eof>>, NoPid)
    <3>1. /\ c \in TransmitCalls /\ c.slot = s /\ c.pid = p /\ s \in Live
          /\ c.victim = NoPid /\ ~c.lost /\ c.rest = <<Eof>>
      BY <2>1, EofCallLemma DEF Holds, TransmitCall
    <3>2. StartTransmit(p, c) /\ pipes[s].inputPid = p /\ UNCHANGED history
      BY <2>1 DEF Holds
    <3>. HIDE DEF c
    <3>3. SendsFor(c, p)
      BY <3>1 DEF SendsFor
    <3>. QED  BY <3>1, <3>2, <3>3, ChannelTransmit
  <2>2. CASE /\ Reads(p, s) /\ FreePipe(s) /\ call' = Losing(call, s)
    <3>1. call[p] = NoCall
      BY <1>10 DEF Close, InUser
    <3>2. s \in Live /\ pipes[s].outputPid = p
      BY <2>2 DEF Reads, Holds
    <3>3. Live' = Live \ {s} /\ \A t \in Slots \ {s} : pipes'[t] = pipes[t]
      BY <2>2, <3>2, FreeStep DEF TableInv
    <3>4. /\ \A q \in Procs : IF call[q] # NoCall /\ call[q].slot = s
                              THEN call'[q] # NoCall /\ call'[q].lost
                              ELSE call'[q] = call[q]
          /\ \A q \in Procs : call[q] \in TransmitCalls =>
               /\ call'[q] \in TransmitCalls
               /\ call'[q].pid = call[q].pid /\ call'[q].victim = call[q].victim
      BY <2>2, LosingLemma DEF TableInv, TypeInv
    <3>5. FreeOutcome(s, p)
      BY <3>1, <3>2, <3>3, <3>4 DEF FreeOutcome, Live
    <3>6. taken' = [taken EXCEPT ![s] = <<>>] /\ ended' = [ended EXCEPT ![s] = FALSE]
      BY <2>2 DEF FreePipe
    <3>. QED  BY <3>5, <3>6, ChannelFree
  <2>. QED  BY <1>10, <2>1, <2>2 DEF Close
<1>11. ASSUME NEW p \in Procs, NEW s \in Slots, NEW mode \in {"read", "write"},
              Open(p, s, mode)
       PROVE  ChannelInv' /\ AsChannel!Next
  BY <1>11, ChannelGrant DEF Open, procVars
<1>12. ASSUME NEW v \in Procs, Unblock(v) PROVE ChannelInv' /\ AsChannel!Next
  <2>1. UNCHANGED pipes /\ UNCHANGED call /\ UNCHANGED history
    BY <1>12 DEF Unblock
  <2>2. Live' = Live
    BY <2>1 DEF Live
  <2>. QED  BY <2>1, <2>2, ChannelSame
<1>. QED
  BY <1>1, <1>2, <1>3, <1>4, <1>5, <1>6, <1>7, <1>8, <1>9, <1>10, <1>11, <1>12
     DEF Next, Step

(* A pipe is a byte channel whatever the processes do with it (open, close,*)
(* kill, leave early, be woken by somebody else): bytes come out in the    *)
(* order they went in, none twice and none lost, at most PIPE_SIZE under   *)
(* way, the end after the last one and no byte after the end              *)
(* (transmitPipeData and retrievePipeData, pipeManager.c).  Left out is    *)
(* that a pipe is allocated where the one a writer waits for was freed.    *)
THEOREM ImplementsChannelHolds ==
  ASSUME "reuse" \notin Calls
  PROVE  Spec => ImplementsChannel
<1>. DEFINE Inv == TableInv /\ EndsInv /\ ChannelInv
<1>1. Init => Inv /\ AsChannel!Init
  BY TableInit, EndsInit, ChannelInit
<1>2. Inv /\ [Next]_vars => Inv'
  BY TableStep, EndsStep, ChannelStep
<1>3. Inv /\ [Next]_vars => AsChannel!Next
  BY TableStep, EndsStep, ChannelStep
<1>. HIDE DEF Inv
<1>. QED
  BY <1>1, <1>2, <1>3, PTL DEF Spec, ImplementsChannel, AsChannel!Spec

-----------------------------------------------------------------------------
(* In a pipeline left alone nobody is stranded: while a writer is inside a *)
(* call the stream has no end, and the reader, which dies only after the   *)
(* end, does not free the pipe.                                            *)
StrandedInv ==
  /\ NobodyStranded
  /\ \A p \in Procs : call[p] \in TransmitCalls => ~EofStored(pipes[call[p].slot])
  /\ \A s \in Live : ended[s] => EofStored(pipes[s])

LEMMA StrandedInit == Init => StrandedInv
<1>. SUFFICES ASSUME Init PROVE StrandedInv
  OBVIOUS
<1>1. Live = {}
  BY DEF Init, Live
<1>. QED  BY <1>1, CallLemma DEF Init, StrandedInv, NobodyStranded

(* One round of the owner of the writing end.                              *)
LEMMA StrandedTransmit ==
  ASSUME TableInv, TableInv', EndsInv, PipelineInv, AloneInv, ChannelInv, StrandedInv,
         UNCHANGED history,
         NEW p \in Procs, NEW c \in TransmitCalls, c.slot \in Live, c.pid = p,
         ~c.lost, ~EofStored(pipes[c.slot]), pipes[c.slot].inputPid = p,
         Transmit(p, c) \/ StartTransmit(p, c), TransmitOutcome(p, c)
  PROVE  StrandedInv'
<1>1. /\ Live' = Live /\ \A t \in Live : t = c.slot
      /\ c.slot \in Slots
  BY CallLemma DEF TransmitOutcome, SameEnds, PipelineInv, OnePipeline
<1>2. /\ \A q \in Procs \ {p} : call'[q] \in {call[q], NoCall}
      /\ call'[p] = NoCall \/ GoesOn(c, call'[p])
  BY DEF TransmitOutcome
<1>3. NobodyStranded'
  BY <1>2 DEF StrandedInv, NobodyStranded, GoesOn
<1>4. ASSUME NEW q \in Procs, call'[q] \in TransmitCalls
      PROVE  ~EofStored(pipes'[call'[q].slot])
  <2>1. call'[q] # NoCall /\ call'[q].op = "transmit" /\ NoCall.op = "none"
    BY <1>4, CallLemma
  <2>2. q = p
    <3>1. SUFFICES ASSUME q # p PROVE FALSE
      OBVIOUS
    <3>2. call'[q] = call[q]
      BY <1>2, <2>1, <3>1
    <3>3. call[q] \in TransmitCalls /\ call[q] # NoCall /\ ~call[q].lost
      BY <1>3, <1>4, <2>1, <3>2 DEF NobodyStranded
    <3>4. call[q].slot \in Live /\ call[q].pid = q
      BY <3>3 DEF TableInv, KeepsSlot, AloneInv, OwnCalls
    <3>5. pipes[call[q].slot].inputPid = q
      BY <3>2, <3>3, <3>4, <2>1 DEF EndsInv, WriterKeepsPipe
    <3>. QED  BY <1>1, <3>1, <3>4, <3>5
  <2>3. GoesOn(c, call'[p])
    BY <1>2, <2>1, <2>2
  <2>4. RingSends(c.slot, c)
    BY RingTransmit DEF ChannelInv, RingsInv, TableInv
  <2>5. EofStored(pipes'[c.slot]) => c.rest = <<Eof>> /\ ~Full(pipes[c.slot])
    BY <2>4 DEF RingSends
  <2>6. Full(pipes'[c.slot])
    BY <2>1, <2>2 DEF TransmitOutcome
  <2>7. c.rest = <<Eof>> => Full(pipes[c.slot])
    BY <2>4, <2>6 DEF RingSends, Full
  <2>8. call'[p].slot = c.slot
    BY <2>3 DEF GoesOn
  <2>. QED  BY <2>2, <2>5, <2>7, <2>8
<1>5. \A s \in Live' : ended'[s] => EofStored(pipes'[s])
  BY <1>1 DEF StrandedInv, history
<1>. QED  BY <1>3, <1>4, <1>5 DEF StrandedInv

(* One round of the reader: the end stays where it is.                     *)
LEMMA StrandedRetrieve ==
  ASSUME TableInv, PipelineInv, StrandedInv, NEW p \in Procs, NEW s \in Live,
         NEW len \in Nat \ {0}, Retrieve(p, s, len),
         ended \in [Slots -> BOOLEAN]
  PROVE  StrandedInv'
<1>. DEFINE k == AtMost(len, pipes[s].currentSize)
            after == Drop(pipes[s], Len(Given(pipes[s], len)))
<1>1. /\ Live' = Live /\ s \in Slots /\ \A t \in Live : t = s
      /\ pipes[s] \in PipeRecord /\ len \in Nat
      /\ pipes'[s].buffer = pipes[s].buffer
      /\ pipes'[s].currentSize = pipes[s].currentSize - k
      /\ pipes'[s].startPosition = (pipes[s].startPosition + k) % PIPE_SIZE
      /\ call'[p] = NoCall \/ (call'[p] \in RetrieveCalls /\ ~call'[p].lost)
      /\ \A q \in Procs \ {p} : call'[q] = call[q]
  BY RetrieveStep, LiveLemma DEF TableInv, Live, PipelineInv, OnePipeline
<1>2. /\ after.buffer = pipes[s].buffer /\ after.currentSize = pipes[s].currentSize - k
      /\ after.startPosition = (pipes[s].startPosition + k) % PIPE_SIZE
  BY <1>1, DropLemma
<1>3. EofStored(after) <=> EofStored(pipes'[s])
  BY <1>1, <1>2 DEF EofStored, BufferPosition
<1>4. EofStored(pipes'[s]) <=> EofStored(pipes[s])
  <2>1. /\ pipes[s].startPosition \in Cells /\ pipes[s].currentSize \in 0 .. PIPE_SIZE
        /\ k \in 0 .. pipes[s].currentSize
    BY <1>1 DEF PipeRecord, AtMost
  <2>. DEFINE a == pipes[s].startPosition
              n == pipes[s].currentSize
  <2>. HIDE DEF k
  <2>2. (((a + k) % PIPE_SIZE) + (n - k)) % PIPE_SIZE = (a + n) % PIPE_SIZE
    <3>. HIDE DEF a, n
    <3>1. a \in Cells /\ n \in 0 .. PIPE_SIZE /\ k \in 0 .. n
      BY <2>1 DEF a, n
    <3>. QED  BY <3>1, RingLemma
  <2>. QED  BY <1>1, <2>2 DEF EofStored, BufferPosition
<1>5. NobodyStranded'
  BY <1>1, CallLemma DEF StrandedInv, NobodyStranded
<1>6. \A q \in Procs : call'[q] \in TransmitCalls => ~EofStored(pipes'[call'[q].slot])
  <2>1. ASSUME NEW q \in Procs, call'[q] \in TransmitCalls
        PROVE  call'[q] = call[q] /\ call[q].slot = s
    <3>1. call'[q] = call[q] /\ call[q] # NoCall
      BY <1>1, <2>1, CallLemma
    <3>. QED  BY <1>1, <3>1 DEF StrandedInv, NobodyStranded, TableInv, KeepsSlot
  <2>. QED  BY <1>4, <2>1 DEF StrandedInv
<1>7. \A t \in Live' : ended'[t] => EofStored(pipes'[t])
  <2>1. ended'[s] => ended[s] \/ EofStored(after)
    BY <1>1 DEF Retrieve
  <2>. QED  BY <1>1, <1>3, <1>4, <2>1 DEF StrandedInv
<1>. QED  BY <1>5, <1>6, <1>7 DEF StrandedInv

(* Whatever leaves the pipes and who ended alone, and only ends calls.     *)
LEMMA StrandedSame ==
  ASSUME StrandedInv, UNCHANGED pipes, UNCHANGED ended,
         \A q \in Procs : call'[q] \in {call[q], NoCall}
  PROVE  StrandedInv'
<1>1. Live' = Live
  BY DEF Live
<1>2. \A q \in Procs : call'[q] \in TransmitCalls => call'[q] = call[q]
  BY CallLemma
<1>. QED  BY <1>1, <1>2 DEF StrandedInv, NobodyStranded

LEMMA StrandedStep ==
  ASSUME Calls = {}
  PROVE  /\ TableInv /\ TableInv' /\ EndsInv /\ PipelineInv /\ AloneInv /\ ChannelInv
         /\ StrandedInv /\ [Next]_vars
         => StrandedInv'
<1>. SUFFICES ASSUME TableInv, TableInv', EndsInv, PipelineInv, AloneInv, ChannelInv,
                     StrandedInv, [Next]_vars
              PROVE  StrandedInv'
  OBVIOUS
<1>1. CASE UNCHANGED vars
  BY <1>1, StrandedSame DEF vars, procVars, history
<1>2. CASE GetPipe(Shell)
  <2>1. CASE qtyPipes >= MAX_PIPES
    BY <1>2, <2>1, StrandedSame DEF GetPipe, procVars, history
  <2>2. CASE ~(qtyPipes >= MAX_PIPES)
    <3>. DEFINE n == NextFreePipe
    <3>1. n \in Slots \ Live
      BY <1>2, <2>2, NextFreePipeLemma DEF TableInv, GetPipe
    <3>2. /\ pipes' = [pipes EXCEPT ![n] = NewPipe] /\ UNCHANGED procVars
          /\ UNCHANGED history
      BY <1>2, <2>2 DEF GetPipe
    <3>. HIDE DEF n
    <3>3. /\ \A t \in Live : pipes'[t] = pipes[t]
          /\ Live' \subseteq Live \cup {n}
      BY <3>1, <3>2 DEF TableInv, TypeInv, Live
    <3>4. ~ended[n]
      BY <3>1 DEF ChannelInv, HistInv
    <3>5. \A q \in Procs : call[q] \in TransmitCalls => call[q].slot \in Live
      BY CallLemma DEF StrandedInv, NobodyStranded, TableInv, KeepsSlot
    <3>. QED  BY <3>2, <3>3, <3>4, <3>5 DEF StrandedInv, NobodyStranded, procVars, history
  <2>. QED  BY <2>1, <2>2
<1>3. ASSUME NEW child \in Procs \ {Shell}, Spawn(Shell, child) PROVE StrandedInv'
  <2>. DEFINE s == handle[1]
              mode == IF handle[2] = "left" THEN "write" ELSE "read"
  <2>1. mode \in {"read", "write"} /\ Grant(child, s, mode) /\ UNCHANGED <<call, history>>
        /\ handle # <<>>
    BY <1>3 DEF Spawn
  <2>2. s \in Live /\ s \in Slots
    BY <2>1 DEF PipelineInv, OnePipeline, Live
  <2>3. Opened(s) = pipes[s]
    BY <2>2 DEF Opened, Live
  <2>. HIDE DEF s, mode
  <2>4. /\ Live' = Live \cup {s}
        /\ \A t \in Slots \ {s} : pipes'[t] = pipes[t]
        /\ pipes'[s].startPosition = Opened(s).startPosition
        /\ pipes'[s].currentSize = Opened(s).currentSize
        /\ pipes'[s].buffer = Opened(s).buffer
    BY <2>1, <2>2, GrantStep DEF TableInv
  <2>5. \A t \in Live : EofStored(pipes'[t]) <=> EofStored(pipes[t])
    BY <2>3, <2>4 DEF EofStored, BufferPosition, Live
  <2>6. \A q \in Procs : call[q] \in TransmitCalls => call[q].slot \in Live
    BY CallLemma DEF StrandedInv, NobodyStranded, TableInv, KeepsSlot
  <2>. QED  BY <2>1, <2>2, <2>4, <2>5, <2>6 DEF StrandedInv, NobodyStranded, history
<1>4. ASSUME NEW p \in Procs, NEW s \in Slots, NEW bytes \in Messages, Write(p, s, bytes)
      PROVE  StrandedInv'
  <2>. DEFINE c == TransmitCall(p, s, bytes, NoPid)
  <2>1. c \in TransmitCalls /\ c.slot = s /\ c.pid = p /\ ~c.lost
    BY WriteCallLemma DEF TransmitCall
  <2>2. /\ s \in Live /\ StartTransmit(p, c) /\ pipes[s].inputPid = p
        /\ ~EofStored(pipes[s]) /\ UNCHANGED history
    BY <1>4 DEF Write
  <2>. HIDE DEF c
  <2>. QED  BY <2>1, <2>2, StartTransmitChanges, StrandedTransmit DEF TableInv
<1>5. ASSUME NEW p \in Procs, NEW s \in Slots, NEW len \in Lens, Read(p, s, len)
      PROVE  StrandedInv'
  <2>1. s \in Live /\ len \in Nat \ {0}
    BY <1>5, NamesAssumption DEF Read
  <2>2. CASE Empty(pipes[s])
    <3>1. /\ pipes' = [pipes EXCEPT ![s].isBlocking = TRUE]
          /\ call' = [call EXCEPT ![p] = ReadCall(s, len)]
          /\ UNCHANGED history
      BY <1>5, <2>2 DEF Read, ReadCall
    <3>2. /\ call'[p] \in RetrieveCalls /\ ~call'[p].lost
          /\ \A q \in Procs \ {p} : call'[q] = call[q]
      BY <2>1, <3>1, ReadWaitStep DEF TableInv
    <3>3. /\ Live' = Live /\ \A t \in Slots \ {s} : pipes'[t] = pipes[t]
          /\ EofStored(pipes'[s]) <=> EofStored(pipes[s])
      BY <2>1, <3>1, MarkedLemma DEF TableInv, EofStored, BufferPosition
    <3>4. \A q \in Procs : call[q] \in TransmitCalls => call[q].slot \in Slots
      BY CallLemma
    <3>5. \A q \in Procs : call'[q] \in TransmitCalls => call'[q] = call[q]
      BY <3>2, CallLemma
    <3>6. NobodyStranded'
      BY <3>2 DEF StrandedInv, NobodyStranded
    <3>7. ASSUME NEW t \in Slots
          PROVE  EofStored(pipes'[t]) <=> EofStored(pipes[t])
      <4>1. CASE t = s
        BY <3>3, <4>1
      <4>2. CASE t # s
        BY <3>3, <4>2 DEF EofStored, BufferPosition
      <4>. QED  BY <4>1, <4>2
    <3>8. \A q \in Procs : call'[q] \in TransmitCalls => ~EofStored(pipes'[call'[q].slot])
      BY <3>4, <3>5, <3>7 DEF StrandedInv
    <3>9. \A t \in Live' : ended'[t] => EofStored(pipes'[t])
      BY <3>1, <3>3, <3>7 DEF StrandedInv, history, Live
    <3>. QED  BY <3>6, <3>8, <3>9 DEF StrandedInv
  <2>3. CASE ~Empty(pipes[s])
    BY <1>5, <2>1, <2>3, StrandedRetrieve DEF Read, ChannelInv, HistInv
  <2>. QED  BY <2>2, <2>3
<1>6. ASSUME NEW p \in Procs, ResumeTransmit(p) PROVE StrandedInv'
  <2>. DEFINE c == call[p]
  <2>1. /\ c \in TransmitCalls /\ c # NoCall /\ ~c.lost /\ c.slot \in Live
        /\ UNCHANGED history
    BY <1>6, MyCallLemma
       DEF ResumeTransmit, TableInv, KeepsSlot, StrandedInv, NobodyStranded
  <2>2. c.pid = p /\ ~EofStored(pipes[c.slot]) /\ c.op = "transmit"
    BY <1>6, <2>1 DEF ResumeTransmit, AloneInv, OwnCalls, StrandedInv
  <2>3. pipes[c.slot].inputPid = p
    BY <2>1, <2>2 DEF EndsInv, WriterKeepsPipe
  <2>4. Transmit(p, c)
    BY <1>6, <2>1 DEF ResumeTransmit
  <2>5. TransmitOutcome(p, c)
    BY <2>1, <2>4, TransmitChanges DEF TableInv
  <2>. QED  BY <2>1, <2>2, <2>3, <2>4, <2>5, StrandedTransmit
<1>7. ASSUME NEW p \in Procs, ResumeRetrieve(p) PROVE StrandedInv'
  <2>. DEFINE c == call[p]
  <2>1. c \in RetrieveCalls /\ ~c.lost /\ c.slot \in Live
    BY <1>7, MyCallLemma DEF ResumeRetrieve, TableInv, EndsInv, ReaderKeepsPipe
  <2>2. Retrieve(p, c.slot, c.len)
    BY <1>7, <2>1 DEF ResumeRetrieve
  <2>. QED  BY <2>1, <2>2, CallLemma, StrandedRetrieve DEF ChannelInv, HistInv
<1>8. ASSUME NEW p \in Procs, Exit(p) PROVE StrandedInv'
  <2>1. /\ KillProcess(p, p) /\ call[p] = NoCall
        /\ p \in Readers => \A s \in Live : pipes[s].outputPid = p => ended[s]
    BY <1>8 DEF Exit, InUser
  <2>2. KillOutcome(p, p)
    BY <2>1, KillChanges DEF TableInv
  <2>3. CASE FreeOutcome(fds[p], p)
    <3>. DEFINE s == fds[p]
    <3>1. /\ s \in Live /\ Live' = {} /\ pipes[s].outputPid = p /\ p \in Readers
      BY <2>3, NamesAssumption DEF FreeOutcome, PipelineInv, OnePipeline, EndsAre
    <3>2. EofStored(pipes[s])
      BY <2>1, <3>1 DEF StrandedInv
    <3>3. ASSUME NEW q \in Procs, call[q] # NoCall, q # p, call[q].slot = s PROVE FALSE
      <4>1. call[q].op = "retrieve"
        BY <3>2, <3>3, CallLemma DEF TableInv, TypeInv, StrandedInv
      <4>. QED  BY <3>1, <3>3, <4>1 DEF EndsInv, ReaderKeepsPipe
    <3>. HIDE DEF s
    <3>4. \A q \in Procs : call'[q] = NoCall \/ (call'[q] = call[q] /\ call[q].slot # s)
      BY <2>3, <3>3 DEF FreeOutcome, s
    <3>5. NobodyStranded'
      BY <3>4 DEF StrandedInv, NobodyStranded
    <3>6. \A q \in Procs : call'[q] \notin TransmitCalls
      <4>1. ASSUME NEW q \in Procs, call'[q] \in TransmitCalls PROVE FALSE
        <5>1. call'[q] # NoCall /\ ~call'[q].lost
          BY <3>5, <4>1, CallLemma DEF NobodyStranded
        <5>. QED  BY <3>1, <5>1 DEF TableInv, KeepsSlot
      <4>. QED  BY <4>1
    <3>. QED  BY <3>1, <3>5, <3>6 DEF StrandedInv
  <2>4. CASE ~Reads(p, fds[p])
    <3>1. CASE Holds(p, fds[p], "inputPid") /\ ~EofStored(pipes[fds[p]])
      <4>. DEFINE s == fds[p]
                  c == TransmitCall(p, s, <<Eof>>, p)
      <4>1. s \in Live /\ s \in Slots /\ pipes[s].inputPid = p
        BY <3>1 DEF Holds, Live
      <4>2. StartTransmit(p, c) /\ UNCHANGED history
        BY <2>1, <3>1 DEF KillProcess
      <4>3. c \in TransmitCalls /\ c.slot = s /\ c.pid = p /\ ~c.lost
        BY <4>1, EofCallLemma DEF TransmitCall
      <4>4. ~EofStored(pipes[s])
        BY <3>1
      <4>. HIDE DEF c, s
      <4>. QED  BY <4>1, <4>2, <4>3, <4>4, StartTransmitChanges, StrandedTransmit DEF TableInv
    <3>2. CASE ~(Holds(p, fds[p], "inputPid") /\ ~EofStored(pipes[fds[p]]))
      <4>1. Finish(p, p, status) /\ UNCHANGED pipes /\ UNCHANGED history
        BY <2>1, <2>4, <3>2 DEF KillProcess
      <4>. QED  BY <4>1, StrandedSame DEF Finish, Without, history
    <3>. QED  BY <3>1, <3>2
  <2>. QED  BY <2>2, <2>3, <2>4 DEF KillOutcome
<1>9. ASSUME NEW p \in Procs, NEW v \in Procs, Kill(p, v) PROVE StrandedInv'
  BY <1>9 DEF Kill
<1>10. ASSUME NEW p \in Procs, NEW s \in Slots, Close(p, s) PROVE StrandedInv'
  BY <1>10 DEF Close
<1>11. ASSUME NEW p \in Procs, NEW s \in Slots, NEW mode \in {"read", "write"},
              Open(p, s, mode)
       PROVE  StrandedInv'
  BY <1>11 DEF Open
<1>12. ASSUME NEW v \in Procs, Unblock(v) PROVE StrandedInv'
  BY <1>12 DEF Unblock
<1>. QED
  BY <1>1, <1>2, <1>3, <1>4, <1>5, <1>6, <1>7, <1>8, <1>9, <1>10, <1>11, <1>12
     DEF Next, Step

-----------------------------------------------------------------------------
(* All of it at once, for the pipelines of the shell.                      *)
ShellInv == TableInv /\ EndsInv /\ PipelineInv /\ ChannelInv

LEMMA ShellPipelines ==
  ASSUME ShellOnly
  PROVE  /\ Init => ShellInv /\ AsChannel!Init
         /\ ShellInv /\ [Next]_vars => ShellInv' /\ AsChannel!Next
         /\ ShellInv => PipeTypeOK /\ SleepersWait /\ ReaderKeepsPipe
<1>1. "reuse" \notin Calls
  BY DEF ShellOnly
<1>2. Init => ShellInv /\ AsChannel!Init
  BY TableInit, EndsInit, PipelineInit, ChannelInit DEF ShellInv
<1>3. ShellInv /\ [Next]_vars => ShellInv' /\ AsChannel!Next
  BY <1>1, TableStep, EndsStep, PipelineStep, ChannelStep DEF ShellInv
<1>4. ShellInv => PipeTypeOK /\ SleepersWait /\ ReaderKeepsPipe
  BY SleepersLemma DEF ShellInv
<1>. QED  BY <1>2, <1>3, <1>4

LeftAloneInv == AloneInv /\ StrandedInv

LEMMA PipelineLeftAlone ==
  ASSUME Calls = {}
  PROVE  /\ Init => LeftAloneInv
         /\ ShellInv /\ LeftAloneInv /\ [Next]_vars => LeftAloneInv'
         /\ LeftAloneInv => NoFault /\ NobodyStranded
<1>1. ShellInv /\ LeftAloneInv /\ [Next]_vars => LeftAloneInv'
  BY TableStep, AloneStep, StrandedStep DEF ShellInv, LeftAloneInv
<1>. QED  BY <1>1, AloneInit, StrandedInit DEF AloneInv, StrandedInv, NoFault, LeftAloneInv

(* Nobody waits for ever for a pipe that is gone when a pipeline is left   *)
(* alone: its reader frees the pipe (pipeManager.c 122-124) only after the *)
(* end of the stream, which is the last thing its writer wrote.            *)
THEOREM NobodyStrandedHolds ==
  ASSUME Calls = {}
  PROVE  Spec => []NobodyStranded
<1>1. Init => ShellInv /\ LeftAloneInv
  BY ShellPipelines, PipelineLeftAlone DEF ShellOnly
<1>2. ShellInv /\ LeftAloneInv /\ [Next]_vars => (ShellInv /\ LeftAloneInv)'
  BY ShellPipelines, PipelineLeftAlone DEF ShellOnly
<1>3. ShellInv /\ LeftAloneInv => NobodyStranded
  BY PipelineLeftAlone
<1>. QED  BY <1>1, <1>2, <1>3, PTL DEF Spec
=============================================================================
