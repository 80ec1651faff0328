------------------------------ MODULE TestMemory ------------------------------
(***************************************************************************)
(* The test program Userland/.../tests/test_mm.c, run several times over   *)
(* at once, on any memory manager that is an Arena: it takes pieces until  *)
(* it has max_memory bytes or MAX_BLOCKS pieces, fills each with its       *)
(* number, checks every one, and gives them all back.                      *)
(***************************************************************************)
EXTENDS Arena, Sequences

CONSTANTS Programs, MAX_BLOCKS, max_memory

(* What the constants must satisfy; assumed where they are given values.   *)
TestMemoryAssumption == MAX_BLOCKS \in Nat \ {0} /\ max_memory \in Nat \ {0}

VARIABLES phase,     \* request, set, check or free
          mm_rqs,    \* the pieces of the round
          i,         \* the loop counter
          content,   \* what is in memory
          errors     \* programs that printed "test_mm ERROR"

testVars == <<phase, mm_rqs, i, content, errors>>
vars == <<handed, testVars>>

TestInit ==
  /\ Init
  /\ phase = [p \in Programs |-> "request"]
  /\ mm_rqs = [p \in Programs |-> <<>>] /\ i = [p \in Programs |-> 0]
  /\ content = [a \in Memory |-> 0] /\ errors = {}

Total(p) ==
  LET sum[n \in 0 .. Len(mm_rqs[p])] ==
        IF n = 0 THEN 0 ELSE sum[n - 1] + mm_rqs[p][n].size
  IN sum[Len(mm_rqs[p])]
WantsMore(p) == Len(mm_rqs[p]) < MAX_BLOCKS /\ Total(p) < max_memory

(* GetUniform(max) + 1, in 1 .. max for every max but 0.                   *)
Uniform(max) == 1 .. (IF max = 0 THEN 1 ELSE max)

(* allocMemory of a random size; NULL is tried again with another size, so *)
(* programs that hold all the memory between them ask for more for ever.   *)
Refused(p) ==
  phase[p] = "request" /\ WantsMore(p) /\ UNCHANGED vars
Request(p) ==
  /\ phase[p] = "request" /\ WantsMore(p)
  /\ \E size \in Uniform(max_memory - Total(p) - 1) : \E ptr \in Memory :
       Alloc([ptr |-> ptr, size |-> size])
  /\ mm_rqs' = [mm_rqs EXCEPT ![p] =
                  Append(@, CHOOSE piece \in handed' : piece \notin handed)]
  /\ UNCHANGED <<phase, i, content, errors>>
Requested(p) ==
  /\ phase[p] = "request" /\ ~WantsMore(p)
  /\ phase' = [phase EXCEPT ![p] = "set"] /\ i' = [i EXCEPT ![p] = 1]
  /\ UNCHANGED <<handed, mm_rqs, content, errors>>

(* The three loops over the pieces: one piece in a step.                   *)
Piece(p) == mm_rqs[p][i[p]]
Advance(p, next) ==
  IF i[p] < Len(mm_rqs[p])
  THEN i' = [i EXCEPT ![p] = @ + 1] /\ UNCHANGED phase
  ELSE i' = [i EXCEPT ![p] = 1] /\ phase' = [phase EXCEPT ![p] = next]
Filled(piece, n) ==
  [a \in Memory |-> IF a \in Bytes(piece) THEN n ELSE content[a]]
Set(p) ==
  /\ phase[p] = "set"
  /\ content' = Filled(Piece(p), i[p])
  /\ Advance(p, "check")
  /\ UNCHANGED <<handed, mm_rqs, errors>>
Memcheck(piece, n) == \A a \in Bytes(piece) : content[a] = n
Check(p) ==
  /\ phase[p] = "check"
  /\ errors' = IF Memcheck(Piece(p), i[p]) THEN errors ELSE errors \cup {p}
  /\ Advance(p, "free")
  /\ UNCHANGED <<handed, mm_rqs, content>>
FreeAll(p) ==
  /\ phase[p] = "free"
  /\ Free(Piece(p))
  /\ Advance(p, "request")
  /\ mm_rqs' = IF phase'[p] = "free" THEN mm_rqs ELSE [mm_rqs EXCEPT ![p] = <<>>]
  /\ UNCHANGED <<content, errors>>

TestNext == \E p \in Programs :
              Request(p) \/ Refused(p) \/ Requested(p) \/ Set(p) \/ Check(p) \/ FreeAll(p)

-----------------------------------------------------------------------------
(* The test never prints "test_mm ERROR" (test_mm.c 62-65): what was       *)
(* written stays until it is freed, with other programs at work.           *)
NoTestError == errors = {}

(* A round gives back all it took and nothing else: what is in use is what *)
(* some program still has to free.                                         *)
AllAccounted ==
  handed = UNION {{mm_rqs[p][n] : n \in (IF phase[p] = "free" THEN i[p] ELSE 1)
                                        .. Len(mm_rqs[p])} : p \in Programs}
=============================================================================
