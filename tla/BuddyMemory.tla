----------------------------- MODULE BuddyMemory -----------------------------
(***************************************************************************)
(* Kernel/memory/buddyMemoryManager.c: blocks of 2^exp bytes, each with a  *)
(* header at its first byte, and one doubly linked list of free blocks per *)
(* exponent.  Headers stay in memory when two blocks are merged, and are   *)
(* what freeMemory reads at the address of a buddy.                        *)
(***************************************************************************)
EXTENDS Integers, Sequences, FiniteSets, SequencesExt, FiniteSetsExt

CONSTANTS MIN_EXP, MaxExp,   \* exponents of the smallest and largest block
          HeaderSize,        \* sizeof(MemoryBlock)
          Sizes              \* the sizes that are requested

(* What the constants must satisfy; assumed where they are given values.  *)
BuddyAssumption ==
  /\ MIN_EXP \in Nat /\ MaxExp \in Nat /\ MIN_EXP <= MaxExp
  /\ HeaderSize \in Nat /\ HeaderSize <= 2^MIN_EXP
  /\ \A e \in 0 .. MaxExp : 2^e \in Nat \ {0} /\ 2^(e + 1) = 2 * 2^e    \* of ^

VARIABLES header,    \* address |-> [exp, used], as last written there
          free,      \* blocks[exp], each list first to last
          handed     \* history: the pieces in use

vars == <<header, free, handed>>

Exps == MIN_EXP .. MaxExp
Memory == 0 .. 2^MaxExp - 1
Addresses == {a \in Memory : a % 2^MIN_EXP = 0}
CreateBlock(exp) == [exp |-> exp, used |-> FALSE]
Garbage == {CreateBlock(e) : e \in Exps}

(* createMemoryManager: one free block of the largest size.                *)
Init ==
  /\ header = [a \in Addresses |-> IF a = 0 THEN CreateBlock(MaxExp) ELSE CreateBlock(MIN_EXP)]
  /\ free = [e \in Exps |-> IF e = MaxExp THEN <<0>> ELSE <<>>]
  /\ handed = {}

(* The loop of allocMemory: it stops at the largest block, fit or not.     *)
(* Mutant: the header is not counted.                                      *)
ExpForData(size) ==
  CHOOSE e \in Exps : /\ 2^e >= size \/ e = MaxExp
                      /\ \A d \in MIN_EXP .. e - 1 : 2^d < size
ExpFor(size) ==
  CHOOSE e \in Exps :
    /\ 2^e >= size + HeaderSize \/ e = MaxExp
    /\ \A d \in MIN_EXP .. e - 1 : 2^d < size + HeaderSize

(* The exponents down to exp that split() passes through from the first    *)
(* list that is not empty: its first block b, halved again and again, each *)
(* right half put at the head of a list, all of them empty so far.         *)
SplitFrom(exp) == {e \in Exps : e >= exp /\ free[e] # <<>>
                                /\ \A d \in exp .. e - 1 : free[d] = <<>>}
AfterSplit(from, exp, garbage) ==
  LET b == Head(free[from])
      halves == exp .. from - 1
  IN /\ header' = [a \in Addresses |->
          IF a = b THEN [exp |-> exp, used |-> TRUE]
          ELSE IF a \in b + 1 .. b + 2^exp - 1 THEN garbage
          ELSE IF \E e \in halves : a = b + 2^e
               THEN CreateBlock(CHOOSE e \in halves : a = b + 2^e)
               ELSE header[a]]
     /\ free' = [e \in Exps |-> CASE e = from -> Tail(free[e])
                                  [] e \in halves -> <<b + 2^e>>
                                  [] OTHER -> free[e]]
(* allocMemory; what the holder then writes over old headers is Garbage.   *)
AllocMemory(size) ==
  \E from \in SplitFrom(ExpFor(size)) : \E garbage \in Garbage :
    /\ AfterSplit(from, ExpFor(size), garbage)
    /\ handed' = handed \cup {[ptr |-> Head(free[from]) + HeaderSize, size |-> size]}

(* removeMemoryBlock.                                                      *)
RemoveBlock(list, b) == RemoveAt(list, CHOOSE i \in 1 .. Len(list) : list[i] = b)
(* freeMemory: merge with the buddy at relPos ^ 2^exp, if it is free and   *)
(* of the same size, and look for the buddy of the result.                 *)
Buddy(a, e) == IF (a \div 2^e) % 2 = 0 THEN a + 2^e ELSE a - 2^e
BlockAt(a, e) == a - (a % 2^e)
Merges(a, e) == /\ e < MaxExp
                /\ header[Buddy(BlockAt(a, e), e)] = CreateBlock(e)
MergedExp(a, exp) ==
  CHOOSE e \in exp .. MaxExp : /\ e = MaxExp \/ ~Merges(a, e)
                               /\ \A d \in exp .. e - 1 : Merges(a, d)
FreeMemory(piece) ==
  LET a == piece.ptr - HeaderSize
      exp == header[a].exp
      top == MergedExp(a, exp)
      buddy(e) == Buddy(BlockAt(a, e), e)
      block == BlockAt(a, top)
  IN /\ header[a].used
     /\ header' = [x \in Addresses |->
          LET passed == {e \in exp .. top : x = BlockAt(a, e)}
          IN IF passed = {} THEN header[x] ELSE CreateBlock(Max(passed))]
     /\ free' = [e \in Exps |->
          CASE e \in exp .. top - 1 -> RemoveBlock(free[e], buddy(e))
            [] e = top -> <<block>> \o free[e]
            [] OTHER -> free[e]]
     /\ handed' = handed \ {piece}

Alloc == \E size \in Sizes : AllocMemory(size)
Free == \E piece \in handed : FreeMemory(piece)
Next == Alloc \/ Free
Spec == Init /\ [][Next]_vars

(* getMemoryInfo: the walk over the headers from the first address.        *)
BlockSize(a) == 2^header[a].exp
Walked[a \in Addresses] ==
  IF a + BlockSize(a) \in Addresses
  THEN {a} \cup Walked[a + BlockSize(a)] ELSE {a}
MemoryInfo ==
  LET used == {a \in Walked[0] : header[a].used}
      unused == Walked[0] \ used
  IN [usedBlocks |-> Cardinality(used), freeBlocks |-> Cardinality(unused),
      usedMemory |-> MapThenSumSet(BlockSize, used),
      freeMemory |-> MapThenSumSet(BlockSize, unused)]

-----------------------------------------------------------------------------
(* The lists hold free blocks of their exponent, aligned to their size.    *)
BuddyTypeOK ==
  /\ header \in [Addresses -> [exp : Exps, used : BOOLEAN]]
  /\ \A e \in Exps : \A a \in ToSet(free[e]) :
       a \in Addresses /\ a % 2^e = 0 /\ header[a] = CreateBlock(e)

(* Nobody is handed memory that another holds or that is not managed,      *)
(* whatever the holders wrote over old headers (split, merge, freeMemory), *)
(* and no piece covers the header of another.                              *)
WithHeader(p) == [ptr |-> p.ptr - HeaderSize, size |-> p.size + HeaderSize]
Mapped == {WithHeader(p) : p \in handed}
AsArena == INSTANCE Arena WITH handed <- Mapped,
                               Sizes <- {size + HeaderSize : size \in Sizes}
ImplementsArena == AsArena!Spec

(* Merging is complete: as long as some aligned piece of the area is free  *)
(* of blocks in use, a request that fits it is served.                     *)
Occupied == UNION {p.ptr - HeaderSize .. p.ptr - HeaderSize
                     + 2^header[p.ptr - HeaderSize].exp - 1 : p \in handed}
ServesWhenRoom ==
  \A size \in Sizes :
    LET e == ExpFor(size)
    IN (\E a \in Memory : a % 2^e = 0 /\ (a .. a + 2^e - 1) \cap Occupied = {})
         => SplitFrom(e) # {}

(* The walk of getMemoryInfo meets every block in use and every free one,  *)
(* once each, and their sizes add up to the whole.                         *)
InfoExact ==
  /\ MemoryInfo.usedBlocks = Cardinality(handed)
  /\ MemoryInfo.freeBlocks = MapThenSumSet(LAMBDA e : Len(free[e]), Exps)
  /\ MemoryInfo.usedMemory + MemoryInfo.freeMemory = 2^MaxExp
=============================================================================
