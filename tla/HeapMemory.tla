----------------------------- MODULE HeapMemory -----------------------------
(***************************************************************************)
(* Kernel/memory/memoryManager.c: one list of blocks in address order,     *)
(* each with a header before its bytes, served first fit, split when a     *)
(* usable rest remains and merged with its free neighbours when freed.     *)
(***************************************************************************)
EXTENDS Integers, FiniteSets, FiniteSetsExt, Functions

CONSTANTS memAmount, BLOCK_SIZE, HEADER_SIZE,
          Sizes      \* the sizes that are requested

(* What the constants must satisfy; assumed where they are given values.  *)
HeapAssumption ==
  /\ memAmount \in Nat /\ BLOCK_SIZE \in Nat \ {0} /\ HEADER_SIZE \in Nat
  /\ memAmount > HEADER_SIZE /\ Sizes \subseteq Nat \ {0}

VARIABLES block,    \* address of a header |-> [size, is_free, next, prev]
          handed    \* history: the pieces in use

vars == <<block, handed>>

Memory == 0 .. memAmount - 1
NULL == -1
Header(size, is_free, next, prev) ==
  [size |-> size, is_free |-> is_free, next |-> next, prev |-> prev]

(* createMemoryManager: one free block.                                    *)
Init ==
  /\ block = [a \in {0} |-> Header(memAmount - HEADER_SIZE, TRUE, NULL, NULL)]
  /\ handed = {}

(* x->prev = p for the block after a change, when there is one.            *)
Relink(blocks, x, p) == IF x = NULL THEN blocks ELSE [blocks EXCEPT ![x].prev = p]

SplitBlock(blocks, a, size) ==
  LET b == blocks[a]
      new == a + HEADER_SIZE + size
      rest == Header(b.size - size - HEADER_SIZE, TRUE, b.next, a)
  IN IF b.size > size + HEADER_SIZE + BLOCK_SIZE
     THEN [x \in DOMAIN blocks \cup {new} |->
             IF x = new THEN rest
             ELSE Relink([blocks EXCEPT ![a].size = size, ![a].next = new],
                         b.next, new)[x]]
     ELSE blocks

Aligned(n) == ((n + BLOCK_SIZE - 1) \div BLOCK_SIZE) * BLOCK_SIZE

(* allocMemory: the first free block, in list order, that is large enough. *)
Fits(size) == {a \in DOMAIN block : block[a].is_free /\ block[a].size >= Aligned(size)}
AllocMemory(size) ==
  /\ Fits(size) # {}
  /\ LET a == Min(Fits(size))
     IN /\ block' = SplitBlock([block EXCEPT ![a].is_free = FALSE], a, Aligned(size))
        /\ handed' = handed \cup {[ptr |-> a + HEADER_SIZE, size |-> size]}

(* coalesce_blocks: the second block of the list joins the first.          *)
Join(blocks, a, b) ==
  LET joined == [blocks EXCEPT ![a].size = @ + blocks[b].size + HEADER_SIZE,
                               ![a].next = blocks[b].next]
  IN Restrict(Relink(joined, blocks[b].next, a), DOMAIN blocks \ {b})
IsFree(blocks, a) == a # NULL /\ blocks[a].is_free
(* The loop over the free blocks that follow: at most one, two for safety. *)
CoalesceNext(blocks, a) ==
  IF IsFree(blocks, blocks[a].next) THEN Join(blocks, a, blocks[a].next) ELSE blocks
(* Mutant: a freed block does not join the one before it.                  *)
CoalescePrevNot(blocks, a) == blocks
CoalescePrev(blocks, a) ==
  IF IsFree(blocks, blocks[a].prev) THEN Join(blocks, blocks[a].prev, a) ELSE blocks
Coalesce(blocks, a) ==
  CoalescePrev(CoalesceNext(CoalesceNext(blocks, a), a), a)
FreeMemory(piece) ==
  LET a == piece.ptr - HEADER_SIZE
  IN /\ block' = Coalesce([block EXCEPT ![a].is_free = TRUE], a)
     /\ handed' = handed \ {piece}

Alloc == \E size \in Sizes : AllocMemory(size)
Free == \E piece \in handed : FreeMemory(piece)
Next == Alloc \/ Free
Spec == Init /\ [][Next]_vars

(* getMemoryInfo: what the walk along next counts.                         *)
Walked[a \in DOMAIN block] ==
  {a} \cup (IF block[a].next = NULL THEN {} ELSE Walked[block[a].next])
MemoryInfo ==
  LET used == {a \in Walked[0] : ~block[a].is_free}
  IN [usedBlocks |-> Cardinality(used), totalBlocks |-> Cardinality(Walked[0]),
      usedMemory |-> MapThenSumSet(LAMBDA a : block[a].size, used)]

-----------------------------------------------------------------------------
(* The links agree both ways and the blocks lie one after another, without *)
(* a gap, from the first byte of the area to its last.                     *)
HeapTypeOK ==
  \A a \in DOMAIN block :
    LET after == a + HEADER_SIZE + block[a].size
    IN /\ block[a].size \in Nat
       /\ IF block[a].next = NULL THEN after = memAmount
          ELSE /\ block[a].next = after /\ after \in DOMAIN block
               /\ block[after].prev = a

(* Nobody is handed memory that another holds or that is not managed, and  *)
(* no piece covers the header of another: seen with their headers, the     *)
(* pieces are those of an Arena.                                           *)
WithHeader(p) == [ptr |-> p.ptr - HEADER_SIZE, size |-> p.size + HEADER_SIZE]
Mapped == {WithHeader(p) : p \in handed}
AsArena == INSTANCE Arena WITH handed <- Mapped,
                               Sizes <- {size + HEADER_SIZE : size \in Sizes}
ImplementsArena == AsArena!Spec

(* Merging is complete: a request that fits between two blocks in use is   *)
(* served, header included, wherever the pieces between them came from.    *)
Occupied == UNION {a .. a + HEADER_SIZE + block[a].size - 1 :
                     a \in {p.ptr - HEADER_SIZE : p \in handed}}
ServesWhenRoom ==
  \A size \in Sizes :
    (\E a \in Memory : LET end == a + HEADER_SIZE + Aligned(size) - 1
                       IN end \in Memory /\ (a .. end) \cap Occupied = {})
      => Fits(size) # {}

(* The figures of getMemoryInfo: every piece in use is met by the walk,    *)
(* and what it calls used covers what the holders asked for.               *)
InfoExact ==
  /\ MemoryInfo.usedBlocks = Cardinality(handed)
  /\ MemoryInfo.usedMemory >= MapThenSumSet(LAMBDA p : p.size, handed)
  /\ MemoryInfo.usedMemory + MemoryInfo.totalBlocks * HEADER_SIZE <= memAmount
=============================================================================
