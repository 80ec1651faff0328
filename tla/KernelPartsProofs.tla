-------------------------- MODULE KernelPartsProofs -------------------------
(***************************************************************************)
(* Proofs about the kernel's memory and its lists: the memory of           *)
(* processes, both memory managers and the linked lists, for every value   *)
(* of the bounds.  What moves is chosen once and the others keep what they *)
(* have, so each part is proved by itself (the others: DeviceProofs).      *)
(***************************************************************************)
EXTENDS KernelParts, TLAPS, SequenceTheorems, WellFoundedInduction,
        FiniteSetTheorems

(* A set of naturals has a least element.                                  *)
LEMMA LeastNatural ==
  ASSUME NEW S, S \subseteq Nat, S # {}
  PROVE  \E x \in S : \A y \in S : x <= y
<1>. DEFINE R == OpToRel(<, Nat)
<1>1. R = {ss \in Nat \X Nat : ss[1] < ss[2]}
  BY DEF OpToRel
<1>2. IsWellFoundedOn(R, Nat)
  BY NatLessThanWellFounded
<1>. HIDE DEF R
<1>3. PICK x \in S : \A y \in S : ~(<<y, x>> \in R)
  BY <1>2, WFMin
<1>4. ASSUME NEW y \in S PROVE x <= y
  <2>1. x \in Nat /\ y \in Nat
    OBVIOUS
  <2>2. ~(y < x)
    BY <1>1, <1>3, <2>1
  <2>. QED  BY <2>1, <2>2
<1>. QED  BY <1>4

-----------------------------------------------------------------------------
(* The memory of processes.  The k-th element of a finite set of naturals. *)
Below(S, b) == {c \in S : c < b}

LEMMA NthExists ==
  ASSUME NEW S, S \subseteq Nat, IsFiniteSet(S), NEW k \in 1 .. Cardinality(S)
  PROVE  \E b \in S : Cardinality(Below(S, b)) = k - 1
<1>. DEFINE Has(j) == \E b \in S : Cardinality(Below(S, b)) = j - 1
            Bad == {j \in 1 .. Cardinality(S) : ~Has(j)}
<1>1. Cardinality(S) \in Nat
  BY FS_CardinalityType
<1>2. \A b \in S : IsFiniteSet(Below(S, b)) /\ Cardinality(Below(S, b)) \in Nat
  <2>1. \A b : Below(S, b) \subseteq S
    BY DEF Below
  <2>. QED  BY <2>1, FS_Subset, FS_CardinalityType
<1>3. SUFFICES ASSUME Bad # {}
               PROVE  FALSE
  OBVIOUS
<1>4. PICK m \in Bad : \A j \in Bad : m <= j
  <2>1. Bad \subseteq Nat
    BY <1>1
  <2>. HIDE DEF Bad
  <2>. QED  BY <1>3, <2>1, LeastNatural
<1>5. m \in 1 .. Cardinality(S) /\ ~Has(m)
  BY <1>4
<1>6. m # 1
  <2>1. S # {}
    BY <1>1, <1>5, FS_EmptySet
  <2>2. PICK b \in S : \A c \in S : b <= c
    BY <2>1, LeastNatural
  <2>3. Below(S, b) = {}
    <3>1. \A c \in S : ~(c < b)
      BY <2>2
    <3>. QED  BY <3>1 DEF Below
  <2>4. Cardinality(Below(S, b)) = 0
    BY <2>3, FS_EmptySet
  <2>. QED  BY <1>5, <2>4
<1>7. PICK b \in S : Cardinality(Below(S, b)) = m - 2
  <2>1. m - 1 \in 1 .. Cardinality(S) /\ ~(m <= m - 1)
    BY <1>1, <1>5, <1>6
  <2>2. m - 1 \notin Bad
    BY <1>4, <2>1
  <2>3. Has(m - 1)
    <3>. HIDE DEF Has
    <3>. QED  BY <2>1, <2>2
  <2>4. (m - 1) - 1 = m - 2
    BY <1>5
  <2>. QED  BY <2>3, <2>4
<1>. DEFINE upto == Below(S, b) \cup {b}
            T == S \ upto
<1>8. IsFiniteSet(upto) /\ Cardinality(upto) = m - 1 /\ b \notin Below(S, b)
  <2>1. b \notin Below(S, b)
    BY DEF Below
  <2>2. IsFiniteSet(upto) /\ Cardinality(upto) = Cardinality(Below(S, b)) + 1
    BY <1>2, <2>1, FS_AddElement
  <2>. QED  BY <1>5, <1>7, <2>1, <2>2
<1>9. T # {}
  <2>1. upto \subseteq S
    BY DEF Below
  <2>2. upto # S
    <3>. HIDE DEF upto
    <3>. QED  BY <1>1, <1>5, <1>8
  <2>. QED  BY <2>1, <2>2
<1>10. PICK d \in T : \A c \in T : d <= c
  BY <1>9, LeastNatural
<1>11. Below(S, d) = upto
  <2>1. \A c \in S : c \in upto <=> c <= b
    BY DEF Below
  <2>2. d \in S /\ b < d /\ \A c \in S : b < c => d <= c
    BY <1>10, <2>1
  <2>3. \A c \in S : c < d <=> c <= b
    BY <2>2
  <2>4. upto \subseteq S
    BY DEF Below
  <2>. QED  BY <2>1, <2>3, <2>4 DEF Below
<1>. QED  BY <1>5, <1>8, <1>10, <1>11

LEMMA SameCardinality ==
  \A S : OfProcesses!Cardinality(S) = Cardinality(S)
BY DEF OfProcesses!Cardinality, Cardinality

(* allocMemory, k times: distinct free blocks, until there are none.       *)
LEMMA NthLemma ==
  ASSUME used \subseteq OfProcesses!Blocks
  PROVE  /\ \A k \in Nat \ {0} : OfProcesses!Nth(k) \in OfProcesses!Free \cup {OfProcesses!NULL}
         /\ \A j, k \in Nat \ {0} :
              OfProcesses!Nth(j) = OfProcesses!Nth(k) =>
                j = k \/ OfProcesses!Nth(j) = OfProcesses!NULL
         /\ OfProcesses!Free # {} => OfProcesses!Nth(1) # OfProcesses!NULL
         /\ OfProcesses!NULL \notin OfProcesses!Blocks
<1>. DEFINE F == OfProcesses!Free
            N(k) == OfProcesses!Nth(k)
<1>1. HeapSize \in Nat
  BY PartsAssumption DEF OfProcesses!ProcessMemoryAssumption
<1>2. IsFiniteSet(OfProcesses!Blocks) /\ OfProcesses!Blocks \subseteq Nat \ {0}
  BY <1>1, FS_Interval DEF OfProcesses!Blocks
<1>3. F \subseteq Nat /\ IsFiniteSet(F) /\ F \subseteq OfProcesses!Blocks
  BY <1>2, FS_Subset DEF OfProcesses!Free
<1>4. Cardinality(F) \in Nat
  BY <1>3, FS_CardinalityType
<1>. DEFINE Counts(b, k) == OfProcesses!Cardinality({c \in F : c < b}) = k - 1
<1>5. \A k : N(k) = IF OfProcesses!Cardinality(F) < k THEN OfProcesses!NULL
                    ELSE CHOOSE b \in F : Counts(b, k)
  BY DEF OfProcesses!Nth
<1>6. OfProcesses!NULL = 0
  BY DEF OfProcesses!NULL
<1>0. \A b, k : Counts(b, k) <=> Cardinality(Below(F, b)) = k - 1
  BY SameCardinality DEF Below
<1>. HIDE DEF F, N, Counts
<1>7. ASSUME NEW k \in Nat \ {0}
      PROVE  \/ Cardinality(F) < k /\ N(k) = 0
             \/ ~(Cardinality(F) < k) /\ N(k) \in F /\ Cardinality(Below(F, N(k))) = k - 1
  <2>1. CASE Cardinality(F) < k
    BY <1>5, <1>6, <2>1, SameCardinality
  <2>2. CASE ~(Cardinality(F) < k)
    <3>1. k \in 1 .. Cardinality(F)
      BY <1>4, <2>2
    <3>2. \E b \in F : Counts(b, k)
      BY <1>0, <1>3, <3>1, NthExists
    <3>3. N(k) = CHOOSE b \in F : Counts(b, k)
      BY <1>5, <2>2, SameCardinality
    <3>4. N(k) \in F /\ Counts(N(k), k)
      BY <3>2, <3>3
    <3>. QED  BY <1>0, <2>2, <3>4
  <2>. QED  BY <2>1, <2>2
<1>8. 0 \notin F
  BY <1>2, <1>3
<1>9. \A k \in Nat \ {0} : N(k) \in F \cup {0}
  BY <1>7
<1>10. ASSUME NEW j \in Nat \ {0}, NEW k \in Nat \ {0}, N(j) = N(k)
       PROVE  j = k \/ N(j) = 0
  BY <1>7, <1>8, <1>10
<1>11. F # {} => N(1) # 0
  <2>1. F # {} => Cardinality(F) # 0
    BY <1>3, FS_EmptySet
  <2>. QED  BY <1>4, <1>7, <1>8, <2>1
<1>. QED  BY <1>2, <1>6, <1>9, <1>10, <1>11 DEF F, N

LEMMA FirstFreeLemma ==
  ASSUME used \subseteq OfProcesses!Blocks, NEW k \in Nat
  PROVE  /\ OfProcesses!FirstFree(k) \subseteq OfProcesses!Blocks \ used
         /\ \A j \in Nat : j <= k => OfProcesses!FirstFree(j) \subseteq OfProcesses!FirstFree(k)
<1>1. \A j \in Nat : j <= k => 1 .. j \subseteq 1 .. k
  OBVIOUS
<1>2. \A j \in 1 .. k : OfProcesses!Nth(j) \in OfProcesses!Free \cup {OfProcesses!NULL}
  BY NthLemma
<1>. QED  BY <1>1, <1>2 DEF OfProcesses!FirstFree, OfProcesses!Free

(* A PCB has a block for each part or none, and then none for any.         *)
Pcbs == [OfProcesses!Parts -> OfProcesses!Blocks \cup {OfProcesses!NULL}]
MemoryInv ==
  /\ used \subseteq OfProcesses!Blocks /\ lost \subseteq OfProcesses!Blocks
  /\ pcb \in [Pids -> Pcbs]
  /\ mine \in [Pids -> SUBSET OfProcesses!Blocks]
  /\ snapshot \in [Pids -> SUBSET OfProcesses!Blocks]
  /\ \A p \in Pids : OfProcesses!Exists(p) \/ pcb[p] = OfProcesses!NoProcess
  /\ OfProcesses!BlocksHaveOneOwner

LEMMA OthersKeep ==
  ASSUME NEW I, NEW p \in I, NEW h, NEW U, NEW L,
         U = (UNION {h[q] : q \in I}) \cup L, \A q \in I : h[q] \cap L = {},
         \A q \in I : \A r \in I \ {q} : h[q] \cap h[r] = {}
  PROVE  U \ (h[p] \cup L) = UNION {h[q] : q \in I \ {p}}
OBVIOUS

(* What a process has is its own, and nobody has what is lost.             *)
OneFine(p) ==
  /\ pcb[p] \in Pcbs /\ mine[p] \subseteq OfProcesses!Blocks
  /\ snapshot[p] \subseteq OfProcesses!Blocks
  /\ OfProcesses!Exists(p) \/ pcb[p] = OfProcesses!NoProcess
  /\ \A one, other \in OfProcesses!Parts :
       pcb[p][one] = pcb[p][other] => one = other \/ pcb[p][one] = OfProcesses!NULL
  /\ OfProcesses!Owned(p) \cap mine[p] = {} /\ OfProcesses!Owned(p) \cap snapshot[p] = {}
  /\ mine[p] \cap snapshot[p] = {} /\ OfProcesses!Held(p) \cap lost = {}
OnlyMoves(p) ==
  /\ pcb' = [pcb EXCEPT ![p] = pcb'[p]] /\ mine' = [mine EXCEPT ![p] = mine'[p]]
  /\ snapshot' = [snapshot EXCEPT ![p] = snapshot'[p]]
OfOthers(p) == used \ (OfProcesses!Held(p) \cup lost)

(* A step of one process, which leaves what others have alone.             *)
LEMMA OneMoves ==
  ASSUME MemoryInv, NEW p \in Pids, OnlyMoves(p), OneFine(p)',
         lost' \subseteq OfProcesses!Blocks,
         used' = OfOthers(p) \cup OfProcesses!Held(p)' \cup lost',
         (OfProcesses!Held(p)' \cup lost') \cap OfOthers(p) = {}
  PROVE  MemoryInv'
<1>. DEFINE held(q) == OfProcesses!Held(q)
            held1(q) == OfProcesses!Held(q)'
            rest == UNION {held(q) : q \in Pids \ {p}}
<1>0. /\ OfProcesses!Blocks' = OfProcesses!Blocks /\ Pcbs' = Pcbs
      /\ OfProcesses!NoProcess' = OfProcesses!NoProcess
  BY DEF OfProcesses!Blocks, Pcbs, OfProcesses!Parts, OfProcesses!NULL, OfProcesses!NoProcess
<1>1. /\ pcb' \in [Pids -> Pcbs] /\ mine' \in [Pids -> SUBSET OfProcesses!Blocks]
      /\ snapshot' \in [Pids -> SUBSET OfProcesses!Blocks]
      /\ \A q \in Pids \ {p} : /\ pcb'[q] = pcb[q] /\ mine'[q] = mine[q]
                               /\ snapshot'[q] = snapshot[q]
  BY <1>0 DEF MemoryInv, OnlyMoves, OneFine
<1>3. \A q \in Pids \ {p} : held1(q) = held(q) /\ OfProcesses!Owned(q)' = OfProcesses!Owned(q)
  BY <1>1 DEF OfProcesses!Held, OfProcesses!Owned, OfProcesses!NULL, OfProcesses!Parts
<1>4. /\ used = (UNION {held(q) : q \in Pids}) \cup lost
      /\ \A q \in Pids : held(q) \cap lost = {}
      /\ \A q \in Pids : \A r \in Pids \ {q} : held(q) \cap held(r) = {}
  BY DEF MemoryInv, OfProcesses!BlocksHaveOneOwner
<1>. HIDE DEF held, held1
<1>5. used \ (held(p) \cup lost) = rest
  <2>1. ASSUME NEW x
        PROVE  x \in used \ (held(p) \cup lost) <=> x \in rest
    BY <1>4
  <2>. HIDE DEF rest
  <2>. QED  BY <2>1
<1>6. \A q \in Pids \ {p} : held(q) \subseteq rest
  OBVIOUS
<1>7. UNION {held1(q) : q \in Pids} = held1(p) \cup rest
  BY <1>3
<1>8. used' = held1(p) \cup rest \cup lost'
      /\ held1(p) \cap rest = {} /\ lost' \cap rest = {} /\ held1(p) \cap lost' = {}
  <2>1. held1(p) \cap lost' = {}
    BY DEF OneFine, held1
  <2>2. OfOthers(p) = rest
    <3>. HIDE DEF rest
    <3>. QED  BY <1>5 DEF OfOthers, held
  <2>. HIDE DEF rest
  <2>. QED  BY <2>1, <2>2 DEF held1
<1>9. used' = (UNION {held1(q) : q \in Pids}) \cup lost'
  BY <1>7, <1>8
<1>10. used' \subseteq OfProcesses!Blocks
  <2>1. OfProcesses!Owned(p)' \subseteq OfProcesses!Blocks
    BY <1>0 DEF Pcbs, OneFine, OfProcesses!Owned, OfProcesses!NULL, OfProcesses!Parts
  <2>2. held1(p) \subseteq OfProcesses!Blocks
    BY <1>0, <2>1 DEF OneFine, held1, OfProcesses!Held
  <2>3. used \subseteq OfProcesses!Blocks
    BY DEF MemoryInv
  <2>. QED  BY <2>2, <2>3 DEF OfOthers, held1
<1>11. \A q \in Pids : OfProcesses!Exists(q)' \/ pcb'[q] = OfProcesses!NoProcess
  BY <1>0, <1>1 DEF MemoryInv, OneFine, OfProcesses!Exists, OfProcesses!NULL
<1>12. ASSUME NEW q \in Pids
       PROVE  /\ \A one, other \in OfProcesses!Parts :
                   pcb'[q][one] = pcb'[q][other] =>
                     one = other \/ pcb'[q][one] = OfProcesses!NULL
              /\ OfProcesses!Owned(q)' \cap mine'[q] = {}
              /\ OfProcesses!Owned(q)' \cap snapshot'[q] = {}
              /\ mine'[q] \cap snapshot'[q] = {} /\ held1(q) \cap lost' = {}
  <2>1. CASE q = p
    BY <2>1 DEF OneFine, held1, OfProcesses!NULL, OfProcesses!Parts
  <2>2. CASE q # p
    <3>1. held1(q) \subseteq rest /\ held1(q) = held(q)
      BY <1>3, <1>6, <2>2
    <3>. HIDE DEF rest
    <3>2. held1(q) \cap lost' = {}
      BY <1>8, <3>1
    <3>3. /\ \A one, other \in OfProcesses!Parts :
               pcb[q][one] = pcb[q][other] => one = other \/ pcb[q][one] = OfProcesses!NULL
          /\ OfProcesses!Owned(q) \cap mine[q] = {}
          /\ OfProcesses!Owned(q) \cap snapshot[q] = {}
          /\ mine[q] \cap snapshot[q] = {}
      BY DEF MemoryInv, OfProcesses!BlocksHaveOneOwner
    <3>4. pcb'[q] = pcb[q] /\ mine'[q] = mine[q] /\ snapshot'[q] = snapshot[q]
          /\ OfProcesses!Owned(q)' = OfProcesses!Owned(q)
      BY <1>1, <1>3, <2>2
    <3>. QED  BY <3>2, <3>3, <3>4
  <2>. QED  BY <2>1, <2>2
<1>13. ASSUME NEW q \in Pids, NEW r \in Pids \ {q}
       PROVE  held1(q) \cap held1(r) = {}
  <2>1. CASE q = p
    BY <1>3, <1>6, <1>8, <2>1
  <2>2. CASE r = p
    BY <1>3, <1>6, <1>8, <2>2
  <2>3. CASE q # p /\ r # p
    BY <1>3, <1>4, <2>3
  <2>. QED  BY <2>1, <2>2, <2>3
<1>14. OfProcesses!BlocksHaveOneOwner'
  BY <1>9, <1>12, <1>13
     DEF OfProcesses!BlocksHaveOneOwner, held1, OfProcesses!NULL, OfProcesses!Parts
<1>. QED  BY <1>0, <1>1, <1>10, <1>11, <1>14 DEF MemoryInv

LEMMA OneIsFine ==
  ASSUME MemoryInv, NEW p \in Pids
  PROVE  /\ OneFine(p)
         /\ OfProcesses!Held(p) = OfProcesses!Owned(p) \cup mine[p] \cup snapshot[p]
         /\ OfProcesses!Held(p) \subseteq used /\ lost \subseteq used
         /\ used \subseteq OfProcesses!Blocks
         /\ pcb \in [Pids -> Pcbs] /\ mine \in [Pids -> SUBSET OfProcesses!Blocks]
         /\ snapshot \in [Pids -> SUBSET OfProcesses!Blocks]
<1>1. OneFine(p)
  BY DEF MemoryInv, OneFine, OfProcesses!BlocksHaveOneOwner
<1>2. OfProcesses!Held(p) \subseteq used /\ lost \subseteq used
  BY DEF MemoryInv, OfProcesses!BlocksHaveOneOwner
<1>. QED  BY <1>1, <1>2 DEF MemoryInv, OfProcesses!Held

(* A process that keeps its PCB: only its own blocks and the lost differ.  *)
LEMMA PcbKept ==
  ASSUME MemoryInv, NEW p \in Pids, UNCHANGED pcb,
         NEW m \in SUBSET OfProcesses!Blocks, NEW s \in SUBSET OfProcesses!Blocks,
         mine' = [mine EXCEPT ![p] = m], snapshot' = [snapshot EXCEPT ![p] = s],
         lost' \subseteq OfProcesses!Blocks,
         OfProcesses!Owned(p) \cap m = {}, OfProcesses!Owned(p) \cap s = {}, m \cap s = {},
         (OfProcesses!Owned(p) \cup m \cup s) \cap lost' = {},
         used' = OfOthers(p) \cup OfProcesses!Owned(p) \cup m \cup s \cup lost',
         (m \cup s \cup lost') \cap OfOthers(p) = {}
  PROVE  MemoryInv'
<1>1. /\ OneFine(p) /\ pcb \in [Pids -> Pcbs]
      /\ OfProcesses!Owned(p) \subseteq OfProcesses!Held(p)
      /\ mine \in [Pids -> SUBSET OfProcesses!Blocks]
      /\ snapshot \in [Pids -> SUBSET OfProcesses!Blocks]
  BY OneIsFine
<1>2. mine'[p] = m /\ snapshot'[p] = s /\ pcb'[p] = pcb[p]
  BY <1>1
<1>3. OnlyMoves(p)
  BY <1>1, <1>2 DEF OnlyMoves
<1>4. OfProcesses!Owned(p)' = OfProcesses!Owned(p)
      /\ OfProcesses!Held(p)' = OfProcesses!Owned(p) \cup m \cup s
  BY <1>2 DEF OfProcesses!Owned, OfProcesses!Held, OfProcesses!NULL, OfProcesses!Parts
<1>5. /\ OfProcesses!Blocks' = OfProcesses!Blocks /\ Pcbs' = Pcbs
      /\ OfProcesses!NoProcess' = OfProcesses!NoProcess
      /\ OfProcesses!Parts' = OfProcesses!Parts /\ OfProcesses!NULL' = OfProcesses!NULL
      /\ OfProcesses!Exists(p)' <=> OfProcesses!Exists(p)
  BY <1>2 DEF OfProcesses!Blocks, Pcbs, OfProcesses!Parts, OfProcesses!NULL,
     OfProcesses!NoProcess, OfProcesses!Exists
<1>6. OneFine(p)'
  BY <1>1, <1>2, <1>4, <1>5 DEF OneFine
<1>7. OfOthers(p) \cap OfProcesses!Owned(p) = {}
  BY <1>1 DEF OfOthers
<1>8. /\ used' = OfOthers(p) \cup OfProcesses!Held(p)' \cup lost'
      /\ (OfProcesses!Held(p)' \cup lost') \cap OfOthers(p) = {}
  BY <1>4, <1>7
<1>. QED  BY <1>3, <1>6, <1>8, OneMoves

LEMMA MallocStep ==
  ASSUME MemoryInv, NEW p \in Pids, OfProcesses!Malloc(p)
  PROVE  MemoryInv'
<1>. DEFINE new == OfProcesses!FirstFree(1)
            m == mine[p] \cup new
            s == snapshot[p]
<1>1. /\ UNCHANGED <<pcb, lost>> /\ used' = used \cup new
      /\ mine' = [mine EXCEPT ![p] = m]
  BY DEF OfProcesses!Malloc
<1>2. /\ OneFine(p) /\ snapshot \in [Pids -> SUBSET OfProcesses!Blocks]
      /\ OfProcesses!Held(p) = OfProcesses!Owned(p) \cup mine[p] \cup snapshot[p]
      /\ OfProcesses!Held(p) \subseteq used /\ lost \subseteq used
      /\ used \subseteq OfProcesses!Blocks
  BY OneIsFine
<1>3. new \subseteq OfProcesses!Blocks \ used
  BY <1>2, FirstFreeLemma
<1>4. snapshot' = [snapshot EXCEPT ![p] = s]
  BY <1>2 DEF OfProcesses!Malloc
<1>. HIDE DEF new
<1>5. /\ m \in SUBSET OfProcesses!Blocks /\ s \in SUBSET OfProcesses!Blocks
      /\ lost' \subseteq OfProcesses!Blocks
      /\ OfProcesses!Owned(p) \cap m = {} /\ OfProcesses!Owned(p) \cap s = {} /\ m \cap s = {}
      /\ (OfProcesses!Owned(p) \cup m \cup s) \cap lost' = {}
  BY <1>1, <1>2, <1>3 DEF OneFine
<1>6. /\ used' = OfOthers(p) \cup OfProcesses!Owned(p) \cup m \cup s \cup lost'
      /\ (m \cup s \cup lost') \cap OfOthers(p) = {}
  BY <1>1, <1>2, <1>3 DEF OfOthers
<1>. HIDE DEF m, s
<1>. QED  BY <1>1, <1>4, <1>5, <1>6, PcbKept

LEMMA FreeOneStep ==
  ASSUME MemoryInv, NEW p \in Pids, OfProcesses!FreeOne(p)
  PROVE  MemoryInv'
<1>1. /\ OneFine(p) /\ snapshot \in [Pids -> SUBSET OfProcesses!Blocks]
      /\ OfProcesses!Held(p) = OfProcesses!Owned(p) \cup mine[p] \cup snapshot[p]
      /\ OfProcesses!Held(p) \subseteq used /\ lost \subseteq used
      /\ used \subseteq OfProcesses!Blocks
  BY OneIsFine
<1>2. PICK b \in mine[p] :
        /\ UNCHANGED <<pcb, snapshot, lost>> /\ used' = used \ {b}
        /\ mine' = [mine EXCEPT ![p] = mine[p] \ {b}]
  BY DEF OfProcesses!FreeOne
<1>. DEFINE m == mine[p] \ {b}
            s == snapshot[p]
<1>3. snapshot' = [snapshot EXCEPT ![p] = s] /\ mine' = [mine EXCEPT ![p] = m]
  BY <1>1, <1>2
<1>4. /\ m \in SUBSET OfProcesses!Blocks /\ s \in SUBSET OfProcesses!Blocks
      /\ lost' \subseteq OfProcesses!Blocks
      /\ OfProcesses!Owned(p) \cap m = {} /\ OfProcesses!Owned(p) \cap s = {} /\ m \cap s = {}
      /\ (OfProcesses!Owned(p) \cup m \cup s) \cap lost' = {}
  BY <1>1, <1>2 DEF OneFine
<1>5. /\ used' = OfOthers(p) \cup OfProcesses!Owned(p) \cup m \cup s \cup lost'
      /\ (m \cup s \cup lost') \cap OfOthers(p) = {}
  BY <1>1, <1>2 DEF OfOthers, OneFine
<1>. HIDE DEF m, s
<1>. QED  BY <1>2, <1>3, <1>4, <1>5, PcbKept

LEMMA PsStep ==
  ASSUME MemoryInv, NEW p \in Pids, OfProcesses!Ps(p)
  PROVE  MemoryInv'
<1>1. /\ OneFine(p) /\ mine \in [Pids -> SUBSET OfProcesses!Blocks]
      /\ OfProcesses!Held(p) = OfProcesses!Owned(p) \cup mine[p] \cup snapshot[p]
      /\ OfProcesses!Held(p) \subseteq used /\ lost \subseteq used
      /\ used \subseteq OfProcesses!Blocks
  BY OneIsFine
<1>2. PICK listed \in Nat :
        /\ used' = used \cup OfProcesses!FirstFree(2 + listed)
        /\ lost' = lost \cup (OfProcesses!FirstFree(2 + listed) \ OfProcesses!FirstFree(2))
  <2>1. 1 .. OfProcesses!Cardinality({q \in Pids : OfProcesses!Exists(q)}) \subseteq Nat
    <3>1. IsFiniteSet(Pids)
      <4>1. OfProcesses!IsFiniteSet(Pids)
        BY PartsAssumption DEF OfProcesses!ProcessMemoryAssumption
      <4>. QED  BY <4>1 DEF OfProcesses!IsFiniteSet, IsFiniteSet
    <3>2. Cardinality({q \in Pids : OfProcesses!Exists(q)}) \in Nat
      BY <3>1, FS_Subset, FS_CardinalityType
    <3>. QED  BY <3>2, SameCardinality
  <2>. QED  BY <2>1 DEF OfProcesses!Ps
<1>. DEFINE all == OfProcesses!FirstFree(2 + listed)
            s == OfProcesses!FirstFree(2)
            m == mine[p]
<1>3. all \subseteq OfProcesses!Blocks \ used /\ s \subseteq all
  <2>1. 2 + listed \in Nat /\ 2 \in Nat /\ 2 <= 2 + listed
    OBVIOUS
  <2>. QED  BY <1>1, <2>1, FirstFreeLemma
<1>4. /\ UNCHANGED pcb /\ mine' = [mine EXCEPT ![p] = m]
      /\ snapshot' = [snapshot EXCEPT ![p] = s] /\ snapshot[p] = {}
  BY <1>1 DEF OfProcesses!Ps
<1>5. used' = used \cup all /\ lost' = lost \cup (all \ s)
  BY <1>2
<1>. HIDE DEF all, s
<1>6. /\ m \in SUBSET OfProcesses!Blocks /\ s \in SUBSET OfProcesses!Blocks
      /\ lost' \subseteq OfProcesses!Blocks
      /\ OfProcesses!Owned(p) \cap m = {} /\ OfProcesses!Owned(p) \cap s = {} /\ m \cap s = {}
      /\ (OfProcesses!Owned(p) \cup m \cup s) \cap lost' = {}
  BY <1>1, <1>3, <1>5 DEF OneFine
<1>7. /\ used' = OfOthers(p) \cup OfProcesses!Owned(p) \cup m \cup s \cup lost'
      /\ (m \cup s \cup lost') \cap OfOthers(p) = {}
  BY <1>1, <1>3, <1>4, <1>5 DEF OfOthers
<1>. HIDE DEF m
<1>. QED  BY <1>4, <1>6, <1>7, PcbKept

LEMMA PsDoneStep ==
  ASSUME MemoryInv, NEW p \in Pids, OfProcesses!PsDone(p)
  PROVE  MemoryInv'
<1>. DEFINE m == mine[p]
            s == {}
<1>1. /\ OneFine(p) /\ mine \in [Pids -> SUBSET OfProcesses!Blocks]
      /\ OfProcesses!Held(p) = OfProcesses!Owned(p) \cup mine[p] \cup snapshot[p]
      /\ OfProcesses!Held(p) \subseteq used /\ lost \subseteq used
      /\ used \subseteq OfProcesses!Blocks
  BY OneIsFine
<1>2. /\ UNCHANGED <<pcb, lost>> /\ used' = used \ snapshot[p]
      /\ snapshot' = [snapshot EXCEPT ![p] = s] /\ mine' = [mine EXCEPT ![p] = m]
  BY <1>1 DEF OfProcesses!PsDone
<1>3. /\ m \in SUBSET OfProcesses!Blocks /\ s \in SUBSET OfProcesses!Blocks
      /\ lost' \subseteq OfProcesses!Blocks
      /\ OfProcesses!Owned(p) \cap m = {} /\ OfProcesses!Owned(p) \cap s = {} /\ m \cap s = {}
      /\ (OfProcesses!Owned(p) \cup m \cup s) \cap lost' = {}
  BY <1>1, <1>2 DEF OneFine
<1>4. /\ used' = OfOthers(p) \cup OfProcesses!Owned(p) \cup m \cup s \cup lost'
      /\ (m \cup s \cup lost') \cap OfOthers(p) = {}
  BY <1>1, <1>2 DEF OfOthers, OneFine
<1>. HIDE DEF m, s
<1>. QED  BY <1>2, <1>3, <1>4, PcbKept

LEMMA KillStep ==
  ASSUME MemoryInv, NEW p \in Pids, OfProcesses!Kill(p)
  PROVE  MemoryInv'
<1>. DEFINE m == {}
            s == {}
<1>1. /\ OneFine(p)
      /\ OfProcesses!Held(p) = OfProcesses!Owned(p) \cup mine[p] \cup snapshot[p]
      /\ OfProcesses!Held(p) \subseteq used /\ lost \subseteq used
      /\ used \subseteq OfProcesses!Blocks
  BY OneIsFine
<1>2. /\ UNCHANGED <<pcb, used>> /\ lost' = lost \cup mine[p] \cup snapshot[p]
      /\ snapshot' = [snapshot EXCEPT ![p] = s] /\ mine' = [mine EXCEPT ![p] = m]
  BY DEF OfProcesses!Kill
<1>3. /\ m \in SUBSET OfProcesses!Blocks /\ s \in SUBSET OfProcesses!Blocks
      /\ lost' \subseteq OfProcesses!Blocks
      /\ OfProcesses!Owned(p) \cap m = {} /\ OfProcesses!Owned(p) \cap s = {} /\ m \cap s = {}
      /\ (OfProcesses!Owned(p) \cup m \cup s) \cap lost' = {}
  BY <1>1, <1>2 DEF OneFine
<1>4. /\ used' = OfOthers(p) \cup OfProcesses!Owned(p) \cup m \cup s \cup lost'
      /\ (m \cup s \cup lost') \cap OfOthers(p) = {}
  BY <1>1, <1>2 DEF OfOthers
<1>. HIDE DEF m, s
<1>. QED  BY <1>2, <1>3, <1>4, PcbKept

LEMMA CreateStep ==
  ASSUME MemoryInv, NEW p \in Pids, OfProcesses!CreateProcess(p)
  PROVE  MemoryInv'
<1>. DEFINE N(k) == OfProcesses!Nth(k)
            new == [pcb |-> N(1), stack |-> N(2), args |-> N(3),
                    name |-> N(4), list |-> N(5), node |-> N(6)]
            six == OfProcesses!FirstFree(6)
            NULL == OfProcesses!NULL
<1>1. /\ OneFine(p) /\ pcb \in [Pids -> Pcbs]
      /\ mine \in [Pids -> SUBSET OfProcesses!Blocks]
      /\ snapshot \in [Pids -> SUBSET OfProcesses!Blocks]
      /\ OfProcesses!Held(p) = OfProcesses!Owned(p) \cup mine[p] \cup snapshot[p]
      /\ OfProcesses!Held(p) \subseteq used /\ lost \subseteq used
      /\ used \subseteq OfProcesses!Blocks
  BY OneIsFine
<1>2. /\ pcb' = [pcb EXCEPT ![p] = new] /\ used' = used \cup six
      /\ UNCHANGED <<mine, snapshot, lost>>
      /\ OfProcesses!Free # {} /\ pcb[p] = OfProcesses!NoProcess
  BY <1>1 DEF OfProcesses!CreateProcess, OneFine
<1>3. OfProcesses!Owned(p) = {}
  BY <1>2 DEF OfProcesses!Owned, OfProcesses!NoProcess
<1>4. /\ \A k \in 1 .. 6 : N(k) \in (OfProcesses!Blocks \ used) \cup {NULL}
      /\ \A j, k \in 1 .. 6 : N(j) = N(k) => j = k \/ N(j) = NULL
      /\ N(1) # NULL /\ NULL \notin OfProcesses!Blocks
  BY <1>1, <1>2, NthLemma DEF OfProcesses!Free
<1>5. six = {N(k) : k \in 1 .. 6} \ {NULL} /\ six \subseteq OfProcesses!Blocks \ used
  BY <1>1, FirstFreeLemma DEF OfProcesses!FirstFree
<1>. HIDE DEF N, six
<1>6. /\ OnlyMoves(p) /\ pcb'[p] = new /\ mine'[p] = mine[p] /\ snapshot'[p] = snapshot[p]
  BY <1>1, <1>2 DEF OnlyMoves
<1>7. /\ DOMAIN new = OfProcesses!Parts
      /\ \A one \in OfProcesses!Parts : \E k \in 1 .. 6 : new[one] = N(k)
      /\ \A k \in 1 .. 6 : \E one \in OfProcesses!Parts : new[one] = N(k)
      /\ \A one, other \in OfProcesses!Parts :
           new[one] = new[other] => one = other \/ new[one] = NULL
  <2>1. \A k \in 1 .. 6 : k = 1 \/ k = 2 \/ k = 3 \/ k = 4 \/ k = 5 \/ k = 6
    OBVIOUS
  <2>2. DOMAIN new = OfProcesses!Parts
    BY DEF OfProcesses!Parts
  <2>3. \A one \in OfProcesses!Parts : \E k \in 1 .. 6 : new[one] = N(k)
    BY DEF OfProcesses!Parts
  <2>4. \A k \in 1 .. 6 : \E one \in OfProcesses!Parts : new[one] = N(k)
    BY <2>1 DEF OfProcesses!Parts
  <2>5. ASSUME NEW one \in OfProcesses!Parts, NEW other \in OfProcesses!Parts,
               new[one] = new[other]
        PROVE  one = other \/ new[one] = NULL
    BY <1>4, <2>5 DEF OfProcesses!Parts
  <2>. QED  BY <2>2, <2>3, <2>4, <2>5
<1>8. new.pcb = N(1) /\ "pcb" \in OfProcesses!Parts /\ new.pcb # NULL
  BY <1>4 DEF OfProcesses!Parts
<1>9. new = [one \in OfProcesses!Parts |-> new[one]]
  BY <1>7
<1>. HIDE DEF new
<1>10. new \in Pcbs
  <2>1. \A one \in OfProcesses!Parts : new[one] \in OfProcesses!Blocks \cup {NULL}
    BY <1>4, <1>7
  <2>. QED  BY <1>9, <2>1 DEF Pcbs
<1>11. {new[one] : one \in OfProcesses!Parts} \ {NULL} = six
  <2>. DEFINE all == {new[one] : one \in OfProcesses!Parts}
              kth == {N(k) : k \in 1 .. 6}
  <2>1. all \subseteq kth
    BY <1>7
  <2>2. ASSUME NEW k \in 1 .. 6
        PROVE  N(k) \in all
    <3>1. PICK one \in OfProcesses!Parts : new[one] = N(k)
      BY <1>7
    <3>. QED  BY <3>1
  <2>. HIDE DEF all
  <2>3. all = kth
    BY <2>1, <2>2
  <2>. HIDE DEF kth
  <2>. QED  BY <1>5, <2>3 DEF all, kth
<1>12. /\ OfProcesses!Blocks' = OfProcesses!Blocks /\ Pcbs' = Pcbs
       /\ OfProcesses!NoProcess' = OfProcesses!NoProcess
       /\ OfProcesses!Parts' = OfProcesses!Parts /\ OfProcesses!NULL' = NULL
  BY DEF OfProcesses!Blocks, Pcbs, OfProcesses!Parts, OfProcesses!NULL, OfProcesses!NoProcess
<1>13. OfProcesses!Owned(p)' = six
  BY <1>6, <1>11, <1>12 DEF OfProcesses!Owned
<1>14. OfProcesses!Held(p)' = six \cup mine[p] \cup snapshot[p]
  BY <1>6, <1>13 DEF OfProcesses!Held
<1>15. OneFine(p)'
  <2>1. OfProcesses!Exists(p)'
    BY <1>6, <1>8, <1>12 DEF OfProcesses!Exists
  <2>2. /\ six \cap mine[p] = {} /\ six \cap snapshot[p] = {}
        /\ (six \cup mine[p] \cup snapshot[p]) \cap lost' = {}
    BY <1>1, <1>2, <1>5 DEF OneFine
  <2>3. /\ mine[p] \subseteq OfProcesses!Blocks /\ snapshot[p] \subseteq OfProcesses!Blocks
        /\ mine[p] \cap snapshot[p] = {}
    BY <1>1 DEF OneFine
  <2>4. /\ pcb'[p] \in Pcbs'
        /\ \A one, other \in OfProcesses!Parts' :
             pcb'[p][one] = pcb'[p][other] => one = other \/ pcb'[p][one] = OfProcesses!NULL'
    BY <1>6, <1>7, <1>10, <1>12
  <2>. QED  BY <1>6, <1>12, <1>13, <1>14, <2>1, <2>2, <2>3, <2>4 DEF OneFine
<1>16. /\ used' = OfOthers(p) \cup OfProcesses!Held(p)' \cup lost'
       /\ (OfProcesses!Held(p)' \cup lost') \cap OfOthers(p) = {}
  BY <1>1, <1>2, <1>3, <1>5, <1>14 DEF OfOthers
<1>17. lost' \subseteq OfProcesses!Blocks
  BY <1>1, <1>2
<1>. QED  BY <1>6, <1>15, <1>16, <1>17, OneMoves

LEMMA UnblockStep ==
  ASSUME MemoryInv, NEW p \in Pids, OfProcesses!Unblock(p)
  PROVE  MemoryInv'
<1>. DEFINE old == pcb[p].node
            node == OfProcesses!NewNode(p)
            new == [pcb[p] EXCEPT !.node = node]
            NULL == OfProcesses!NULL
<1>1. /\ OneFine(p) /\ pcb \in [Pids -> Pcbs]
      /\ mine \in [Pids -> SUBSET OfProcesses!Blocks]
      /\ snapshot \in [Pids -> SUBSET OfProcesses!Blocks]
      /\ OfProcesses!Held(p) = OfProcesses!Owned(p) \cup mine[p] \cup snapshot[p]
      /\ OfProcesses!Held(p) \subseteq used /\ lost \subseteq used
      /\ used \subseteq OfProcesses!Blocks
  BY OneIsFine
<1>2. /\ pcb' = [pcb EXCEPT ![p] = new] /\ used' = (used \ {old}) \cup {node}
      /\ UNCHANGED <<mine, snapshot, lost>> /\ OfProcesses!Sound
  BY DEF OfProcesses!Unblock
<1>3. node \in ((OfProcesses!Blocks \ used) \cup {NULL, old}) /\ (node = NULL => node = old)
  <2>1. OfProcesses!Nth(1) \in (OfProcesses!Blocks \ used) \cup {NULL}
    BY <1>1, NthLemma DEF OfProcesses!Free
  <2>2. NULL \notin 1 .. old
    BY DEF OfProcesses!NULL
  <2>. QED  BY <2>1, <2>2 DEF OfProcesses!NewNode
<1>4. /\ pcb[p] \in Pcbs /\ "node" \in OfProcesses!Parts /\ "pcb" \in OfProcesses!Parts
      /\ \A one, other \in OfProcesses!Parts :
           pcb[p][one] = pcb[p][other] => one = other \/ pcb[p][one] = NULL
      /\ \A one \in OfProcesses!Parts : pcb[p][one] = NULL \/ pcb[p][one] \in used
      /\ \A one \in OfProcesses!Parts : pcb[p][one] \in OfProcesses!Blocks \cup {NULL}
      /\ NULL \notin OfProcesses!Blocks
  <2>1. \A one \in OfProcesses!Parts : pcb[p][one] = NULL \/ pcb[p][one] \in OfProcesses!Owned(p)
    BY DEF OfProcesses!Owned
  <2>2. NULL \notin OfProcesses!Blocks
    BY <1>1, NthLemma
  <2>. QED  BY <1>1, <2>1, <2>2 DEF OneFine, OfProcesses!Parts, Pcbs
<1>5. /\ new = [one \in OfProcesses!Parts |-> IF one = "node" THEN node ELSE pcb[p][one]]
      /\ new.pcb = pcb[p].pcb
  BY <1>4 DEF Pcbs, OfProcesses!Parts
<1>. HIDE DEF new, node, NULL
<1>6. /\ OnlyMoves(p) /\ pcb'[p] = new /\ mine'[p] = mine[p] /\ snapshot'[p] = snapshot[p]
  BY <1>1, <1>2 DEF OnlyMoves
<1>7. /\ new \in Pcbs
      /\ \A one, other \in OfProcesses!Parts :
           new[one] = new[other] => one = other \/ new[one] = NULL
  <2>1. \A one \in OfProcesses!Parts :
          new[one] = IF one = "node" THEN node ELSE pcb[p][one]
    BY <1>5
  <2>2. node \in OfProcesses!Blocks \cup {NULL}
    BY <1>3, <1>4
  <2>3. new \in Pcbs
    BY <1>4, <1>5, <2>1, <2>2 DEF Pcbs, NULL
  <2>4. ASSUME NEW one \in OfProcesses!Parts, NEW other \in OfProcesses!Parts,
               new[one] = new[other], one # other
        PROVE  new[one] = NULL
    BY <1>3, <1>4, <2>1, <2>4
  <2>. QED  BY <2>3, <2>4
<1>8. /\ OfProcesses!Blocks' = OfProcesses!Blocks /\ Pcbs' = Pcbs
      /\ OfProcesses!NoProcess' = OfProcesses!NoProcess
      /\ OfProcesses!Parts' = OfProcesses!Parts /\ OfProcesses!NULL' = NULL
  BY DEF OfProcesses!Blocks, Pcbs, OfProcesses!Parts, OfProcesses!NULL, OfProcesses!NoProcess,
         NULL
<1>9. OfProcesses!Owned(p)' = {new[one] : one \in OfProcesses!Parts} \ {NULL}
  BY <1>6, <1>8 DEF OfProcesses!Owned
<1>10. /\ OfProcesses!Owned(p)' = ((OfProcesses!Owned(p) \ {old}) \cup {node}) \ {NULL}
       /\ old \in OfProcesses!Owned(p) \cup {NULL}
  <2>1. OfProcesses!Owned(p) = {pcb[p][one] : one \in OfProcesses!Parts} \ {NULL}
    BY DEF OfProcesses!Owned, NULL
  <2>2. \A one \in OfProcesses!Parts : one # "node" => new[one] = pcb[p][one]
    BY <1>5
  <2>3. new["node"] = node /\ pcb[p]["node"] = old
    BY <1>4, <1>5
  <2>4. ASSUME NEW one \in OfProcesses!Parts, new[one] # NULL
        PROVE  new[one] \in (OfProcesses!Owned(p) \ {old}) \cup {node}
    BY <1>4, <2>1, <2>2, <2>3, <2>4
  <2>5. ASSUME NEW one \in OfProcesses!Parts, pcb[p][one] \notin {NULL, old}
        PROVE  pcb[p][one] \in OfProcesses!Owned(p)'
    BY <1>9, <2>2, <2>3, <2>5
  <2>6. node # NULL => node \in OfProcesses!Owned(p)'
    BY <1>4, <1>9, <2>3
  <2>7. OfProcesses!Owned(p)' \subseteq ((OfProcesses!Owned(p) \ {old}) \cup {node}) \ {NULL}
    BY <1>9, <2>4
  <2>8. ((OfProcesses!Owned(p) \ {old}) \cup {node}) \ {NULL} \subseteq OfProcesses!Owned(p)'
    BY <2>1, <2>5, <2>6
  <2>9. old \in OfProcesses!Owned(p) \cup {NULL}
    BY <1>4, <2>1, <2>3
  <2>. QED  BY <2>7, <2>8, <2>9
<1>11. old # NULL
  BY DEF OfProcesses!Unblock, OfProcesses!Sound, OfProcesses!Exists, NULL
<1>12. OfProcesses!Held(p)' = OfProcesses!Owned(p)' \cup mine[p] \cup snapshot[p]
  BY <1>6 DEF OfProcesses!Held
<1>13. OneFine(p)'
  <2>1. OfProcesses!Exists(p)'
    <3>1. pcb[p].pcb # OfProcesses!NULL
      BY DEF OfProcesses!Unblock, OfProcesses!Exists
    <3>2. pcb'[p].pcb = pcb[p].pcb
      BY <1>5, <1>6
    <3>. QED  BY <1>8, <3>1, <3>2 DEF OfProcesses!Exists, NULL
  <2>2. /\ OfProcesses!Owned(p)' \cap mine[p] = {} /\ OfProcesses!Owned(p)' \cap snapshot[p] = {}
        /\ (OfProcesses!Owned(p)' \cup mine[p] \cup snapshot[p]) \cap lost' = {}
    BY <1>1, <1>2, <1>3, <1>10 DEF OneFine
  <2>3. /\ mine[p] \subseteq OfProcesses!Blocks /\ snapshot[p] \subseteq OfProcesses!Blocks
        /\ mine[p] \cap snapshot[p] = {}
    BY <1>1 DEF OneFine
  <2>4. /\ pcb'[p] \in Pcbs'
        /\ \A one, other \in OfProcesses!Parts' :
             pcb'[p][one] = pcb'[p][other] => one = other \/ pcb'[p][one] = OfProcesses!NULL'
    BY <1>6, <1>7, <1>8
  <2>. QED  BY <1>6, <1>8, <1>12, <2>1, <2>2, <2>3, <2>4 DEF OneFine
<1>14. /\ used' = OfOthers(p) \cup OfProcesses!Held(p)' \cup lost'
       /\ (OfProcesses!Held(p)' \cup lost') \cap OfOthers(p) = {}
  <2>. DEFINE owned == OfProcesses!Owned(p)
              owned1 == OfProcesses!Owned(p)'
              rest == mine[p] \cup snapshot[p]
              vacant == OfProcesses!Blocks \ used
  <2>1. /\ owned1 = ((owned \ {old}) \cup {node}) \ {NULL} /\ old \in owned \cup {NULL}
        /\ old # NULL /\ node \in vacant \cup {NULL, old} /\ (node = NULL => node = old)
    BY <1>3, <1>10, <1>11
  <2>2. OfProcesses!Held(p) = owned \cup rest /\ OfProcesses!Held(p)' = owned1 \cup rest
    BY <1>1, <1>12
  <2>3. /\ owned \cup rest \subseteq used /\ lost \subseteq used /\ lost' = lost
        /\ used \subseteq OfProcesses!Blocks /\ vacant \cap used = {}
        /\ owned \cap rest = {} /\ (owned \cup rest) \cap lost = {}
        /\ used' = (used \ {old}) \cup {node}
    BY <1>1, <1>2 DEF OneFine
  <2>4. OfOthers(p) = used \ ((owned \cup rest) \cup lost)
    BY <2>2 DEF OfOthers
  <2>5. owned1 = (owned \ {old}) \cup {node} /\ old \in owned /\ NULL \notin owned
    BY <2>1 DEF OfProcesses!Owned, NULL
  <2>. HIDE DEF owned, owned1, rest, vacant
  <2>6. (owned1 \cup rest) \cup lost = ((owned \ {old}) \cup {node}) \cup rest \cup lost
    BY <2>5
  <2>7. node \in vacant \cup {old}
    BY <2>1
  <2>8. used' = (used \ ((owned \cup rest) \cup lost)) \cup (owned1 \cup rest) \cup lost
    BY <2>3, <2>5, <2>7
  <2>9. ((owned1 \cup rest) \cup lost) \cap (used \ ((owned \cup rest) \cup lost)) = {}
    BY <2>3, <2>5, <2>7
  <2>. QED  BY <2>2, <2>3, <2>4, <2>8, <2>9
<1>15. lost' \subseteq OfProcesses!Blocks
  BY <1>1, <1>2
<1>. QED  BY <1>6, <1>13, <1>14, <1>15, OneMoves

LEMMA DestroyStep ==
  ASSUME MemoryInv, NEW p \in Pids, OfProcesses!DestroyZombie(p)
  PROVE  MemoryInv'
<1>1. /\ OneFine(p) /\ pcb \in [Pids -> Pcbs]
      /\ mine \in [Pids -> SUBSET OfProcesses!Blocks]
      /\ snapshot \in [Pids -> SUBSET OfProcesses!Blocks]
      /\ OfProcesses!Held(p) = OfProcesses!Owned(p) \cup mine[p] \cup snapshot[p]
      /\ OfProcesses!Held(p) \subseteq used /\ lost \subseteq used
      /\ used \subseteq OfProcesses!Blocks
  BY OneIsFine
<1>2. /\ pcb' = [pcb EXCEPT ![p] = OfProcesses!NoProcess]
      /\ used' = used \ OfProcesses!Owned(p)
      /\ UNCHANGED <<mine, snapshot, lost>>
  BY DEF OfProcesses!DestroyZombie, OfProcesses!Freed
<1>3. /\ OnlyMoves(p) /\ pcb'[p] = OfProcesses!NoProcess
      /\ mine'[p] = mine[p] /\ snapshot'[p] = snapshot[p]
  BY <1>1, <1>2 DEF OnlyMoves
<1>4. /\ OfProcesses!Blocks' = OfProcesses!Blocks /\ Pcbs' = Pcbs
      /\ OfProcesses!NoProcess' = OfProcesses!NoProcess
      /\ OfProcesses!Parts' = OfProcesses!Parts /\ OfProcesses!NULL' = OfProcesses!NULL
  BY DEF OfProcesses!Blocks, Pcbs, OfProcesses!Parts, OfProcesses!NULL, OfProcesses!NoProcess
<1>5. OfProcesses!NoProcess \in Pcbs
      /\ \A one \in OfProcesses!Parts : OfProcesses!NoProcess[one] = OfProcesses!NULL
  BY DEF OfProcesses!NoProcess, Pcbs
<1>6. OfProcesses!Owned(p)' = {}
  BY <1>3, <1>4, <1>5 DEF OfProcesses!Owned
<1>7. OfProcesses!Held(p)' = mine[p] \cup snapshot[p]
  BY <1>3, <1>6 DEF OfProcesses!Held
<1>8. OneFine(p)'
  BY <1>1, <1>2, <1>3, <1>4, <1>5, <1>6, <1>7 DEF OneFine
<1>9. /\ used' = OfOthers(p) \cup OfProcesses!Held(p)' \cup lost'
      /\ (OfProcesses!Held(p)' \cup lost') \cap OfOthers(p) = {}
  BY <1>1, <1>2, <1>7 DEF OfOthers, OneFine
<1>10. lost' \subseteq OfProcesses!Blocks
  BY <1>1, <1>2
<1>. QED  BY <1>3, <1>8, <1>9, <1>10, OneMoves

LEMMA MemoryStep ==
  ASSUME MemoryInv, OfProcesses!Next \/ UNCHANGED processVars
  PROVE  MemoryInv'
<1>1. CASE UNCHANGED processVars
  BY <1>1 DEF processVars, MemoryInv, OfProcesses!BlocksHaveOneOwner, OfProcesses!Held,
     OfProcesses!Owned, OfProcesses!Exists, OfProcesses!NULL, OfProcesses!Parts,
     OfProcesses!Blocks, OfProcesses!NoProcess, Pcbs
<1>. QED
  BY <1>1, CreateStep, MallocStep, FreeOneStep, PsStep, PsDoneStep, KillStep, UnblockStep,
     DestroyStep
     DEF OfProcesses!Next

LEMMA MemoryInit == OfProcesses!Init => MemoryInv
<1>. SUFFICES ASSUME OfProcesses!Init
              PROVE  MemoryInv
  OBVIOUS
<1>1. /\ used = {} /\ lost = {} /\ pcb = [p \in Pids |-> OfProcesses!NoProcess]
      /\ mine = [p \in Pids |-> {}] /\ snapshot = [p \in Pids |-> {}]
  BY DEF OfProcesses!Init
<1>2. OfProcesses!NoProcess \in Pcbs
      /\ \A one \in OfProcesses!Parts : OfProcesses!NoProcess[one] = OfProcesses!NULL
  BY DEF OfProcesses!NoProcess, Pcbs
<1>3. \A p \in Pids : OfProcesses!Owned(p) = {} /\ OfProcesses!Held(p) = {}
  BY <1>1, <1>2 DEF OfProcesses!Owned, OfProcesses!Held
<1>4. OfProcesses!BlocksHaveOneOwner
  BY <1>1, <1>2, <1>3 DEF OfProcesses!BlocksHaveOneOwner
<1>. QED  BY <1>1, <1>2, <1>4 DEF MemoryInv

(* Every block in use belongs to one process once, as a part of its PCB,   *)
(* as what it allocated itself or as a listing under way, or it is lost;   *)
(* so none is freed twice or while another has it, and freeProcess forgets *)
(* none, also when the memory ended in the middle of a creation.           *)
THEOREM BlocksHaveOneOwnerHolds == Spec => []BlocksHaveOneOwner
<1>1. Init => MemoryInv
  BY MemoryInit DEF Init
<1>2. MemoryInv /\ [Next]_vars => MemoryInv'
  <2>1. Next \/ UNCHANGED vars => OfProcesses!Next \/ UNCHANGED processVars
    BY DEF Next, Moves, vars
  <2>. QED  BY <2>1, MemoryStep
<1>3. MemoryInv => BlocksHaveOneOwner
  BY DEF MemoryInv, BlocksHaveOneOwner
<1>. HIDE DEF MemoryInv, BlocksHaveOneOwner, Init, Next, vars, Fairness
<1>. QED  BY <1>1, <1>2, <1>3, PTL DEF Spec

-----------------------------------------------------------------------------
(* The heap manager's list of blocks: they lie one after another, linked   *)
(* both ways, from the front byte of the memory to its last.               *)
HeapBlock == [size : Nat \ {0}, is_free : BOOLEAN, next : Int, prev : Int]
After(blocks, a) == a + HEADER_SIZE + blocks[a].size
Chain(blocks) ==
  /\ blocks \in [DOMAIN blocks -> HeapBlock]
  /\ DOMAIN blocks \subseteq Nat /\ 0 \in DOMAIN blocks
  /\ \A a \in DOMAIN blocks :
       /\ IF blocks[a].next = HeapManager!NULL THEN After(blocks, a) = memAmount
          ELSE /\ blocks[a].next = After(blocks, a) /\ After(blocks, a) \in DOMAIN blocks
               /\ blocks[After(blocks, a)].prev = a
       /\ IF a = 0 THEN blocks[a].prev = HeapManager!NULL
          ELSE blocks[a].prev \in DOMAIN blocks /\ blocks[blocks[a].prev].next = a
       /\ After(blocks, a) <= memAmount
       /\ \A b \in DOMAIN blocks : a < b => After(blocks, a) <= b
(* Two free blocks side by side.                                           *)
Twins(blocks, a, b) ==
  /\ a \in DOMAIN blocks /\ b \in DOMAIN blocks /\ b = After(blocks, a)
  /\ blocks[a].is_free /\ blocks[b].is_free
(* Who was handed what: a block in use for each piece, large enough.       *)
Owned(blocks, pieces) ==
  /\ \A p \in pieces :
       /\ p \in [ptr : Nat, size : HeapSizes] /\ p.ptr - HEADER_SIZE \in DOMAIN blocks
       /\ ~blocks[p.ptr - HEADER_SIZE].is_free
       /\ p.size <= blocks[p.ptr - HEADER_SIZE].size
  /\ \A p, q \in pieces : p.ptr = q.ptr => p = q
  /\ \A a \in DOMAIN blocks :
       ~blocks[a].is_free => \E p \in pieces : p.ptr = a + HEADER_SIZE
HeapInv ==
  /\ Chain(block) /\ Owned(block, heapHanded)
  /\ \A a, b \in DOMAIN block : ~Twins(block, a, b)

(* What a split of block a and what joining b to a leave.                  *)
IsSplit(S, blocks, a, size) ==
  LET new == a + HEADER_SIZE + size
      n == blocks[a].next
  IN /\ new \in Nat /\ new \notin DOMAIN blocks /\ DOMAIN S = DOMAIN blocks \cup {new}
     /\ S[new] = HeapManager!Header(blocks[a].size - size - HEADER_SIZE, TRUE, n, a)
     /\ S[a] = HeapManager!Header(size, blocks[a].is_free, new, blocks[a].prev)
     /\ n # HeapManager!NULL => /\ n \in DOMAIN blocks /\ n # a
                    /\ S[n] = HeapManager!Header(
                             blocks[n].size, blocks[n].is_free, blocks[n].next, new)
     /\ \A x \in DOMAIN blocks \ {a, n} : S[x] = blocks[x]
     /\ S = [x \in DOMAIN S |-> S[x]]
IsJoin(J, blocks, a, b) ==
  LET m == blocks[b].next
  IN /\ b \in DOMAIN blocks /\ a < b /\ DOMAIN J = DOMAIN blocks \ {b}
     /\ J[a] = HeapManager!Header(blocks[a].size + blocks[b].size + HEADER_SIZE,
                      blocks[a].is_free, m, blocks[a].prev)
     /\ m # HeapManager!NULL => /\ m \in DOMAIN J \ {a}
                    /\ J[m] = HeapManager!Header(
                             blocks[m].size, blocks[m].is_free, blocks[m].next, a)
     /\ \A x \in DOMAIN J \ {a, m} : J[x] = blocks[x]
     /\ J = [x \in DOMAIN J |-> J[x]]

LEMMA ChainFacts ==
    ASSUME HeapManager!HeapAssumption, NEW blocks, Chain(blocks), NEW a \in DOMAIN blocks
    PROVE  /\ a \in Nat /\ blocks[a] \in HeapBlock
           /\ blocks[a].size \in Nat \ {0} /\ blocks[a].is_free \in BOOLEAN
           /\ blocks[a].next \in Int /\ blocks[a].prev \in Int
           /\ After(blocks, a) \in Nat /\ After(blocks, a) > a
           /\ HEADER_SIZE \in Nat /\ memAmount \in Nat /\ HeapManager!NULL = -1
<1>1. a \in Nat /\ blocks[a] \in HeapBlock
  BY DEF Chain
<1>2. HEADER_SIZE \in Nat /\ memAmount \in Nat /\ HeapManager!NULL = -1
  BY DEF HeapManager!HeapAssumption, HeapManager!NULL
<1>3. /\ blocks[a].size \in Nat \ {0} /\ blocks[a].is_free \in BOOLEAN
      /\ blocks[a].next \in Int /\ blocks[a].prev \in Int
  BY <1>1 DEF HeapBlock
<1>. QED  BY <1>1, <1>2, <1>3 DEF After

(* What split_block makes of block a and of the one that follows it.       *)
LEMMA SplitFacts ==
    ASSUME HeapManager!HeapAssumption, NEW blocks, Chain(blocks), NEW a \in DOMAIN blocks,
           NEW size \in Nat \ {0}, blocks[a].size > size + HEADER_SIZE + BLOCK_SIZE
    PROVE  IsSplit(HeapManager!SplitBlock(blocks, a, size), blocks, a, size)
<1>. DEFINE S == HeapManager!SplitBlock(blocks, a, size)
            new == a + HEADER_SIZE + size
            n == blocks[a].next
            front == [blocks EXCEPT ![a].size = size, ![a].next = new]
            rest == HeapManager!Header(blocks[a].size - size - HEADER_SIZE, TRUE, n, a)
<1>1. /\ a \in Nat /\ blocks[a] \in HeapBlock /\ blocks[a].size \in Nat
      /\ HEADER_SIZE \in Nat /\ BLOCK_SIZE \in Nat \ {0} /\ n \in Int
  BY ChainFacts DEF HeapManager!HeapAssumption
<1>2. new \in Nat /\ a < new /\ new < After(blocks, a)
  BY <1>1 DEF After
<1>3. new \notin DOMAIN blocks
  <2>1. ASSUME new \in DOMAIN blocks PROVE FALSE
    <3>1. After(blocks, a) <= new
      BY <1>2, <2>1 DEF Chain
    <3>2. After(blocks, a) \in Nat
      BY ChainFacts
    <3>. QED  BY <1>2, <3>1, <3>2
  <2>. QED  BY <2>1
<1>4. n # HeapManager!NULL => n \in DOMAIN blocks /\ n # a /\ blocks[n] \in HeapBlock
  <2>1. n # HeapManager!NULL => n = After(blocks, a) /\ n \in DOMAIN blocks
    BY DEF Chain
  <2>2. After(blocks, a) > a
    BY ChainFacts
  <2>. QED  BY <1>1, <2>1, <2>2 DEF Chain
<1>5. S = [x \in DOMAIN blocks \cup {new} |->
             IF x = new THEN rest ELSE HeapManager!Relink(front, n, new)[x]]
  BY DEF HeapManager!SplitBlock
<1>6. /\ DOMAIN front = DOMAIN blocks
      /\ front[a] = HeapManager!Header(size, blocks[a].is_free, new, blocks[a].prev)
      /\ \A x \in DOMAIN blocks \ {a} : front[x] = blocks[x]
  BY <1>1 DEF Chain, HeapBlock, HeapManager!Header
<1>. HIDE DEF front, rest
<1>7. CASE n = HeapManager!NULL
  <2>1. HeapManager!Relink(front, n, new) = front
    BY <1>7 DEF HeapManager!Relink
  <2>2. S[new] = rest /\ \A x \in DOMAIN blocks : S[x] = front[x]
    BY <1>3, <1>5, <2>1
  <2>3. \A x \in DOMAIN blocks \ {a, n} : S[x] = blocks[x]
    BY <1>6, <2>2
  <2>4. S[new] = rest /\ DOMAIN S = DOMAIN blocks \cup {new}
    BY <1>5, <2>2
  <2>. QED  BY <1>2, <1>3, <1>5, <1>6, <1>7, <2>2, <2>3, <2>4 DEF rest, IsSplit
<1>8. CASE n # HeapManager!NULL
  <2>1. HeapManager!Relink(front, n, new) = [front EXCEPT ![n].prev = new]
    BY <1>8 DEF HeapManager!Relink
  <2>2. /\ S[new] = rest /\ \A x \in DOMAIN blocks \ {n} : S[x] = front[x]
        /\ S[n] = [front[n] EXCEPT !.prev = new]
    BY <1>3, <1>4, <1>5, <1>6, <1>8, <2>1
  <2>3. S[n] = HeapManager!Header(blocks[n].size, blocks[n].is_free, blocks[n].next, new)
    BY <1>4, <1>6, <1>8, <2>2 DEF HeapManager!Header, HeapBlock
  <2>4. \A x \in DOMAIN blocks \ {a, n} : S[x] = blocks[x]
    BY <1>6, <2>2
  <2>5. S[a] = HeapManager!Header(size, blocks[a].is_free, new, blocks[a].prev)
    BY <1>4, <1>6, <1>8, <2>2
  <2>6. S[new] = rest /\ DOMAIN S = DOMAIN blocks \cup {new}
    BY <1>5, <2>2
  <2>. QED  BY <1>2, <1>3, <1>4, <1>5, <2>3, <2>4, <2>5, <2>6 DEF rest, IsSplit
<1>. QED  BY <1>7, <1>8

Divided(S, blocks, a, size) ==
  /\ Chain(S) /\ DOMAIN blocks \subseteq DOMAIN S /\ S[a].size >= size
  /\ After(S, a) <= After(blocks, a)
  /\ \A x \in DOMAIN blocks : S[x].is_free = blocks[x].is_free
  /\ \A x \in DOMAIN blocks \ {a} : S[x].size = blocks[x].size
  /\ \A x \in DOMAIN S \ DOMAIN blocks :
       S[x].is_free /\ x = After(S, a) /\ After(S, x) = After(blocks, a)
Merged(J, blocks, a, b) ==
  /\ b \in DOMAIN blocks /\ a < b /\ b = After(blocks, a)
  /\ Chain(J) /\ DOMAIN J = DOMAIN blocks \ {b}
  /\ After(J, a) = After(blocks, b) /\ J[a].size >= blocks[a].size
  /\ \A x \in DOMAIN J \ {a} : J[x].size = blocks[x].size
  /\ \A x \in DOMAIN J : J[x].is_free = blocks[x].is_free
  /\ J[a].prev = blocks[a].prev

(* A split leaves a chain in which the new block is free and all the       *)
(* others are as free as they were.                                        *)
LEMMA SplitChain ==
    ASSUME HeapManager!HeapAssumption, NEW blocks, Chain(blocks), NEW a \in DOMAIN blocks,
           NEW size \in Nat \ {0}, blocks[a].size >= size
    PROVE  Divided(HeapManager!SplitBlock(blocks, a, size), blocks, a, size)
<1>. DEFINE S == HeapManager!SplitBlock(blocks, a, size)
            new == a + HEADER_SIZE + size
            n == blocks[a].next
<1>1. CASE ~(blocks[a].size > size + HEADER_SIZE + BLOCK_SIZE)
  <2>1. S = blocks
    BY <1>1 DEF HeapManager!SplitBlock
  <2>2. After(blocks, a) \in Nat
    BY ChainFacts
  <2>. QED  BY <2>1, <2>2 DEF Divided
<1>2. CASE blocks[a].size > size + HEADER_SIZE + BLOCK_SIZE
  <2>1. /\ new \in Nat /\ new \notin DOMAIN blocks /\ DOMAIN S = DOMAIN blocks \cup {new}
        /\ S[new] = HeapManager!Header(blocks[a].size - size - HEADER_SIZE, TRUE, n, a)
        /\ S[a] = HeapManager!Header(size, blocks[a].is_free, new, blocks[a].prev)
        /\ n # HeapManager!NULL => /\ n \in DOMAIN blocks /\ n # a
                       /\ S[n] = HeapManager!Header(
                                blocks[n].size, blocks[n].is_free, blocks[n].next, new)
        /\ \A x \in DOMAIN blocks \ {a, n} : S[x] = blocks[x]
        /\ S = [x \in DOMAIN S |-> S[x]]
    <3>1. IsSplit(S, blocks, a, size)
      BY <1>2, SplitFacts
    <3>. HIDE DEF S
    <3>. QED  BY <3>1 DEF IsSplit
  <2>2. /\ a \in Nat /\ blocks[a].size \in Nat /\ HEADER_SIZE \in Nat /\ n \in Int
        /\ HeapManager!NULL \notin DOMAIN blocks /\ BLOCK_SIZE \in Nat \ {0}
           /\ memAmount \in Nat /\ blocks[a].is_free \in BOOLEAN
        /\ blocks[a].prev \in Int /\ HeapManager!NULL = -1 /\ After(blocks, a) \in Nat
    BY ChainFacts DEF HeapManager!HeapAssumption, Chain
  <2>. HIDE DEF S
  <2>3. /\ After(S, a) = new /\ After(S, new) = After(blocks, a) /\ a < new
        /\ new < After(blocks, a)
    <3>1. S[a].size = size /\ S[new].size = blocks[a].size - size - HEADER_SIZE
      BY <2>1 DEF HeapManager!Header
    <3>2. After(S, a) = new
      BY <3>1 DEF After
    <3>3. After(S, new) = new + HEADER_SIZE + (blocks[a].size - size - HEADER_SIZE)
      BY <3>1 DEF After
    <3>4. After(blocks, a) = a + HEADER_SIZE + blocks[a].size
      BY DEF After
    <3>. QED  BY <1>2, <2>2, <3>2, <3>3, <3>4
  <2>4. \A x \in DOMAIN blocks :
          /\ x # a => After(S, x) = After(blocks, x) /\ S[x].size = blocks[x].size
          /\ x # a => S[x].next = blocks[x].next
          /\ x # n => S[x].prev = blocks[x].prev
          /\ S[x].is_free = blocks[x].is_free
    <3>1. n # HeapManager!NULL => /\ S[n].size = blocks[n].size /\ S[n].next = blocks[n].next
                      /\ S[n].is_free = blocks[n].is_free
      BY <2>1 DEF HeapManager!Header
    <3>2. S[a].is_free = blocks[a].is_free /\ S[a].prev = blocks[a].prev
      BY <2>1 DEF HeapManager!Header
    <3>. QED  BY <2>1, <2>2, <3>1, <3>2 DEF After
  <2>5. \A x \in DOMAIN blocks : After(blocks, x) \in Nat /\ x \in Nat /\ After(blocks, x) > x
    BY ChainFacts
  <2>6. S \in [DOMAIN S -> HeapBlock]
    <3>1. S[new] \in HeapBlock /\ S[a] \in HeapBlock
      BY <1>2, <2>1, <2>2 DEF HeapManager!Header, HeapBlock
    <3>2. n # HeapManager!NULL => S[n] \in HeapBlock
      BY <2>1, <2>2, ChainFacts DEF HeapManager!Header, HeapBlock
    <3>3. \A x \in DOMAIN blocks \ {a, n} : S[x] \in HeapBlock
      BY <2>1 DEF Chain
    <3>4. \A x \in DOMAIN S : S[x] \in HeapBlock
      BY <2>1, <2>2, <3>1, <3>2, <3>3
    <3>. QED  BY <2>1, <3>4
  <2>7. ASSUME NEW x \in DOMAIN S
        PROVE  IF S[x].next = HeapManager!NULL THEN After(S, x) = memAmount
               ELSE /\ S[x].next = After(S, x) /\ After(S, x) \in DOMAIN S
                    /\ S[After(S, x)].prev = x
    <3>1. CASE x = a
      BY <2>1, <2>2, <2>3, <3>1 DEF HeapManager!Header
    <3>2. CASE x = new
      <4>1. S[new].next = n /\ After(S, new) = After(blocks, a)
        BY <2>1, <2>3 DEF HeapManager!Header
      <4>2. CASE n = HeapManager!NULL
        BY <3>2, <4>1, <4>2 DEF Chain
      <4>3. CASE n # HeapManager!NULL
        <5>1. n = After(blocks, a) /\ n \in DOMAIN S /\ S[n].prev = new
          BY <2>1, <4>3 DEF Chain, HeapManager!Header
        <5>. QED  BY <3>2, <4>1, <4>3, <5>1
      <4>. QED  BY <4>2, <4>3
    <3>3. CASE x \in DOMAIN blocks \ {a}
      <4>1. S[x].next = blocks[x].next /\ After(S, x) = After(blocks, x)
        BY <2>4, <3>3
      <4>2. blocks[x].next # HeapManager!NULL =>
              /\ blocks[x].next = After(blocks, x) /\ After(blocks, x) \in DOMAIN blocks
              /\ blocks[After(blocks, x)].prev = x
        BY <3>3 DEF Chain
      <4>3. blocks[x].next # HeapManager!NULL => blocks[x].next # n
        <5>1. n # HeapManager!NULL => blocks[n].prev = a
          BY DEF Chain
        <5>. QED  BY <3>3, <4>2, <5>1
      <4>. QED  BY <2>1, <2>4, <3>3, <4>1, <4>2, <4>3 DEF Chain
    <3>. QED  BY <2>1, <3>1, <3>2, <3>3
  <2>8. ASSUME NEW x \in DOMAIN S
        PROVE  IF x = 0 THEN S[x].prev = HeapManager!NULL
               ELSE S[x].prev \in DOMAIN S /\ S[S[x].prev].next = x
    <3>1. CASE x = new
      BY <2>1, <2>2, <2>3, <3>1 DEF HeapManager!Header
    <3>2. CASE x \in DOMAIN blocks /\ x = n
      <4>1. n # HeapManager!NULL /\ n # 0 /\ S[n].prev = new
        BY <2>1, <2>2, <2>5, <3>2 DEF Chain, HeapManager!Header
      <4>. QED  BY <2>1, <3>2, <4>1 DEF HeapManager!Header
    <3>3. CASE x \in DOMAIN blocks /\ x # n
      <4>1. S[x].prev = blocks[x].prev
        BY <2>4, <3>3
      <4>2. x # 0 => blocks[x].prev \in DOMAIN blocks /\ blocks[blocks[x].prev].next = x
        BY <3>3 DEF Chain
      <4>3. x # 0 => blocks[x].prev # a
        BY <3>3, <4>2
      <4>4. x = 0 => blocks[x].prev = HeapManager!NULL
        BY <3>3 DEF Chain
      <4>. QED  BY <2>1, <2>4, <4>1, <4>2, <4>3, <4>4
    <3>. QED  BY <2>1, <3>1, <3>2, <3>3
  <2>9. ASSUME NEW x \in DOMAIN S
        PROVE  After(S, x) <= memAmount /\ \A y \in DOMAIN S : x < y => After(S, x) <= y
    <3>1. \A y \in DOMAIN blocks : /\ After(blocks, y) <= memAmount
                                   /\ \A z \in DOMAIN blocks : y < z => After(blocks, y) <= z
      BY DEF Chain
    <3>2. CASE x \in {a, new}
      BY <2>1, <2>2, <2>3, <2>5, <3>1, <3>2
    <3>3. CASE x \in DOMAIN blocks \ {a}
      BY <2>1, <2>2, <2>3, <2>4, <2>5, <3>1, <3>3
    <3>. QED  BY <2>1, <3>2, <3>3
  <2>10. DOMAIN S \subseteq Nat /\ 0 \in DOMAIN S
    BY <2>1, <2>5 DEF Chain
  <2>11. Chain(S)
    BY <2>6, <2>7, <2>8, <2>9, <2>10 DEF Chain
  <2>12. S[a].size >= size /\ S[new].is_free
    BY <2>1, <2>2 DEF HeapManager!Header
  <2>13. Divided(S, blocks, a, size)
    <3>1. After(S, a) <= After(blocks, a)
      BY <2>1, <2>2, <2>3
    <3>2. \A x \in DOMAIN S \ DOMAIN blocks :
            S[x].is_free /\ x = After(S, a) /\ After(S, x) = After(blocks, a)
      BY <2>1, <2>3, <2>12
    <3>3. /\ \A x \in DOMAIN blocks : S[x].is_free = blocks[x].is_free
          /\ \A x \in DOMAIN blocks \ {a} : S[x].size = blocks[x].size
      BY <2>4
    <3>4. DOMAIN blocks \subseteq DOMAIN S
      BY <2>1
    <3>. QED  BY <2>11, <2>12, <3>1, <3>2, <3>3, <3>4 DEF Divided
  <2>. QED  BY <2>13 DEF S
<1>. QED  BY <1>1, <1>2

(* A block joins the one before it.                                        *)
LEMMA JoinFacts ==
    ASSUME HeapManager!HeapAssumption, NEW blocks, Chain(blocks), NEW a \in DOMAIN blocks,
           blocks[a].next # HeapManager!NULL
    PROVE  IsJoin(HeapManager!Join(blocks, a, blocks[a].next), blocks, a, blocks[a].next)
<1>. DEFINE b == blocks[a].next
            m == blocks[b].next
            J == HeapManager!Join(blocks, a, b)
            front == [blocks EXCEPT ![a].size = @ + blocks[b].size + HEADER_SIZE,
                                    ![a].next = m]
<1>1. b \in DOMAIN blocks /\ b = After(blocks, a) /\ a < b
  BY ChainFacts DEF Chain
<1>2. /\ a \in Nat /\ blocks[a] \in HeapBlock /\ b \in Nat /\ blocks[b] \in HeapBlock
      /\ HEADER_SIZE \in Nat /\ m \in Int /\ blocks[a].size \in Nat /\ blocks[b].size \in Nat
      /\ After(blocks, b) > b
  BY <1>1, ChainFacts
<1>3. m # HeapManager!NULL => m \in DOMAIN blocks /\ m # a /\ m # b /\ blocks[m] \in HeapBlock
  BY <1>1, <1>2 DEF Chain
<1>4. /\ DOMAIN front = DOMAIN blocks
      /\ front[a] = HeapManager!Header(blocks[a].size + blocks[b].size + HEADER_SIZE,
                           blocks[a].is_free, m, blocks[a].prev)
      /\ \A x \in DOMAIN blocks \ {a} : front[x] = blocks[x]
  BY <1>1, <1>2 DEF Chain, HeapBlock, HeapManager!Header
<1>5. J = [x \in DOMAIN blocks \ {b} |-> HeapManager!Relink(front, m, a)[x]]
  BY DEF HeapManager!Join, HeapManager!Restrict
<1>. HIDE DEF front
<1>6. CASE m = HeapManager!NULL
  <2>1. HeapManager!Relink(front, m, a) = front
    BY <1>6 DEF HeapManager!Relink
  <2>2. DOMAIN J = DOMAIN blocks \ {b} /\ \A x \in DOMAIN blocks \ {b} : J[x] = front[x]
    BY <1>5, <2>1
  <2>. HIDE DEF J
  <2>3. J[a] = front[a] /\ \A x \in DOMAIN J \ {a, m} : J[x] = blocks[x]
    BY <1>1, <1>2, <1>4, <2>2
  <2>. QED  BY <1>1, <1>4, <1>5, <1>6, <2>2, <2>3 DEF J, IsJoin
<1>7. CASE m # HeapManager!NULL
  <2>1. HeapManager!Relink(front, m, a) = [front EXCEPT ![m].prev = a]
    BY <1>7 DEF HeapManager!Relink
  <2>2. /\ DOMAIN J = DOMAIN blocks \ {b}
        /\ \A x \in DOMAIN blocks \ {b, m} : J[x] = front[x]
        /\ J[m] = [front[m] EXCEPT !.prev = a]
    <3>1. J = [x \in DOMAIN blocks \ {b} |-> [front EXCEPT ![m].prev = a][x]]
      BY <1>5, <2>1
    <3>2. m \in DOMAIN blocks \ {b} /\ m \in DOMAIN front
      BY <1>3, <1>4, <1>7
    <3>. HIDE DEF J, m
    <3>. QED  BY <1>4, <3>1, <3>2
  <2>. HIDE DEF J
  <2>3. J[a] = front[a] /\ \A x \in DOMAIN J \ {a, m} : J[x] = blocks[x]
    BY <1>1, <1>2, <1>3, <1>4, <1>7, <2>2
  <2>4. J[m] = HeapManager!Header(blocks[m].size, blocks[m].is_free, blocks[m].next, a)
    BY <1>3, <1>4, <1>7, <2>2 DEF HeapManager!Header, HeapBlock
  <2>. QED  BY <1>1, <1>3, <1>4, <1>5, <1>7, <2>2, <2>3, <2>4 DEF J, IsJoin
<1>. QED  BY <1>6, <1>7

LEMMA JoinChain ==
    ASSUME HeapManager!HeapAssumption, NEW blocks, Chain(blocks), NEW a \in DOMAIN blocks,
           blocks[a].next # HeapManager!NULL
    PROVE  Merged(HeapManager!Join(blocks, a, blocks[a].next), blocks, a, blocks[a].next)
<1>. DEFINE b == blocks[a].next
            m == blocks[b].next
            J == HeapManager!Join(blocks, a, b)
<1>1. /\ b \in DOMAIN blocks /\ a < b /\ DOMAIN J = DOMAIN blocks \ {b}
      /\ J[a] = HeapManager!Header(blocks[a].size + blocks[b].size + HEADER_SIZE,
                       blocks[a].is_free, m, blocks[a].prev)
      /\ m # HeapManager!NULL => /\ m \in DOMAIN J \ {a}
                     /\ J[m] = HeapManager!Header(
                              blocks[m].size, blocks[m].is_free, blocks[m].next, a)
      /\ \A x \in DOMAIN J \ {a, m} : J[x] = blocks[x]
      /\ J = [x \in DOMAIN J |-> J[x]]
  <2>1. IsJoin(J, blocks, a, b)
    BY JoinFacts
  <2>. HIDE DEF J
  <2>. QED  BY <2>1 DEF IsJoin
<1>2. b = After(blocks, a)
  BY DEF Chain
<1>3. /\ a \in Nat /\ blocks[a] \in HeapBlock /\ b \in Nat /\ blocks[b] \in HeapBlock
      /\ HEADER_SIZE \in Nat /\ m \in Int /\ blocks[a].size \in Nat \ {0}
         /\ blocks[b].size \in Nat \ {0}
      /\ After(blocks, b) > b /\ HeapManager!NULL = -1 /\ After(blocks, b) \in Nat
         /\ memAmount \in Nat
      /\ blocks[a].is_free \in BOOLEAN /\ blocks[a].prev \in Int
         /\ HeapManager!NULL \notin DOMAIN blocks
  BY <1>1, ChainFacts DEF Chain
<1>. HIDE DEF J
<1>4. After(J, a) = After(blocks, b)
  BY <1>1, <1>2, <1>3 DEF After, HeapManager!Header
<1>5. \A x \in DOMAIN J :
        /\ x # a => /\ After(J, x) = After(blocks, x) /\ J[x].size = blocks[x].size
                    /\ J[x].next = blocks[x].next
        /\ x # m => J[x].prev = blocks[x].prev
        /\ J[x].is_free = blocks[x].is_free /\ x \in DOMAIN blocks
  <2>1. m # HeapManager!NULL => /\ J[m].size = blocks[m].size /\ J[m].next = blocks[m].next
                    /\ J[m].is_free = blocks[m].is_free
    BY <1>1 DEF HeapManager!Header
  <2>2. J[a].is_free = blocks[a].is_free /\ J[a].prev = blocks[a].prev
    BY <1>1 DEF HeapManager!Header
  <2>. QED  BY <1>1, <1>3, <2>1, <2>2 DEF After
<1>6. \A x \in DOMAIN blocks : After(blocks, x) \in Nat /\ x \in Nat /\ After(blocks, x) > x
  BY ChainFacts
<1>7. J \in [DOMAIN J -> HeapBlock]
  <2>1. J[a] \in HeapBlock
    BY <1>1, <1>3 DEF HeapManager!Header, HeapBlock
  <2>2. m # HeapManager!NULL => J[m] \in HeapBlock
    BY <1>1, ChainFacts DEF HeapManager!Header, HeapBlock
  <2>3. \A x \in DOMAIN J \ {a, m} : J[x] \in HeapBlock
    BY <1>1 DEF Chain
  <2>4. \A x \in DOMAIN J : J[x] \in HeapBlock
    BY <1>1, <1>3, <1>6, <2>1, <2>2, <2>3
  <2>. QED  BY <1>1, <2>4
<1>8. ASSUME NEW x \in DOMAIN J
      PROVE  IF J[x].next = HeapManager!NULL THEN After(J, x) = memAmount
             ELSE /\ J[x].next = After(J, x) /\ After(J, x) \in DOMAIN J
                  /\ J[After(J, x)].prev = x
  <2>1. CASE x = a
    <3>1. J[a].next = m
      BY <1>1 DEF HeapManager!Header
    <3>2. m = HeapManager!NULL => After(blocks, b) = memAmount
      BY <1>1 DEF Chain
    <3>3. m # HeapManager!NULL => m = After(blocks, b) /\ m \in DOMAIN J /\ J[m].prev = a
      BY <1>1 DEF Chain, HeapManager!Header
    <3>. QED  BY <1>4, <2>1, <3>1, <3>2, <3>3
  <2>2. CASE x # a
    <3>1. J[x].next = blocks[x].next /\ After(J, x) = After(blocks, x) /\ x \in DOMAIN blocks
      BY <1>5, <2>2
    <3>2. blocks[x].next # HeapManager!NULL =>
            /\ blocks[x].next = After(blocks, x) /\ After(blocks, x) \in DOMAIN blocks
            /\ blocks[After(blocks, x)].prev = x
      BY <3>1 DEF Chain
    <3>3. blocks[x].next # HeapManager!NULL => blocks[x].next # b
      <4>1. blocks[b].prev = a
        BY <1>2 DEF Chain
      <4>. QED  BY <2>2, <3>2, <4>1
    <3>4. blocks[x].next # HeapManager!NULL => blocks[x].next # m
      <4>1. m # HeapManager!NULL => blocks[m].prev = b
        BY <1>1 DEF Chain
      <4>. QED  BY <1>1, <3>2, <4>1
    <3>5. blocks[x].next = HeapManager!NULL => After(blocks, x) = memAmount
      BY <3>1 DEF Chain
    <3>. QED  BY <1>1, <1>5, <3>1, <3>2, <3>3, <3>4, <3>5
  <2>. QED  BY <2>1, <2>2
<1>9. ASSUME NEW x \in DOMAIN J
      PROVE  IF x = 0 THEN J[x].prev = HeapManager!NULL
             ELSE J[x].prev \in DOMAIN J /\ J[J[x].prev].next = x
  <2>1. CASE x = m
    <3>1. m # HeapManager!NULL /\ m # 0 /\ J[m].prev = a /\ J[a].next = m /\ a \in DOMAIN J
      <4>1. m # HeapManager!NULL
        BY <1>3, <1>5, <1>6, <2>1
      <4>2. m = After(blocks, b) /\ J[m].prev = a /\ J[a].next = m
        BY <1>1, <4>1 DEF Chain, HeapManager!Header
      <4>. QED  BY <1>1, <1>3, <4>1, <4>2
    <3>. QED  BY <2>1, <3>1
  <2>2. CASE x # m
    <3>1. J[x].prev = blocks[x].prev /\ x \in DOMAIN blocks /\ x # b
      BY <1>1, <1>5, <2>2
    <3>2. x # 0 => blocks[x].prev \in DOMAIN blocks /\ blocks[blocks[x].prev].next = x
      BY <3>1 DEF Chain
    <3>3. x = 0 => blocks[x].prev = HeapManager!NULL
      BY <3>1 DEF Chain
    <3>4. x # 0 => blocks[x].prev # b /\ blocks[x].prev # a
      BY <2>2, <3>1, <3>2
    <3>. QED  BY <1>1, <1>5, <3>1, <3>2, <3>3, <3>4
  <2>. QED  BY <2>1, <2>2
<1>10. ASSUME NEW x \in DOMAIN J
       PROVE  After(J, x) <= memAmount /\ \A y \in DOMAIN J : x < y => After(J, x) <= y
  <2>1. \A y \in DOMAIN blocks : /\ After(blocks, y) <= memAmount
                                 /\ \A z \in DOMAIN blocks : y < z => After(blocks, y) <= z
    BY DEF Chain
  <2>2. CASE x = a
    <3>1. After(J, a) <= memAmount
      BY <1>1, <1>4, <2>1
    <3>2. ASSUME NEW y \in DOMAIN J, a < y PROVE After(J, a) <= y
      <4>1. b <= y /\ y # b /\ y \in DOMAIN blocks /\ y \in Nat
        BY <1>1, <1>2, <1>6, <2>1, <3>2
      <4>. QED  BY <1>1, <1>3, <1>4, <2>1, <4>1
    <3>. QED  BY <2>2, <3>1, <3>2
  <2>3. CASE x # a
    BY <1>1, <1>5, <2>1, <2>3
  <2>. QED  BY <2>2, <2>3
<1>11. DOMAIN J \subseteq Nat /\ 0 \in DOMAIN J
  BY <1>1, <1>3, <1>6 DEF Chain
<1>12. Chain(J)
  BY <1>7, <1>8, <1>9, <1>10, <1>11 DEF Chain
<1>13. J[a].size >= blocks[a].size /\ J[a].prev = blocks[a].prev
  BY <1>1, <1>3 DEF HeapManager!Header
<1>. QED  BY <1>1, <1>2, <1>4, <1>5, <1>12, <1>13 DEF J, Merged

LEMMA MarkChain ==
    ASSUME HeapManager!HeapAssumption, NEW blocks, Chain(blocks), NEW a \in DOMAIN blocks,
           NEW f \in BOOLEAN
    PROVE  LET M == [blocks EXCEPT ![a].is_free = f]
           IN /\ Chain(M) /\ DOMAIN M = DOMAIN blocks /\ M[a].is_free = f
              /\ \A x \in DOMAIN blocks : /\ M[x].size = blocks[x].size
                                          /\ After(M, x) = After(blocks, x)
                                          /\ x # a => M[x].is_free = blocks[x].is_free
<1>. DEFINE M == [blocks EXCEPT ![a].is_free = f]
<1>1. blocks \in [DOMAIN blocks -> HeapBlock]
  BY DEF Chain
<1>2. M \in [DOMAIN blocks -> HeapBlock] /\ DOMAIN M = DOMAIN blocks /\ M[a].is_free = f
  BY <1>1 DEF HeapBlock
<1>3. \A x \in DOMAIN blocks :
        /\ M[x].size = blocks[x].size /\ M[x].next = blocks[x].next
        /\ M[x].prev = blocks[x].prev
        /\ x # a => M[x].is_free = blocks[x].is_free
  BY <1>1 DEF HeapBlock
<1>. HIDE DEF M
<1>4. \A x \in DOMAIN blocks : After(M, x) = After(blocks, x)
  BY <1>3 DEF After
<1>5. Chain(M)
  BY <1>2, <1>3, <1>4 DEF Chain
<1>. QED  BY <1>2, <1>3, <1>4, <1>5 DEF M

LEMMA AlignedUp ==
    ASSUME HeapManager!HeapAssumption, NEW size \in HeapSizes
    PROVE  HeapManager!Aligned(size) \in Nat \ {0} /\ HeapManager!Aligned(size) >= size
           /\ size \in Nat \ {0}
<1>1. size \in Nat \ {0} /\ BLOCK_SIZE \in Nat \ {0}
  BY DEF HeapManager!HeapAssumption
<1>. DEFINE n == size + BLOCK_SIZE - 1
            q == n \div BLOCK_SIZE
<1>2. q \in Nat /\ n = (BLOCK_SIZE * q) + (n % BLOCK_SIZE)
      /\ n % BLOCK_SIZE \in 0 .. BLOCK_SIZE - 1
  BY <1>1
<1>3. BLOCK_SIZE * q \in Nat /\ BLOCK_SIZE * q >= size /\ q * BLOCK_SIZE = BLOCK_SIZE * q
  <2>. DEFINE r == n % BLOCK_SIZE
              m == BLOCK_SIZE * q
  <2>1. m \in Nat /\ q * BLOCK_SIZE = m
    BY <1>1, <1>2
  <2>2. n = m + r /\ r \in 0 .. BLOCK_SIZE - 1 /\ n = size + BLOCK_SIZE - 1
    BY <1>2
  <2>. HIDE DEF r, m, n
  <2>. QED  BY <1>1, <2>1, <2>2 DEF m
<1>. QED  BY <1>1, <1>3 DEF HeapManager!Aligned

(* The block that first fit takes.                                         *)
LEMMA FirstFit ==
    ASSUME HeapManager!HeapAssumption, Chain(block), NEW size \in HeapSizes,
           HeapManager!Fits(size) # {}
    PROVE  /\ HeapManager!Min(HeapManager!Fits(size)) \in DOMAIN block
              /\ block[HeapManager!Min(HeapManager!Fits(size))].is_free
           /\ block[HeapManager!Min(HeapManager!Fits(size))].size >= HeapManager!Aligned(size)
<1>1. HeapManager!Fits(size) \subseteq Nat
  BY DEF HeapManager!Fits, Chain
<1>2. \E x \in HeapManager!Fits(size) : \A y \in HeapManager!Fits(size) : x <= y
  BY <1>1, LeastNatural
<1>3. HeapManager!Min(HeapManager!Fits(size)) \in HeapManager!Fits(size)
  BY <1>2 DEF HeapManager!Min
<1>. QED  BY <1>3 DEF HeapManager!Fits

LEMMA HeapAllocKeeps ==
    ASSUME HeapManager!HeapAssumption, HeapInv, NEW size \in HeapSizes,
           HeapManager!AllocMemory(size)
    PROVE  HeapInv' /\ \E a \in DOMAIN block :
             /\ block[a].is_free
             /\ heapHanded' = heapHanded \cup {[ptr |-> a + HEADER_SIZE, size |-> size]}
<1>. DEFINE a == HeapManager!Min(HeapManager!Fits(size))
            al == HeapManager!Aligned(size)
            M == [block EXCEPT ![a].is_free = FALSE]
            S == HeapManager!SplitBlock(M, a, al)
            piece == [ptr |-> a + HEADER_SIZE, size |-> size]
<1>1. HeapManager!Fits(size) # {} /\ block' = S /\ heapHanded' = heapHanded \cup {piece}
  BY DEF HeapManager!AllocMemory
<1>2. Chain(block) /\ Owned(block, heapHanded)
      /\ \A x, y \in DOMAIN block : ~Twins(block, x, y)
  BY DEF HeapInv
<1>3. a \in DOMAIN block /\ block[a].is_free /\ block[a].size >= al
  BY <1>1, <1>2, FirstFit
<1>4. al \in Nat \ {0} /\ al >= size /\ size \in Nat
  BY AlignedUp
<1>. HIDE DEF a, al
<1>5. /\ Chain(M) /\ DOMAIN M = DOMAIN block /\ M[a].is_free = FALSE
      /\ \A x \in DOMAIN block : /\ M[x].size = block[x].size
                                 /\ After(M, x) = After(block, x)
                                 /\ x # a => M[x].is_free = block[x].is_free
  BY <1>2, <1>3, MarkChain
<1>. HIDE DEF M
<1>6. Divided(S, M, a, al)
  BY <1>3, <1>4, <1>5, SplitChain
<1>. HIDE DEF S
<1>7. /\ Chain(S) /\ DOMAIN block \subseteq DOMAIN S /\ S[a].size >= al
      /\ \A x \in DOMAIN block : S[x].is_free = M[x].is_free
      /\ \A x \in DOMAIN block \ {a} : S[x].size = block[x].size
      /\ \A x \in DOMAIN S \ DOMAIN block :
           S[x].is_free /\ x = After(S, a) /\ After(S, x) = After(block, a)
  BY <1>3, <1>5, <1>6 DEF Divided
<1>8. \A x \in DOMAIN S : x \in Nat /\ S[x].size \in Nat /\ After(S, x) \in Nat
      /\ After(S, x) > x
  BY <1>7, ChainFacts
<1>9. a \in Nat /\ HEADER_SIZE \in Nat
  BY <1>2, <1>3, ChainFacts
<1>10. Owned(S, heapHanded \cup {piece})
  <2>1. \A p \in heapHanded : /\ p \in [ptr : Nat, size : HeapSizes]
                                 /\ p.ptr - HEADER_SIZE \in DOMAIN block
                          /\ ~block[p.ptr - HEADER_SIZE].is_free
                          /\ p.size <= block[p.ptr - HEADER_SIZE].size
    BY <1>2 DEF Owned
  <2>2. \A p \in heapHanded : p.ptr - HEADER_SIZE # a /\ p.ptr # piece.ptr
    BY <1>3, <1>9, <2>1
  <2>3. ASSUME NEW p \in heapHanded \cup {piece}
        PROVE  /\ p \in [ptr : Nat, size : HeapSizes] /\ p.ptr - HEADER_SIZE \in DOMAIN S
               /\ ~S[p.ptr - HEADER_SIZE].is_free
               /\ p.size <= S[p.ptr - HEADER_SIZE].size
    <3>1. CASE p \in heapHanded
      BY <1>5, <1>7, <2>1, <2>2, <3>1
    <3>2. CASE p = piece
      <4>1. p.ptr - HEADER_SIZE = a /\ p.size = size /\ p \in [ptr : Nat, size : HeapSizes]
        BY <1>9, <3>2
      <4>. QED  BY <1>3, <1>4, <1>5, <1>7, <1>8, <4>1
    <3>. QED  BY <3>1, <3>2
  <2>4. \A p, q \in heapHanded \cup {piece} : p.ptr = q.ptr => p = q
    BY <1>2, <2>2 DEF Owned
  <2>5. ASSUME NEW x \in DOMAIN S, ~S[x].is_free
        PROVE  \E p \in heapHanded \cup {piece} : p.ptr = x + HEADER_SIZE
    <3>1. x \in DOMAIN block
      BY <1>7, <2>5
    <3>2. CASE x = a
      <4>1. piece \in heapHanded \cup {piece} /\ piece.ptr = x + HEADER_SIZE
        BY <3>2
      <4>. QED  BY <4>1
    <3>3. CASE x # a
      <4>1. ~block[x].is_free
        BY <1>5, <1>7, <2>5, <3>1, <3>3
      <4>2. PICK p \in heapHanded : p.ptr = x + HEADER_SIZE
        BY <1>2, <3>1, <4>1 DEF Owned
      <4>. QED  BY <4>2
    <3>. QED  BY <3>2, <3>3
  <2>. QED  BY <2>3, <2>4, <2>5 DEF Owned
<1>11. ASSUME NEW x \in DOMAIN S, NEW y \in DOMAIN S, Twins(S, x, y) PROVE FALSE
  <2>1. /\ y = After(S, x) /\ S[x].is_free /\ S[y].is_free /\ x # a /\ y # a /\ x < y
    BY <1>3, <1>5, <1>7, <1>8, <1>11 DEF Twins
  <2>2. CASE x \in DOMAIN block /\ y \in DOMAIN block
    <3>1. block[x].is_free /\ block[y].is_free /\ After(S, x) = After(block, x)
      BY <1>5, <1>7, <2>1, <2>2 DEF After
    <3>. QED  BY <1>2, <2>1, <2>2, <3>1 DEF Twins
  <2>3. CASE x \in DOMAIN block /\ y \notin DOMAIN block
    <3>1. y = After(S, a)
      BY <1>7, <2>3
    <3>2. (x < a => After(S, x) <= a) /\ (a < x => After(S, a) <= x)
      BY <1>3, <1>7 DEF Chain
    <3>. QED  BY <1>3, <1>7, <1>8, <2>1, <3>1, <3>2
  <2>4. CASE x \notin DOMAIN block
    <3>1. x = After(S, a) /\ y = After(block, a)
      BY <1>7, <2>1, <2>4
    <3>2. y \in DOMAIN block
      BY <1>7, <1>8, <2>1, <3>1
    <3>3. block[y].is_free
      BY <1>5, <1>7, <2>1, <3>2
    <3>. QED  BY <1>2, <1>3, <3>1, <3>2, <3>3 DEF Twins
  <2>. QED  BY <2>2, <2>3, <2>4
<1>12. HeapInv'
  BY <1>1, <1>7, <1>10, <1>11 DEF HeapInv
<1>. QED  BY <1>1, <1>3, <1>12

(* What merging leaves of the blocks: those in use stay as they are.       *)
Kept(K, blocks) ==
  /\ Chain(K) /\ DOMAIN K \subseteq DOMAIN blocks
  /\ \A x \in DOMAIN K : /\ K[x].is_free = blocks[x].is_free
                         /\ K[x].size >= blocks[x].size
  /\ \A x \in DOMAIN blocks : ~blocks[x].is_free => x \in DOMAIN K
     /\ K[x].size = blocks[x].size

LEMMA KeptTwice ==
    ASSUME HeapManager!HeapAssumption, NEW blocks, NEW K, NEW L, Chain(blocks),
           Kept(K, blocks), Kept(L, K)
    PROVE  Kept(L, blocks)
<1>1. /\ \A x \in DOMAIN blocks : blocks[x].size \in Nat
      /\ \A x \in DOMAIN K : K[x].size \in Nat
      /\ \A x \in DOMAIN L : L[x].size \in Nat
  BY ChainFacts DEF Kept
<1>2. DOMAIN L \subseteq DOMAIN blocks /\ Chain(L)
  BY DEF Kept
<1>3. ASSUME NEW x \in DOMAIN L
      PROVE  L[x].is_free = blocks[x].is_free /\ L[x].size >= blocks[x].size
  <2>1. x \in DOMAIN K /\ x \in DOMAIN blocks
    BY DEF Kept
  <2>2. /\ L[x].is_free = K[x].is_free /\ K[x].is_free = blocks[x].is_free
        /\ L[x].size >= K[x].size /\ K[x].size >= blocks[x].size
    BY <2>1 DEF Kept
  <2>. QED  BY <1>1, <2>1, <2>2
<1>4. ASSUME NEW x \in DOMAIN blocks, ~blocks[x].is_free
      PROVE  x \in DOMAIN L /\ L[x].size = blocks[x].size
  <2>1. x \in DOMAIN K /\ K[x].size = blocks[x].size /\ ~K[x].is_free
    BY <1>4 DEF Kept
  <2>. QED  BY <2>1 DEF Kept
<1>. QED  BY <1>2, <1>3, <1>4 DEF Kept

LEMMA KeptOwned ==
    ASSUME NEW blocks, NEW K, Kept(K, blocks), NEW pieces, Owned(blocks, pieces)
    PROVE  Owned(K, pieces)
<1>1. ASSUME NEW p \in pieces
      PROVE  /\ p \in [ptr : Nat, size : HeapSizes] /\ p.ptr - HEADER_SIZE \in DOMAIN K
             /\ ~K[p.ptr - HEADER_SIZE].is_free
             /\ p.size <= K[p.ptr - HEADER_SIZE].size
  BY DEF Owned, Kept
<1>2. \A p, q \in pieces : p.ptr = q.ptr => p = q
  BY DEF Owned
<1>3. ASSUME NEW a \in DOMAIN K, ~K[a].is_free
      PROVE  \E p \in pieces : p.ptr = a + HEADER_SIZE
  BY <1>3 DEF Owned, Kept
<1>. QED  BY <1>1, <1>2, <1>3 DEF Owned

LEMMA MergedKept ==
    ASSUME HeapManager!HeapAssumption, NEW blocks, Chain(blocks), NEW a \in DOMAIN blocks,
           NEW b, NEW J,
           Merged(J, blocks, a, b), blocks[a].is_free, blocks[b].is_free
    PROVE  Kept(J, blocks) /\ a \in DOMAIN J
<1>1. a \in Nat /\ b \in Nat /\ \A x \in DOMAIN blocks : blocks[x].size \in Nat
  BY ChainFacts DEF Merged
<1>. QED  BY <1>1 DEF Kept, Merged

(* The block that follows joins the freed one a, when it is free: then no  *)
(* free block follows a.                                                   *)
LEMMA NextJoins ==
    ASSUME HeapManager!HeapAssumption, NEW blocks, Chain(blocks), NEW a \in DOMAIN blocks,
           blocks[a].is_free,
           \A x, y \in DOMAIN blocks : Twins(blocks, x, y) => x = a \/ y = a
    PROVE  /\ Kept(HeapManager!CoalesceNext(blocks, a), blocks)
              /\ a \in DOMAIN HeapManager!CoalesceNext(blocks, a)
           /\ \A x, y \in DOMAIN HeapManager!CoalesceNext(blocks, a) :
                Twins(HeapManager!CoalesceNext(blocks, a), x, y) => y = a
<1>. DEFINE b == blocks[a].next
            K == HeapManager!CoalesceNext(blocks, a)
<1>1. CASE ~HeapManager!IsFree(blocks, b)
  <2>1. K = blocks
    BY <1>1 DEF HeapManager!CoalesceNext
  <2>2. ASSUME NEW y \in DOMAIN blocks, Twins(blocks, a, y) PROVE FALSE
    <3>1. y = After(blocks, a) /\ blocks[y].is_free
      BY <2>2 DEF Twins
    <3>2. After(blocks, y) > y /\ After(blocks, y) <= memAmount /\ y \in Nat
          /\ After(blocks, y) \in Nat /\ memAmount \in Nat
      BY ChainFacts DEF Chain
    <3>3. b # HeapManager!NULL => b = y
      BY <3>1 DEF Chain
    <3>4. b # HeapManager!NULL
      BY <3>1, <3>2 DEF Chain
    <3>. QED  BY <1>1, <3>1, <3>3, <3>4 DEF HeapManager!IsFree
  <2>3. \A x \in DOMAIN blocks : blocks[x].size \in Nat
    BY ChainFacts
  <2>4. Kept(blocks, blocks)
    BY <2>3 DEF Kept
  <2>. QED  BY <2>1, <2>2, <2>4
<1>2. CASE HeapManager!IsFree(blocks, b)
  <2>1. b # HeapManager!NULL /\ blocks[b].is_free
    BY <1>2 DEF HeapManager!IsFree
  <2>2. Merged(HeapManager!Join(blocks, a, b), blocks, a, b)
    BY <2>1, JoinChain
  <2>3. K = HeapManager!Join(blocks, a, b)
    BY <1>2 DEF HeapManager!CoalesceNext
  <2>4. Merged(K, blocks, a, b)
    BY <2>2, <2>3
  <2>. HIDE DEF K
  <2>5. Kept(K, blocks) /\ a \in DOMAIN K
    BY <2>1, <2>4, MergedKept
  <2>6. /\ b = After(blocks, a) /\ a < b /\ b \in DOMAIN blocks
        /\ DOMAIN K = DOMAIN blocks \ {b} /\ After(K, a) = After(blocks, b)
        /\ \A x \in DOMAIN K : K[x].is_free = blocks[x].is_free
        /\ \A x \in DOMAIN K \ {a} : K[x].size = blocks[x].size
    BY <2>4 DEF Merged
  <2>7. /\ a \in Nat /\ b \in Nat /\ After(blocks, b) \in Nat /\ After(blocks, b) > b
    BY <2>6, ChainFacts
  <2>8. ASSUME NEW x \in DOMAIN K, NEW y \in DOMAIN K, Twins(K, x, y), y # a PROVE FALSE
    <3>1. y = After(K, x) /\ blocks[x].is_free /\ blocks[y].is_free /\ y \in DOMAIN blocks
          /\ x \in DOMAIN blocks
      BY <2>6, <2>8 DEF Twins
    <3>2. CASE x = a
      <4>1. Twins(blocks, b, y)
        BY <2>1, <2>6, <3>1, <3>2 DEF Twins
      <4>. QED  BY <2>6, <2>7, <2>8, <3>1, <4>1
    <3>3. CASE x # a
      <4>1. After(K, x) = After(blocks, x)
        BY <2>6, <3>3 DEF After
      <4>2. Twins(blocks, x, y)
        BY <3>1, <4>1 DEF Twins
      <4>. QED  BY <2>8, <3>1, <3>3, <4>2
    <3>. QED  BY <3>2, <3>3
  <2>. QED  BY <2>5, <2>8 DEF K
<1>. QED  BY <1>1, <1>2

(* It joins the one before it, when that is free: then no two free blocks  *)
(* lie side by side.                                                       *)
LEMMA PrevJoins ==
    ASSUME HeapManager!HeapAssumption, NEW K, Chain(K), NEW a \in DOMAIN K, K[a].is_free,
           \A x, y \in DOMAIN K : Twins(K, x, y) => y = a
    PROVE  /\ Kept(HeapManager!CoalescePrev(K, a), K)
           /\ \A x, y \in DOMAIN HeapManager!CoalescePrev(K, a) :
              ~Twins(HeapManager!CoalescePrev(K, a), x, y)
<1>. DEFINE p == K[a].prev
            J == HeapManager!CoalescePrev(K, a)
<1>1. CASE ~HeapManager!IsFree(K, p)
  <2>1. J = K
    BY <1>1 DEF HeapManager!CoalescePrev
  <2>2. ASSUME NEW x \in DOMAIN K, Twins(K, x, a) PROVE FALSE
    <3>1. a = After(K, x) /\ K[x].is_free /\ a \in Nat /\ x \in Nat /\ a > x
      BY <2>2, ChainFacts DEF Twins
    <3>2. After(K, a) > a /\ After(K, a) <= memAmount
          /\ After(K, a) \in Nat /\ memAmount \in Nat
      BY ChainFacts DEF Chain
    <3>3. K[x].next # HeapManager!NULL
      BY <3>1, <3>2 DEF Chain
    <3>4. p = x
      BY <3>1, <3>3 DEF Chain
    <3>5. p # HeapManager!NULL
      BY <3>1, <3>4 DEF HeapManager!NULL
    <3>. QED  BY <1>1, <3>1, <3>4, <3>5 DEF HeapManager!IsFree
  <2>3. \A x \in DOMAIN K : K[x].size \in Nat
    BY ChainFacts
  <2>4. Kept(K, K)
    BY <2>3 DEF Kept
  <2>. QED  BY <2>1, <2>2, <2>4
<1>2. CASE HeapManager!IsFree(K, p)
  <2>1. p # HeapManager!NULL /\ K[p].is_free
    BY <1>2 DEF HeapManager!IsFree
  <2>2. p \in DOMAIN K /\ K[p].next = a
    BY <2>1 DEF Chain
  <2>3. a # HeapManager!NULL /\ a \in Nat /\ p \in Nat
    BY <2>2, ChainFacts DEF HeapManager!NULL
  <2>4. Merged(HeapManager!Join(K, p, a), K, p, a)
    BY <2>2, <2>3, JoinChain
  <2>5. J = HeapManager!Join(K, p, a)
    BY <1>2 DEF HeapManager!CoalescePrev
  <2>6. Merged(J, K, p, a)
    BY <2>4, <2>5
  <2>. HIDE DEF J, p
  <2>7. Kept(J, K)
    BY <2>1, <2>2, <2>6, MergedKept
  <2>8. /\ p < a /\ DOMAIN J = DOMAIN K \ {a} /\ After(J, p) = After(K, a)
        /\ \A x \in DOMAIN J : J[x].is_free = K[x].is_free
        /\ \A x \in DOMAIN J \ {p} : J[x].size = K[x].size
    BY <2>6 DEF Merged
  <2>9. ASSUME NEW x \in DOMAIN J, NEW y \in DOMAIN J, Twins(J, x, y) PROVE FALSE
    <3>1. y = After(J, x) /\ K[x].is_free /\ K[y].is_free /\ y \in DOMAIN K /\ x \in DOMAIN K
          /\ y # a /\ x # a
      BY <2>8, <2>9 DEF Twins
    <3>2. CASE x = p
      <4>1. Twins(K, a, y)
        BY <2>8, <3>1, <3>2 DEF Twins
      <4>. QED  BY <3>1, <4>1
    <3>3. CASE x # p
      <4>1. After(J, x) = After(K, x)
        BY <2>8, <3>3 DEF After
      <4>2. Twins(K, x, y)
        BY <3>1, <4>1 DEF Twins
      <4>. QED  BY <3>1, <4>2
    <3>. QED  BY <3>2, <3>3
  <2>. QED  BY <2>7, <2>9 DEF J
<1>. QED  BY <1>1, <1>2

LEMMA HeapFreeKeeps ==
    ASSUME HeapManager!HeapAssumption, HeapInv, NEW piece \in heapHanded,
           HeapManager!FreeMemory(piece)
    PROVE  HeapInv'
<1>. DEFINE a == piece.ptr - HEADER_SIZE
            M == [block EXCEPT ![a].is_free = TRUE]
            K == HeapManager!CoalesceNext(M, a)
            L == HeapManager!CoalesceNext(K, a)
            J == HeapManager!CoalescePrev(L, a)
            rest == heapHanded \ {piece}
<1>1. block' = J /\ heapHanded' = rest
  BY DEF HeapManager!FreeMemory, HeapManager!Coalesce
<1>2. Chain(block) /\ Owned(block, heapHanded)
      /\ \A x, y \in DOMAIN block : ~Twins(block, x, y)
  BY DEF HeapInv
<1>3. a \in DOMAIN block /\ ~block[a].is_free /\ piece.ptr = a + HEADER_SIZE
      /\ HEADER_SIZE \in Nat
  <2>1. a \in DOMAIN block /\ ~block[a].is_free /\ piece.ptr \in Nat
    BY <1>2 DEF Owned
  <2>. QED  BY <2>1 DEF HeapManager!HeapAssumption
<1>. HIDE DEF a
<1>4. /\ Chain(M) /\ DOMAIN M = DOMAIN block /\ M[a].is_free = TRUE
      /\ \A x \in DOMAIN block : /\ M[x].size = block[x].size
                                 /\ After(M, x) = After(block, x)
                                 /\ x # a => M[x].is_free = block[x].is_free
  BY <1>2, <1>3, MarkChain
<1>. HIDE DEF M
<1>5. ASSUME NEW x \in DOMAIN M, NEW y \in DOMAIN M, Twins(M, x, y), x # a, y # a PROVE FALSE
  BY <1>2, <1>4, <1>5 DEF Twins
<1>6. Owned(M, rest)
  <2>1. \A q \in heapHanded : q.ptr = piece.ptr => q = piece
    BY <1>2 DEF Owned
  <2>2. ASSUME NEW q \in rest
        PROVE  /\ q \in [ptr : Nat, size : HeapSizes] /\ q.ptr - HEADER_SIZE \in DOMAIN M
               /\ ~M[q.ptr - HEADER_SIZE].is_free
               /\ q.size <= M[q.ptr - HEADER_SIZE].size
    <3>1. /\ q \in [ptr : Nat, size : HeapSizes] /\ q.ptr - HEADER_SIZE \in DOMAIN block
          /\ ~block[q.ptr - HEADER_SIZE].is_free
          /\ q.size <= block[q.ptr - HEADER_SIZE].size
      BY <1>2 DEF Owned
    <3>2. q.ptr - HEADER_SIZE # a
      BY <1>3, <2>1, <3>1
    <3>. QED  BY <1>4, <3>1, <3>2
  <2>3. ASSUME NEW x \in DOMAIN M, ~M[x].is_free
        PROVE  \E q \in rest : q.ptr = x + HEADER_SIZE
    <3>1. x \in DOMAIN block /\ ~block[x].is_free /\ x # a
      BY <1>4, <2>3
    <3>2. PICK q \in heapHanded : q.ptr = x + HEADER_SIZE
      BY <1>2, <3>1 DEF Owned
    <3>3. x \in Nat /\ a \in Nat
      BY <1>2, <1>3, <3>1 DEF Chain
    <3>4. q # piece
      BY <1>3, <3>1, <3>2, <3>3
    <3>. QED  BY <3>2, <3>4
  <2>4. \A q, r \in rest : q.ptr = r.ptr => q = r
    BY <1>2 DEF Owned
  <2>. QED  BY <2>2, <2>3, <2>4 DEF Owned
<1>7. Kept(K, M) /\ a \in DOMAIN K /\ \A x, y \in DOMAIN K : Twins(K, x, y) => y = a
  BY <1>3, <1>4, <1>5, NextJoins
<1>. HIDE DEF K
<1>8. K[a].is_free /\ Chain(K)
  BY <1>4, <1>7 DEF Kept
<1>9. Kept(L, K) /\ a \in DOMAIN L /\ \A x, y \in DOMAIN L : Twins(L, x, y) => y = a
  BY <1>7, <1>8, NextJoins
<1>. HIDE DEF L
<1>10. L[a].is_free /\ Chain(L)
  BY <1>8, <1>9 DEF Kept
<1>11. Kept(J, L) /\ \A x, y \in DOMAIN J : ~Twins(J, x, y)
  BY <1>9, <1>10, PrevJoins
<1>. HIDE DEF J, rest
<1>12. Owned(J, rest)
  <2>1. Owned(K, rest)
    BY <1>6, <1>7, KeptOwned
  <2>2. Owned(L, rest)
    BY <1>9, <2>1, KeptOwned
  <2>. QED  BY <1>11, <2>2, KeptOwned
<1>. QED  BY <1>1, <1>11, <1>12 DEF HeapInv, Kept

LEMMA HeapStarts == ASSUME HeapManager!HeapAssumption, HeapManager!Init PROVE HeapInv
<1>1. /\ DOMAIN block = {0} /\ heapHanded = {} /\ HeapManager!NULL = -1
      /\ block[0] = HeapManager!Header(memAmount - HEADER_SIZE, TRUE,
                                        HeapManager!NULL, HeapManager!NULL)
      /\ block = [x \in {0} |-> block[x]]
  BY DEF HeapManager!Init, HeapManager!NULL
<1>2. HEADER_SIZE \in Nat /\ memAmount \in Nat /\ memAmount > HEADER_SIZE
  BY DEF HeapManager!HeapAssumption
<1>3. block[0] \in HeapBlock
  BY <1>1, <1>2 DEF HeapManager!Header, HeapBlock
<1>4. After(block, 0) = memAmount /\ block[0].next = HeapManager!NULL
      /\ block[0].prev = HeapManager!NULL
      /\ block[0].is_free
  BY <1>1, <1>2 DEF HeapManager!Header, After
<1>5. block \in [DOMAIN block -> HeapBlock]
  BY <1>1, <1>3
<1>6. Chain(block)
  <2>1. DOMAIN block = {0}
    BY <1>1
  <2>2. After(block, 0) <= memAmount
    BY <1>2, <1>4
  <2>. QED  BY <1>4, <1>5, <2>1, <2>2 DEF Chain
<1>7. Owned(block, heapHanded)
  BY <1>1, <1>4 DEF Owned
<1>8. \A x, y \in DOMAIN block : ~Twins(block, x, y)
  BY <1>1, <1>2, <1>4 DEF Twins
<1>. QED  BY <1>6, <1>7, <1>8 DEF HeapInv

(* The pieces in use, seen with their headers.                             *)
LEMMA PiecesApart ==
    ASSUME HeapManager!HeapAssumption, NEW blocks, NEW pieces, Chain(blocks),
           Owned(blocks, pieces),
           NEW p \in pieces
    PROVE  /\ HeapManager!WithHeader(p) =
                [ptr |-> p.ptr - HEADER_SIZE, size |-> p.size + HEADER_SIZE]
           /\ p.size \in HeapSizes /\ p.size \in Nat \ {0} /\ p.ptr - HEADER_SIZE \in Nat
           /\ HeapManager!AsArena!Bytes(HeapManager!WithHeader(p))
                \subseteq HeapManager!Memory
           /\ \A q \in pieces \ {p} :
                /\ p.ptr - HEADER_SIZE # q.ptr - HEADER_SIZE
                /\ HeapManager!AsArena!Apart(HeapManager!WithHeader(p),
                                             HeapManager!WithHeader(q))
<1>. DEFINE a(q) == q.ptr - HEADER_SIZE
<1>1. HEADER_SIZE \in Nat /\ memAmount \in Nat
      /\ HeapSizes \subseteq Nat \ {0}
  BY DEF HeapManager!HeapAssumption
<1>2. ASSUME NEW q \in pieces
      PROVE  /\ q.ptr \in Nat /\ q.size \in HeapSizes /\ q.size \in Nat \ {0}
             /\ a(q) \in DOMAIN blocks /\ a(q) \in Nat
             /\ a(q) + HEADER_SIZE + q.size <= After(blocks, a(q))
             /\ After(blocks, a(q)) <= memAmount /\ After(blocks, a(q)) \in Nat
             /\ HeapManager!AsArena!Bytes(HeapManager!WithHeader(q)) =
                  a(q) .. a(q) + (q.size + HEADER_SIZE) - 1
  <2>1. q.ptr \in Nat /\ q.size \in HeapSizes /\ q.size \in Nat \ {0}
        /\ a(q) \in DOMAIN blocks
        /\ q.size <= blocks[a(q)].size
    BY <1>1 DEF Owned
  <2>2. a(q) \in Nat /\ blocks[a(q)].size \in Nat /\ After(blocks, a(q)) \in Nat
    BY <1>1, <2>1, ChainFacts
  <2>3. After(blocks, a(q)) <= memAmount
    BY <1>1, <2>1 DEF Chain
  <2>4. a(q) + HEADER_SIZE + q.size <= After(blocks, a(q))
    <3>. DEFINE b == a(q)
    <3>1. b \in Nat /\ q.size <= blocks[b].size
      BY <2>1, <2>2
    <3>. HIDE DEF b
    <3>2. b + HEADER_SIZE + q.size <= After(blocks, b)
      BY <1>1, <2>1, <2>2, <3>1 DEF After, b
    <3>. QED  BY <3>2 DEF b
  <2>5. HeapManager!AsArena!Bytes(HeapManager!WithHeader(q)) =
          a(q) .. a(q) + (q.size + HEADER_SIZE) - 1
    BY DEF HeapManager!AsArena!Bytes, HeapManager!WithHeader
  <2>. QED  BY <2>1, <2>2, <2>3, <2>4, <2>5
<1>. HIDE DEF a
<1>3. HeapManager!AsArena!Bytes(HeapManager!WithHeader(p)) \subseteq HeapManager!Memory
  BY <1>1, <1>2 DEF HeapManager!Memory
<1>4. ASSUME NEW q \in pieces \ {p}
      PROVE  a(p) # a(q)
             /\ HeapManager!AsArena!Apart(HeapManager!WithHeader(p),
                                             HeapManager!WithHeader(q))
  <2>1. a(p) # a(q)
    BY <1>1, <1>2 DEF Owned, a
  <2>2. (a(p) < a(q) => After(blocks, a(p)) <= a(q))
        /\ (a(q) < a(p) => After(blocks, a(q)) <= a(p))
    BY <1>1, <1>2 DEF Chain
  <2>. DEFINE b == a(p)
              c == a(q)
              i == HeapManager!AsArena!Bytes(HeapManager!WithHeader(p))
              j == HeapManager!AsArena!Bytes(HeapManager!WithHeader(q))
  <2>. DEFINE v == p.size + HEADER_SIZE
              w == q.size + HEADER_SIZE
  <2>3. i = b .. b + v - 1 /\ j = c .. c + w - 1
    BY <1>2
  <2>4. v \in Nat /\ w \in Nat /\ b \in Nat /\ c \in Nat /\ b # c
    <3>1. p.size \in Nat /\ q.size \in Nat /\ b \in Nat /\ c \in Nat
      BY <1>2
    <3>2. v \in Nat /\ w \in Nat
      BY <1>1, <3>1
    <3>. QED  BY Zenon, <2>1, <3>1, <3>2
  <2>5. b + v <= After(blocks, b) /\ c + w <= After(blocks, c)
    <3>1. ASSUME NEW r \in pieces
          PROVE  a(r) + (r.size + HEADER_SIZE) <= After(blocks, a(r))
      <4>. DEFINE d == a(r)
                  n == r.size
      <4>1. d \in Nat /\ n \in Nat /\ After(blocks, d) \in Nat
            /\ d + HEADER_SIZE + n <= After(blocks, d)
        BY <1>2
      <4>. HIDE DEF d, n
      <4>2. d + (n + HEADER_SIZE) <= After(blocks, d)
        BY <1>1, <4>1
      <4>. QED  BY <4>2 DEF d, n
    <3>. QED  BY <3>1
  <2>6. After(blocks, b) \in Nat /\ After(blocks, c) \in Nat
    BY <1>2
  <2>. HIDE DEF b, c, i, j, v, w
  <2>7. ASSUME NEW x \in i, x \in j PROVE FALSE
    <3>1. (b < c => After(blocks, b) <= c) /\ (c < b => After(blocks, c) <= b)
      BY <2>2 DEF b, c
    <3>. QED  BY <2>3, <2>4, <2>5, <2>6, <2>7, <3>1
  <2>. QED  BY <2>1, <2>7 DEF HeapManager!AsArena!Apart, i, j
<1>. QED  BY <1>2, <1>3, <1>4 DEF HeapManager!WithHeader, a

LEMMA HeapStep ==
    ASSUME HeapManager!HeapAssumption, HeapInv, HeapManager!Next
    PROVE  HeapInv' /\ HeapManager!AsArena!Next
<1>1. CASE HeapManager!Alloc
  <2>1. PICK size \in HeapSizes : HeapManager!AllocMemory(size)
    BY <1>1 DEF HeapManager!Alloc
  <2>2. HeapInv' /\ \E a \in DOMAIN block :
             /\ block[a].is_free
             /\ heapHanded' = heapHanded \cup {[ptr |-> a + HEADER_SIZE, size |-> size]}
    BY <2>1, HeapAllocKeeps
  <2>3. PICK a \in DOMAIN block : block[a].is_free
             /\ heapHanded' = heapHanded \cup {[ptr |-> a + HEADER_SIZE, size |-> size]}
    BY <2>2
  <2>. DEFINE piece == [ptr |-> a + HEADER_SIZE, size |-> size]
              w == HeapManager!WithHeader(piece)
  <2>4. piece \in heapHanded' /\ heapHanded' = heapHanded \cup {piece}
    BY <2>3
  <2>5. a \in Nat /\ HEADER_SIZE \in Nat
    BY ChainFacts DEF HeapInv
  <2>6. piece.ptr - HEADER_SIZE = a /\ piece.size = size
    BY <2>5
  <2>7. piece \notin heapHanded
    BY <2>3, <2>6 DEF HeapInv, Owned
  <2>. HIDE DEF piece
  <2>8. /\ w = [ptr |-> a, size |-> size + HEADER_SIZE]
        /\ HeapManager!AsArena!Bytes(w) \subseteq HeapManager!Memory
        /\ \A q \in heapHanded : a # q.ptr - HEADER_SIZE
           /\ HeapManager!AsArena!Apart(w, HeapManager!WithHeader(q))
    <3>1. /\ HeapManager!WithHeader(piece) =
               [ptr |-> piece.ptr - HEADER_SIZE, size |-> piece.size + HEADER_SIZE]
          /\ HeapManager!AsArena!Bytes(HeapManager!WithHeader(piece))
               \subseteq HeapManager!Memory
          /\ \A q \in heapHanded' \ {piece} : /\ piece.ptr - HEADER_SIZE # q.ptr - HEADER_SIZE
                                          /\ HeapManager!AsArena!Apart(HeapManager!WithHeader(piece),
                                                    HeapManager!WithHeader(q))
      <4>1. Chain(block') /\ Owned(block', heapHanded')
        BY <2>2 DEF HeapInv
      <4>. QED  BY <2>4, <4>1, PiecesApart
    <3>. QED  BY <2>4, <2>6, <2>7, <3>1
  <2>9. HeapManager!Mapped' = HeapManager!Mapped \cup {w}
    BY <2>4 DEF HeapManager!Mapped
  <2>. HIDE DEF w
  <2>10. \A m \in HeapManager!Mapped : HeapManager!AsArena!Apart(w, m) /\ m.ptr # w.ptr
    BY <2>8 DEF HeapManager!Mapped, HeapManager!WithHeader
  <2>11. w \notin HeapManager!Mapped
    BY <2>10
  <2>12. w.size \in {s + HEADER_SIZE : s \in HeapSizes}
    BY <2>8
  <2>13. HeapManager!AsArena!Alloc(w)
    BY <2>8, <2>9, <2>10, <2>12 DEF HeapManager!AsArena!Alloc
  <2>. QED  BY <2>2, <2>9, <2>11, <2>13 DEF HeapManager!AsArena!Next
<1>2. CASE HeapManager!Free
  <2>1. PICK piece \in heapHanded : HeapManager!FreeMemory(piece)
    BY <1>2 DEF HeapManager!Free
  <2>2. HeapInv'
    BY <2>1, HeapFreeKeeps
  <2>. DEFINE w == HeapManager!WithHeader(piece)
  <2>3. heapHanded' = heapHanded \ {piece}
    BY <2>1 DEF HeapManager!FreeMemory
  <2>4. \A q \in heapHanded \ {piece} : HeapManager!WithHeader(q) # w
    <3>1. \A q \in heapHanded \ {piece} : piece.ptr - HEADER_SIZE # q.ptr - HEADER_SIZE
      BY PiecesApart DEF HeapInv
    <3>. QED  BY <3>1 DEF HeapManager!WithHeader
  <2>5. HeapManager!Mapped' = HeapManager!Mapped \ {w} /\ w \in HeapManager!Mapped
    BY <2>3, <2>4 DEF HeapManager!Mapped
  <2>. HIDE DEF w
  <2>6. HeapManager!AsArena!Free(w) /\ w \in HeapManager!Mapped \ HeapManager!Mapped'
    BY <2>5 DEF HeapManager!AsArena!Free
  <2>. QED  BY <2>2, <2>6 DEF HeapManager!AsArena!Next
<1>. QED  BY <1>1, <1>2 DEF HeapManager!Next

(* Where no piece lies there is a free block, and next to it none: so what *)
(* fits there fits into one.                                               *)
LEMMA HeapServes ==
    ASSUME HeapManager!HeapAssumption, HeapInv
    PROVE  HeapManager!HeapTypeOK /\ HeapManager!ServesWhenRoom
<1>1. Chain(block) /\ Owned(block, heapHanded)
      /\ \A x, y \in DOMAIN block : ~Twins(block, x, y)
  BY DEF HeapInv
<1>2. \A x \in DOMAIN block : /\ x \in Nat /\ block[x].size \in Nat /\ After(block, x) \in Nat
                              /\ After(block, x) > x /\ After(block, x) <= memAmount
                              /\ After(block, x) = x + HEADER_SIZE + block[x].size
  BY <1>1, ChainFacts DEF Chain, After
<1>3. HEADER_SIZE \in Nat /\ memAmount \in Nat
  BY DEF HeapManager!HeapAssumption
<1>4. HeapManager!HeapTypeOK
  BY <1>1, <1>2 DEF HeapManager!HeapTypeOK, Chain, After
<1>5. ASSUME NEW x \in DOMAIN block, ~block[x].is_free
      PROVE  x .. After(block, x) - 1 \subseteq HeapManager!Occupied
  <2>1. PICK p \in heapHanded : p.ptr = x + HEADER_SIZE
    BY <1>1, <1>5 DEF Owned
  <2>2. p.ptr - HEADER_SIZE = x
    BY <1>2, <1>3, <2>1
  <2>3. x \in {q.ptr - HEADER_SIZE : q \in heapHanded}
    BY <2>2
  <2>. DEFINE A == {q.ptr - HEADER_SIZE : q \in heapHanded}
  <2>. HIDE DEF A
  <2>4. x \in A /\ HeapManager!Occupied =
          UNION {b .. b + HEADER_SIZE + block[b].size - 1 : b \in A}
    BY <2>3 DEF A, HeapManager!Occupied
  <2>5. x .. x + HEADER_SIZE + block[x].size - 1 \subseteq HeapManager!Occupied
    BY Zenon, <2>4
  <2>. QED  BY <1>2, <1>3, <2>5
<1>6. ASSUME NEW size \in HeapSizes, NEW a \in HeapManager!Memory,
             a + HEADER_SIZE + HeapManager!Aligned(size) - 1 \in HeapManager!Memory,
             (a .. a + HEADER_SIZE + HeapManager!Aligned(size) - 1)
               \cap HeapManager!Occupied = {}
      PROVE  HeapManager!Fits(size) # {}
  <2>. DEFINE al == HeapManager!Aligned(size)
              end == a + HEADER_SIZE + al - 1
              T == {n \in Nat : a - n \in DOMAIN block}
  <2>1. al \in Nat \ {0}
    BY AlignedUp
  <2>. HIDE DEF al
  <2>2. a \in Nat /\ a < memAmount /\ end \in Int /\ end < memAmount /\ a <= end
    BY <1>3, <1>6, <2>1 DEF HeapManager!Memory, al
  <2>3. a \in T
    BY <1>1, <2>2 DEF Chain
  <2>4. PICK n \in T : \A m \in T : n <= m
    <3>1. T \subseteq Nat /\ T # {}
      BY <2>3
    <3>. HIDE DEF T
    <3>. QED  BY <3>1, LeastNatural
  <2>. DEFINE x == a - n
  <2>5. x \in DOMAIN block /\ x <= a /\ n \in Nat
    BY <2>2, <2>4
  <2>6. ASSUME NEW y \in DOMAIN block, y <= a PROVE y <= x
    <3>1. y \in Nat /\ a - y \in Nat /\ a - (a - y) = y
      BY <1>2, <2>2, <2>6
    <3>2. a - y \in T
      BY <3>1
    <3>. QED  BY <2>2, <2>4, <2>5, <3>1, <3>2
  <2>. HIDE DEF x, T
  <2>. DEFINE y == After(block, x)
  <2>7. (block[x].next = HeapManager!NULL => y = memAmount)
        /\ (block[x].next # HeapManager!NULL => y \in DOMAIN block)
    BY <1>1, <2>5 DEF Chain
  <2>8. /\ x \in Nat /\ block[x].size \in Nat /\ y \in Nat /\ y > x
        /\ y = x + HEADER_SIZE + block[x].size
    BY <1>2, <2>5
  <2>9. y > a
    BY <2>2, <2>5, <2>6, <2>7, <2>8
  <2>10. block[x].is_free
    <3>1. a \in x .. y - 1 /\ a \in a .. end
      BY <2>2, <2>5, <2>8, <2>9
    <3>. QED  BY <1>5, <1>6, <2>5, <3>1 DEF al
  <2>11. y > end
    <3>1. ASSUME y <= end PROVE FALSE
      <4>1. y \in DOMAIN block
        BY <1>3, <2>2, <2>7, <2>8, <3>1
      <4>2. y \in a .. end
        BY <2>2, <2>8, <2>9, <3>1
      <4>3. y \in y .. After(block, y) - 1
        BY <1>2, <4>1
      <4>4. block[y].is_free
        BY <1>5, <1>6, <4>1, <4>2, <4>3 DEF al
      <4>. QED  BY <1>1, <2>5, <2>10, <4>1, <4>4 DEF Twins
    <3>. QED  BY <2>2, <2>8, <3>1
  <2>12. block[x].size >= al
    BY <1>3, <2>1, <2>2, <2>5, <2>8, <2>11
  <2>. QED  BY <2>5, <2>10, <2>12 DEF HeapManager!Fits, al
<1>7. HeapManager!ServesWhenRoom
  BY <1>6 DEF HeapManager!ServesWhenRoom
<1>. QED  BY <1>4, <1>7

LEMMA HeapMoves ==
  ASSUME Next
  PROVE  (part = "heap" /\ HeapManager!Next) \/ UNCHANGED heapVars
BY DEF Next, Moves

LEMMA HeapAlways ==
  /\ Init => HeapInv
  /\ HeapInv /\ [Next]_vars => HeapInv'
<1>1. Init => HeapInv
  BY PartsAssumption, HeapStarts DEF Init, PartsAssumption
<1>2. ASSUME HeapInv, UNCHANGED heapVars PROVE HeapInv'
  BY <1>2 DEF heapVars, HeapInv
<1>3. HeapInv /\ [Next]_vars => HeapInv'
  BY <1>2, PartsAssumption, HeapMoves, HeapStep DEF PartsAssumption, vars
<1>. QED  BY <1>1, <1>3

(* Every allocMemory and freeMemory of the heap manager, with the splits   *)
(* and joins they make, hands out a piece as an Arena does, header         *)
(* included: for every size of memory, of headers, of blocks and of what   *)
(* is asked for.                                                           *)
THEOREM HeapImplementsArena ==
  Spec => /\ HeapManager!AsArena!Init
          /\ [][part = "heap" => [HeapManager!AsArena!Next]_(HeapManager!Mapped)]_vars
<1>1. Init => HeapManager!AsArena!Init
  BY DEF Init, HeapManager!Init, HeapManager!AsArena!Init, HeapManager!Mapped
<1>2. HeapInv /\ [Next]_vars =>
        [part = "heap" => [HeapManager!AsArena!Next]_(HeapManager!Mapped)]_vars
  <2>1. ASSUME UNCHANGED heapVars PROVE HeapManager!Mapped' = HeapManager!Mapped
    BY <2>1 DEF heapVars, HeapManager!Mapped
  <2>. QED  BY <2>1, PartsAssumption, HeapMoves, HeapStep DEF PartsAssumption
<1>. HIDE DEF HeapInv, Init, Next, vars, Fairness, HeapManager!Mapped
<1>. QED  BY <1>1, <1>2, HeapAlways, PTL DEF Spec

(* What has been freed is not lost: where a request fits between pieces in *)
(* use the heap manager serves it.  Its list is in order.                  *)
THEOREM HeapServesWhenRoom ==
  Spec => [](HeapManager!HeapTypeOK /\ HeapManager!ServesWhenRoom)
<1>1. HeapInv => HeapManager!HeapTypeOK /\ HeapManager!ServesWhenRoom
  BY PartsAssumption, HeapServes DEF PartsAssumption
<1>. HIDE DEF HeapInv, Init, Next, vars, Fairness
<1>. QED  BY <1>1, HeapAlways, PTL DEF Spec

-----------------------------------------------------------------------------
(* The linked lists.  What is at place i of the sequence q, where a NULL   *)
(* is before the first place and behind the last.                          *)
At(q, i) == IF i \in 1 .. Len(q) THEN q[i] ELSE NoNode
NoneTwice(q) == \A i, j \in 1 .. Len(q) : q[i] = q[j] => i = j
Listed(n, q) == \E i \in 1 .. Len(q) : q[i] = n

(* Cardinality is the same in the instance.                                *)
LEMMA SameCount == \A S : TheLists!Cardinality(S) = Cardinality(S)
BY DEF TheLists!Cardinality, Cardinality

(* A list is no longer than there are nodes, so that one round of a walk   *)
(* meets them all.                                                         *)
LEMMA ShortLists ==
  ASSUME TheLists!ListAssumption, NEW q \in Seq(Nodes), NoneTwice(q)
  PROVE  /\ Len(q) <= Cardinality(Nodes) /\ Cardinality(Nodes) \in Nat
         /\ Cardinality(1 .. Len(q)) = Len(q)
<1>1. IsFiniteSet(Nodes) /\ Cardinality(Nodes) \in Nat
  <2>1. TheLists!IsFiniteSet(Nodes)
    BY DEF TheLists!ListAssumption
  <2>2. IsFiniteSet(Nodes)
    BY <2>1 DEF TheLists!IsFiniteSet, IsFiniteSet
  <2>. QED  BY <2>2, FS_CardinalityType
<1>2. Len(q) \in Nat /\ q \in [1 .. Len(q) -> Nodes]
  OBVIOUS
<1>3. IsFiniteSet(1 .. Len(q)) /\ Cardinality(1 .. Len(q)) = Len(q)
  <2>1. 1 \in Int /\ Len(q) \in Int
    BY <1>2
  <2>2. Cardinality(1 .. Len(q)) = IF 1 > Len(q) THEN 0 ELSE Len(q) - 1 + 1
    BY <2>1, FS_Interval
  <2>. QED  BY <1>2, <2>1, <2>2, FS_Interval
<1>4. q \in Injection(1 .. Len(q), Nodes)
  BY <1>2 DEF NoneTwice, Injection, IsInjective
<1>. QED  BY <1>1, <1>3, <1>4, FS_Injection

(* A walk along a pointer that leads from each node of q to the next meets *)
(* the nodes of q, in their order.                                         *)
LEMMA AlongMeets ==
  ASSUME TheLists!ListAssumption, NEW q \in Seq(Nodes), NoneTwice(q), NEW pointer, NEW head,
         head = At(q, 1), \A i \in 1 .. Len(q) : pointer[q[i]] = At(q, i + 1)
  PROVE  TheLists!Along(pointer, head) = q
<1>. DEFINE N == Cardinality(Nodes) + 1
            Step(f) == [k \in 1 .. N |-> IF k = 1 THEN head
                          ELSE IF f[k - 1] = NoNode THEN NoNode ELSE pointer[f[k - 1]]]
            g == [k \in 1 .. N |-> At(q, k)]
            w == TheLists!Walk(pointer, head)
<1>1. N \in Nat /\ Len(q) < N /\ Len(q) \in Nat
  BY ShortLists
<1>2. \A i \in 1 .. Len(q) : q[i] # NoNode
  BY DEF TheLists!ListAssumption
<1>. HIDE DEF N
<1>3. g = Step(g)
  <2>1. ASSUME NEW k \in 1 .. N PROVE g[k] = Step(g)[k]
    <3>1. CASE k = 1
      BY <3>1
    <3>2. CASE k # 1 /\ k - 1 <= Len(q)
      <4>1. k - 1 \in 1 .. Len(q) /\ k - 1 \in 1 .. N /\ (k - 1) + 1 = k
        BY <1>1, <3>2
      <4>2. g[k - 1] = q[k - 1]
        BY <4>1 DEF At
      <4>3. Step(g)[k] = pointer[q[k - 1]]
        BY <1>2, <3>2, <4>1, <4>2
      <4>. QED  BY <4>1, <4>3
    <3>3. CASE k # 1 /\ k - 1 > Len(q)
      <4>1. k - 1 \notin 1 .. Len(q) /\ k \notin 1 .. Len(q) /\ k - 1 \in 1 .. N
        BY <1>1, <3>3
      <4>2. g[k - 1] = NoNode /\ g[k] = NoNode
        BY <4>1 DEF At
      <4>. QED  BY <3>3, <4>2
    <3>. QED  BY <1>1, <3>1, <3>2, <3>3
  <2>. QED  BY <2>1
<1>4. w = Step(w)
  <2>1. w = CHOOSE f : f = Step(f)
    BY SameCount DEF TheLists!Walk, N
  <2>. HIDE DEF w, Step, g
  <2>. QED  BY <1>3, <2>1
<1>5. w = g
  <2>. DEFINE S == {k \in 1 .. N : w[k] # g[k]}
  <2>1. DOMAIN w = 1 .. N /\ DOMAIN g = 1 .. N
    BY <1>4
  <2>2. CASE S = {}
    <3>1. w = [k \in 1 .. N |-> w[k]]
      <4>. HIDE DEF w
      <4>. QED  BY <1>4
    <3>2. \A k \in 1 .. N : w[k] = g[k]
      BY <2>2
    <3>. HIDE DEF w
    <3>. QED  BY <3>1, <3>2
  <2>3. CASE S # {}
    <3>1. PICK k \in S : \A j \in S : k <= j
      <4>1. S \subseteq Nat
        BY <1>1
      <4>. HIDE DEF S
      <4>. QED  BY <2>3, <4>1, LeastNatural
    <3>2. k \in 1 .. N /\ w[k] # g[k]
      BY <3>1
    <3>3. k # 1
      <4>. HIDE DEF w
      <4>. QED  BY <1>4, <1>3, <3>2
    <3>4. k - 1 \in 1 .. N /\ k - 1 \notin S
      BY <1>1, <3>1, <3>2, <3>3
    <3>5. w[k - 1] = g[k - 1]
      BY <3>4
    <3>. HIDE DEF w, g, S
    <3>6. w[k] = Step(w)[k] /\ g[k] = Step(g)[k]
      BY <1>3, <1>4
    <3>. QED  BY <3>2, <3>3, <3>5, <3>6
  <2>. QED  BY <2>2, <2>3
<1>6. {k \in DOMAIN w : w[k] # NoNode} = 1 .. Len(q)
  <2>1. \A k \in 1 .. N : g[k] # NoNode <=> k \in 1 .. Len(q)
    BY <1>2 DEF At
  <2>2. DOMAIN g = 1 .. N
    OBVIOUS
  <2>. HIDE DEF w, g
  <2>. QED  BY <1>1, <1>5, <2>1, <2>2
<1>7. Cardinality(1 .. Len(q)) = Len(q)
  BY ShortLists
<1>8. TheLists!Along(pointer, head) = [k \in 1 .. Len(q) |-> w[k]]
  <2>1. TheLists!Cardinality({k \in DOMAIN w : w[k] # NoNode}) = Len(q)
    BY <1>6, <1>7, SameCount
  <2>. QED  BY <2>1 DEF TheLists!Along
<1>9. \A k \in 1 .. Len(q) : w[k] = q[k]
  <2>1. \A k \in 1 .. Len(q) : g[k] = q[k]
    BY <1>1 DEF At
  <2>. QED  BY <1>5, <2>1
<1>. HIDE DEF w
<1>. QED  BY <1>8, <1>9

-----------------------------------------------------------------------------
(* The pointers of one list, which holds the nodes q.                      *)
Linked(nx, pv, f, la, q) ==
  /\ q \in Seq(Nodes) /\ NoneTwice(q) /\ f = At(q, 1) /\ la = At(q, Len(q))
  /\ \A i \in 1 .. Len(q) : nx[q[i]] = At(q, i + 1) /\ pv[q[i]] = At(q, i - 1)

(* So the contents of a linked list are its sequence, read from either     *)
(* end.                                                                    *)
LEMMA LinkedContents ==
  ASSUME TheLists!ListAssumption, NEW nx, NEW pv, NEW f, NEW la, NEW q,
         Linked(nx, pv, f, la, q)
  PROVE  /\ TheLists!Along(nx, f) = q
         /\ Len(TheLists!Along(pv, la)) = Len(q)
         /\ \A k \in 1 .. Len(q) : TheLists!Along(pv, la)[k] = q[Len(q) + 1 - k]
<1>. DEFINE r == [k \in 1 .. Len(q) |-> q[Len(q) + 1 - k]]
<1>1. q \in Seq(Nodes) /\ NoneTwice(q) /\ Len(q) \in Nat
  BY DEF Linked
<1>2. TheLists!Along(nx, f) = q
  BY <1>1, AlongMeets DEF Linked
<1>3. \A k \in 1 .. Len(q) : Len(q) + 1 - k \in 1 .. Len(q) /\ r[k] = q[Len(q) + 1 - k]
  BY <1>1
<1>4. r \in Seq(Nodes) /\ Len(r) = Len(q)
  BY <1>1, <1>3
<1>5. NoneTwice(r)
  <2>1. ASSUME NEW i \in 1 .. Len(r), NEW j \in 1 .. Len(r), r[i] = r[j] PROVE i = j
    <3>1. Len(q) + 1 - i = Len(q) + 1 - j
      BY <1>1, <1>3, <1>4, <2>1 DEF NoneTwice
    <3>. QED  BY <1>1, <1>4, <3>1
  <2>. QED  BY <2>1 DEF NoneTwice
<1>6. la = At(r, 1)
  <2>1. CASE Len(q) = 0
    BY <1>1, <1>4, <2>1 DEF Linked, At
  <2>2. CASE Len(q) # 0
    <3>1. 1 \in 1 .. Len(q) /\ Len(q) \in 1 .. Len(q) /\ Len(q) + 1 - 1 = Len(q)
      BY <1>1, <2>2
    <3>2. r[1] = q[Len(q)]
      BY <1>3, <3>1
    <3>. HIDE DEF r
    <3>. QED  BY <1>4, <3>1, <3>2 DEF Linked, At
  <2>. QED  BY <2>1, <2>2
<1>7. \A k \in 1 .. Len(r) : pv[r[k]] = At(r, k + 1)
  <2>1. ASSUME NEW k \in 1 .. Len(r) PROVE pv[r[k]] = At(r, k + 1)
    <3>. DEFINE i == Len(q) + 1 - k
    <3>1. i \in 1 .. Len(q) /\ r[k] = q[i] /\ k \in 1 .. Len(q)
      BY <1>3, <1>4, <2>1
    <3>2. pv[q[i]] = At(q, i - 1)
      BY <3>1 DEF Linked
    <3>3. CASE i = 1
      <4>1. k + 1 \notin 1 .. Len(r) /\ i - 1 \notin 1 .. Len(q)
        BY <1>1, <1>4, <3>1, <3>3
      <4>. QED  BY <3>1, <3>2, <4>1 DEF At
    <3>4. CASE i # 1
      <4>1. i - 1 \in 1 .. Len(q) /\ k + 1 \in 1 .. Len(q) /\ Len(q) + 1 - (k + 1) = i - 1
        BY <1>1, <1>4, <3>1, <3>4
      <4>2. r[k + 1] = q[i - 1]
        BY <1>3, <4>1
      <4>. HIDE DEF r, i
      <4>. QED  BY <1>4, <3>1, <3>2, <4>1, <4>2 DEF At
    <3>. QED  BY <3>3, <3>4
  <2>. QED  BY <2>1
<1>8. TheLists!Along(pv, la) = r
  <2>. HIDE DEF r
  <2>. QED  BY <1>4, <1>5, <1>6, <1>7, AlongMeets
<1>. QED  BY <1>2, <1>3, <1>4, <1>8

(* A list whose nodes keep their pointers stays what it is.                *)
LEMMA LinkedStays ==
  ASSUME NEW nx, NEW pv, NEW f, NEW la, NEW q, Linked(nx, pv, f, la, q), NEW nx2, NEW pv2,
         \A n \in Nodes : Listed(n, q) => nx2[n] = nx[n] /\ pv2[n] = pv[n]
  PROVE  Linked(nx2, pv2, f, la, q)
<1>1. \A i \in 1 .. Len(q) : q[i] \in Nodes /\ Listed(q[i], q)
  BY DEF Linked, Listed
<1>. QED  BY <1>1 DEF Linked

(* What appendNode writes links the sequence with the node behind it.      *)
LEMMA AppendLinks ==
  ASSUME TheLists!ListAssumption, NEW nx, NEW pv \in [Nodes -> Nodes \cup {NoNode}], NEW f,
         NEW la,
         NEW q, Linked(nx, pv, f, la, q), NEW n \in Nodes, ~Listed(n, q),
         NEW nx2, nx2 = [m \in Nodes |-> IF m = n THEN NoNode
                                ELSE IF Len(q) > 0 /\ m = la THEN n ELSE nx[m]],
         NEW pv2, pv2 = [pv EXCEPT ![n] = la]
  PROVE  Linked(nx2, pv2, IF Len(q) > 0 THEN f ELSE n, n, Append(q, n))
<1>. DEFINE r == Append(q, n)
<1>1. /\ q \in Seq(Nodes) /\ NoneTwice(q) /\ Len(q) \in Nat /\ f = At(q, 1)
      /\ la = At(q, Len(q))
      /\ \A i \in 1 .. Len(q) : /\ nx[q[i]] = At(q, i + 1) /\ pv[q[i]] = At(q, i - 1)
                                /\ q[i] \in Nodes /\ q[i] # n
  BY DEF Linked, Listed
<1>2. /\ r \in Seq(Nodes) /\ Len(r) = Len(q) + 1 /\ r[Len(q) + 1] = n
      /\ \A i \in 1 .. Len(q) : r[i] = q[i]
  BY <1>1
<1>. HIDE DEF r
<1>3. NoneTwice(r)
  <2>1. ASSUME NEW i \in 1 .. Len(r), NEW j \in 1 .. Len(r), r[i] = r[j] PROVE i = j
    <3>1. (i \in 1 .. Len(q) \/ i = Len(q) + 1) /\ (j \in 1 .. Len(q) \/ j = Len(q) + 1)
      BY <1>1, <1>2
    <3>. QED  BY <1>1, <1>2, <2>1, <3>1 DEF NoneTwice
  <2>. QED  BY <2>1 DEF NoneTwice
<1>4. At(r, 1) = IF Len(q) > 0 THEN f ELSE n
  <2>1. CASE Len(q) > 0
    <3>1. 1 \in 1 .. Len(q) /\ 1 \in 1 .. Len(r)
      BY <1>1, <1>2, <2>1
    <3>. QED  BY <1>1, <1>2, <2>1, <3>1 DEF At
  <2>2. CASE Len(q) = 0
    <3>1. 1 \in 1 .. Len(r) /\ 1 = Len(q) + 1
      BY <1>1, <1>2, <2>2
    <3>. QED  BY <1>1, <1>2, <2>2, <3>1 DEF At
  <2>. QED  BY <1>1, <2>1, <2>2
<1>5. At(r, Len(r)) = n
  <2>1. Len(r) \in 1 .. Len(r) /\ Len(r) = Len(q) + 1
    BY <1>1, <1>2
  <2>. QED  BY <1>2, <2>1 DEF At
<1>6. ASSUME NEW i \in 1 .. Len(r) PROVE nx2[r[i]] = At(r, i + 1) /\ pv2[r[i]] = At(r, i - 1)
  <2>1. CASE i = Len(q) + 1
    <3>1. r[i] = n /\ i + 1 \notin 1 .. Len(r) /\ i - 1 = Len(q)
      BY <1>1, <1>2, <2>1
    <3>2. nx2[n] = NoNode /\ pv2[n] = la
      OBVIOUS
    <3>3. At(r, i - 1) = At(q, Len(q))
      <4>1. Len(q) \in 1 .. Len(q) <=> Len(q) \in 1 .. Len(r)
        BY <1>1, <1>2
      <4>. QED  BY <1>2, <3>1, <4>1 DEF At
    <3>. QED  BY <1>1, <3>1, <3>2, <3>3 DEF At
  <2>2. CASE i \in 1 .. Len(q)
    <3>1. r[i] = q[i] /\ q[i] \in Nodes /\ q[i] # n /\ pv2[q[i]] = pv[q[i]]
      BY <1>1, <1>2, <2>2
    <3>2. At(r, i - 1) = At(q, i - 1)
      <4>1. i - 1 \in 1 .. Len(q) <=> i - 1 \in 1 .. Len(r)
        BY <1>1, <1>2, <2>2
      <4>. QED  BY <1>2, <4>1 DEF At
    <3>3. CASE i = Len(q)
      <4>1. i + 1 = Len(q) + 1 /\ i + 1 \in 1 .. Len(r) /\ Len(q) > 0
        BY <1>1, <1>2, <2>2, <3>3
      <4>2. q[i] = la
        BY <1>1, <2>2, <3>3 DEF At
      <4>3. nx2[q[i]] = n
        BY <3>1, <4>1, <4>2
      <4>4. At(r, i + 1) = n
        BY <1>2, <4>1 DEF At
      <4>. QED  BY <1>1, <2>2, <3>1, <3>2, <4>3, <4>4
    <3>4. CASE i # Len(q)
      <4>1. i + 1 \in 1 .. Len(q) /\ i + 1 \in 1 .. Len(r) /\ Len(q) \in 1 .. Len(q)
        BY <1>1, <1>2, <2>2, <3>4
      <4>2. q[i] # la
        BY <1>1, <2>2, <3>4, <4>1 DEF At, NoneTwice
      <4>3. nx2[q[i]] = nx[q[i]]
        BY <3>1, <4>2
      <4>4. At(r, i + 1) = At(q, i + 1)
        BY <1>2, <4>1 DEF At
      <4>. QED  BY <1>1, <2>2, <3>1, <3>2, <4>3, <4>4
    <3>. QED  BY <3>3, <3>4
  <2>. QED  BY <1>1, <1>2, <2>1, <2>2
<1>7. Linked(nx2, pv2, IF Len(q) > 0 THEN f ELSE n, n, r)
  BY <1>2, <1>3, <1>4, <1>5, <1>6 DEF Linked
<1>. QED  BY <1>7 DEF r

(* What prependNode writes links the sequence with the node before it.     *)
LEMMA PrependLinks ==
  ASSUME TheLists!ListAssumption, NEW nx \in [Nodes -> Nodes \cup {NoNode}], NEW pv, NEW f,
         NEW la,
         NEW q, Linked(nx, pv, f, la, q), NEW n \in Nodes, ~Listed(n, q),
         NEW pv2, pv2 = [m \in Nodes |-> IF m = n THEN NoNode
                                ELSE IF Len(q) > 0 /\ m = f THEN n ELSE pv[m]],
         NEW nx2, nx2 = [nx EXCEPT ![n] = f]
  PROVE  Linked(nx2, pv2, n, IF Len(q) > 0 THEN la ELSE n, <<n>> \o q)
<1>. DEFINE r == <<n>> \o q
<1>1. /\ q \in Seq(Nodes) /\ NoneTwice(q) /\ Len(q) \in Nat /\ f = At(q, 1)
      /\ la = At(q, Len(q))
      /\ \A i \in 1 .. Len(q) : /\ nx[q[i]] = At(q, i + 1) /\ pv[q[i]] = At(q, i - 1)
                                /\ q[i] \in Nodes /\ q[i] # n
  BY DEF Linked, Listed
<1>2. /\ r \in Seq(Nodes) /\ Len(r) = Len(q) + 1 /\ r[1] = n
      /\ \A i \in 1 .. Len(q) : r[i + 1] = q[i]
  BY <1>1
<1>. HIDE DEF r
<1>3. \A i \in 1 .. Len(r) : i = 1 \/ (i - 1 \in 1 .. Len(q) /\ r[i] = q[i - 1])
  <2>1. ASSUME NEW i \in 1 .. Len(r), i # 1 PROVE i - 1 \in 1 .. Len(q) /\ r[i] = q[i - 1]
    <3>1. i - 1 \in 1 .. Len(q) /\ (i - 1) + 1 = i
      BY <1>1, <1>2, <2>1
    <3>. QED  BY <1>2, <3>1
  <2>. QED  BY <2>1
<1>4. NoneTwice(r)
  <2>1. ASSUME NEW i \in 1 .. Len(r), NEW j \in 1 .. Len(r), r[i] = r[j] PROVE i = j
    <3>1. CASE i = 1 \/ j = 1
      <4>1. \A k \in 1 .. Len(r) : k # 1 => r[k] # n
        BY <1>1, <1>3
      <4>. QED  BY <1>2, <2>1, <3>1, <4>1
    <3>2. CASE i # 1 /\ j # 1
      <4>1. i - 1 = j - 1
        BY <1>1, <1>3, <2>1, <3>2 DEF NoneTwice
      <4>. QED  BY <1>1, <1>2, <4>1
    <3>. QED  BY <3>1, <3>2
  <2>. QED  BY <2>1 DEF NoneTwice
<1>5. \A i \in 0 .. Len(q) + 1 : i # 0 => At(r, i + 1) = At(q, i)
  <2>1. ASSUME NEW i \in 1 .. Len(q) + 1 PROVE At(r, i + 1) = At(q, i)
    <3>1. i \in 1 .. Len(q) <=> i + 1 \in 1 .. Len(r)
      BY <1>1, <1>2
    <3>. QED  BY <1>2, <3>1 DEF At
  <2>. QED  BY <1>1, <2>1
<1>6. At(r, 1) = n
  <2>1. 1 \in 1 .. Len(r)
    BY <1>1, <1>2
  <2>. QED  BY <1>2, <2>1 DEF At
<1>7. At(r, Len(r)) = IF Len(q) > 0 THEN la ELSE n
  <2>1. CASE Len(q) > 0
    BY <1>1, <1>2, <1>5, <2>1
  <2>2. CASE Len(q) = 0
    BY <1>1, <1>2, <1>6, <2>2
  <2>. QED  BY <1>1, <2>1, <2>2
<1>8. ASSUME NEW i \in 1 .. Len(r) PROVE nx2[r[i]] = At(r, i + 1) /\ pv2[r[i]] = At(r, i - 1)
  <2>1. CASE i = 1
    <3>1. r[i] = n /\ nx2[n] = f /\ pv2[n] = NoNode
      BY <1>2, <2>1
    <3>2. At(r, i + 1) = At(q, 1)
      BY <1>1, <1>5, <2>1
    <3>3. At(r, i - 1) = NoNode
      <4>1. i - 1 \notin 1 .. Len(r)
        BY <1>1, <1>2, <2>1
      <4>. QED  BY <4>1 DEF At
    <3>. QED  BY <1>1, <3>1, <3>2, <3>3
  <2>2. CASE i # 1
    <3>. DEFINE j == i - 1
    <3>1. j \in 1 .. Len(q) /\ r[i] = q[j] /\ i = j + 1
      BY <1>1, <1>2, <1>3, <2>2
    <3>. HIDE DEF j
    <3>2. q[j] \in Nodes /\ q[j] # n /\ nx2[q[j]] = nx[q[j]] /\ nx[q[j]] = At(q, j + 1)
          /\ pv[q[j]] = At(q, j - 1)
      BY <1>1, <3>1
    <3>3. At(r, i + 1) = At(q, j + 1)
      BY <1>1, <1>5, <3>1
    <3>4. CASE j = 1
      <4>1. At(r, i - 1) = n /\ q[j] = f /\ Len(q) > 0
        BY <1>1, <1>6, <3>1, <3>4 DEF At
      <4>2. pv2[q[j]] = n
        BY <3>2, <4>1
      <4>. QED  BY <3>1, <3>2, <3>3, <4>1, <4>2
    <3>5. CASE j # 1
      <4>1. j - 1 \in 0 .. Len(q) + 1 /\ j - 1 # 0 /\ (j - 1) + 1 = i - 1 /\ 1 \in 1 .. Len(q)
        BY <1>1, <3>1, <3>5
      <4>2. At(r, i - 1) = At(q, j - 1)
        BY <1>5, <4>1
      <4>3. q[j] # f
        BY <1>1, <3>1, <3>5, <4>1 DEF At, NoneTwice
      <4>4. pv2[q[j]] = pv[q[j]]
        BY <3>2, <4>3
      <4>. QED  BY <3>1, <3>2, <3>3, <4>2, <4>4
    <3>. QED  BY <3>4, <3>5
  <2>. QED  BY <2>1, <2>2
<1>9. Linked(nx2, pv2, n, IF Len(q) > 0 THEN la ELSE n, r)
  BY <1>2, <1>4, <1>6, <1>7, <1>8 DEF Linked
<1>. QED  BY <1>9 DEF r

Without(q, k) == SubSeq(q, 1, k - 1) \o SubSeq(q, k + 1, Len(q))

(* A sequence with one element taken out, place by place.                  *)
LEMMA WithoutOne ==
  ASSUME NEW q \in Seq(Nodes), NoneTwice(q), NEW k \in 1 .. Len(q)
  PROVE  /\ Without(q, k) \in Seq(Nodes) /\ Len(Without(q, k)) = Len(q) - 1
         /\ \A i \in 1 .. k - 1 : Without(q, k)[i] = q[i]
         /\ \A i \in k .. Len(q) - 1 : Without(q, k)[i] = q[i + 1]
         /\ NoneTwice(Without(q, k))
<1>. DEFINE a == SubSeq(q, 1, k - 1)
            b == SubSeq(q, k + 1, Len(q))
            r == Without(q, k)
<1>1. Len(q) \in Nat /\ k \in Nat /\ k <= Len(q) /\ 1 <= k
  OBVIOUS
<1>2. /\ a \in Seq(Nodes) /\ Len(a) = k - 1 /\ \A i \in 1 .. k - 1 : a[i] = q[i]
  BY <1>1
<1>3. /\ b \in Seq(Nodes) /\ Len(b) = Len(q) - k
      /\ \A i \in 1 .. Len(q) - k : b[i] = q[k + 1 + i - 1]
  BY <1>1
<1>4. r = a \o b
  BY DEF Without
<1>. HIDE DEF a, b, r
<1>5. /\ r \in Seq(Nodes) /\ Len(r) = Len(q) - 1
      /\ \A i \in 1 .. k - 1 : r[i] = a[i]
      /\ \A i \in k .. Len(q) - 1 : r[i] = b[i - (k - 1)]
  <2>1. r \in Seq(Nodes) /\ Len(r) = Len(a) + Len(b)
    <3>1. a \in Seq(Nodes) /\ b \in Seq(Nodes)
      BY <1>2, <1>3
    <3>. QED  BY <1>4, <3>1
  <2>2. ASSUME NEW i \in 1 .. k - 1 PROVE r[i] = a[i]
    <3>1. i \in 1 .. Len(a) /\ a \in Seq(Nodes) /\ b \in Seq(Nodes)
      BY <1>2, <1>3
    <3>. QED  BY <1>4, <3>1
  <2>3. ASSUME NEW i \in k .. Len(q) - 1 PROVE r[i] = b[i - (k - 1)]
    <3>1. i \in Len(a) + 1 .. Len(a) + Len(b) /\ i - (k - 1) = i - Len(a)
      BY <1>1, <1>2, <1>3
    <3>2. (a \o b)[i] = b[i - Len(a)]
      BY <1>2, <1>3, <3>1
    <3>. QED  BY <1>4, <3>1, <3>2
  <2>. QED  BY <1>1, <1>2, <1>3, <2>1, <2>2, <2>3
<1>6. \A i \in 1 .. k - 1 : r[i] = q[i]
  BY <1>2, <1>5
<1>7. ASSUME NEW i \in k .. Len(q) - 1 PROVE r[i] = q[i + 1]
  <2>1. i - (k - 1) \in 1 .. Len(q) - k /\ k + 1 + (i - (k - 1)) - 1 = i + 1
    BY <1>1
  <2>. QED  BY <1>3, <1>5, <2>1
<1>8. ASSUME NEW i \in 1 .. Len(r), NEW j \in 1 .. Len(r), r[i] = r[j] PROVE i = j
  <2>. DEFINE up(x) == IF x < k THEN x ELSE x + 1
  <2>1. \A x \in 1 .. Len(r) : up(x) \in 1 .. Len(q) /\ r[x] = q[up(x)]
    BY <1>1, <1>5, <1>6, <1>7
  <2>2. up(i) = up(j)
    <3>. HIDE DEF up
    <3>. QED  BY <1>8, <2>1 DEF NoneTwice
  <2>. QED  BY <1>1, <1>5, <2>2
<1>9. NoneTwice(r)
  BY <1>8 DEF NoneTwice
<1>. QED  BY <1>5, <1>6, <1>7, <1>9 DEF r

(* Where the places of a sequence move when its k-th element is taken out. *)
LEMMA SkipsOne ==
  ASSUME NEW m \in Nat, NEW k \in 1 .. m, NEW i \in 1 .. m - 1, NEW j,
         j = IF i < k THEN i ELSE i + 1
  PROVE  /\ i = k - 1 => j = k - 1 /\ k # 1 /\ i + 1 = k /\ k \in k .. m
         /\ i < k - 1 => j = i /\ j # k - 1 /\ i + 1 \in 0 .. k - 1
         /\ i >= k => j = i + 1 /\ j # k - 1 /\ i + 1 \in k .. m
         /\ i = k => j = k + 1 /\ k # m /\ i - 1 = k - 1 /\ k - 1 \in 0 .. k - 1
         /\ i < k => j = i /\ j # k + 1 /\ i - 1 \in 0 .. k - 1
         /\ i > k => j = i + 1 /\ j # k + 1 /\ i - 1 \in k .. m /\ j - 1 = i
         /\ (i - 1) + 1 = i /\ (i < k - 1 \/ i = k - 1 \/ i >= k)
         /\ (i < k \/ i = k \/ i > k)
<1>1. CASE i < k
  BY <1>1
<1>2. CASE i >= k
  BY <1>2
<1>. QED  BY <1>1, <1>2

(* What removeNode writes links the sequence without its k-th node.        *)
LEMMA RemoveLinks ==
  ASSUME TheLists!ListAssumption, NEW nx, NEW pv, NEW f, NEW la, NEW q,
         Linked(nx, pv, f, la, q),
         NEW k \in 1 .. Len(q), NEW n, n = q[k], NEW nx2, NEW pv2,
         nx2 = [m \in Nodes |-> IF m = n THEN NoNode
                     ELSE IF f # n /\ m = pv[n] THEN nx[n] ELSE nx[m]],
         pv2 = [m \in Nodes |-> IF m = n THEN NoNode
                     ELSE IF la # n /\ m = nx[n] THEN pv[n] ELSE pv[m]]
  PROVE  Linked(nx2, pv2, IF f = n THEN nx[n] ELSE f, IF la = n THEN pv[n] ELSE la,
                Without(q, k))
<1>. DEFINE r == Without(q, k)
            up(i) == IF i < k THEN i ELSE i + 1
<1>1. /\ q \in Seq(Nodes) /\ NoneTwice(q) /\ Len(q) \in Nat /\ f = At(q, 1)
      /\ la = At(q, Len(q))
      /\ \A i \in 1 .. Len(q) : /\ nx[q[i]] = At(q, i + 1) /\ pv[q[i]] = At(q, i - 1)
                                /\ q[i] \in Nodes /\ q[i] # NoNode
  BY DEF Linked, TheLists!ListAssumption
<1>2. /\ r \in Seq(Nodes) /\ Len(r) = Len(q) - 1 /\ NoneTwice(r)
      /\ \A i \in 1 .. k - 1 : r[i] = q[i]
      /\ \A i \in k .. Len(q) - 1 : r[i] = q[i + 1]
  BY <1>1, WithoutOne
<1>3. k \in Nat /\ 1 <= k /\ k <= Len(q) /\ Len(q) \in Nat
  BY <1>1
<1>. HIDE DEF r
<1>4. /\ \A i \in 0 .. k - 1 : At(r, i) = At(q, i)
      /\ \A i \in k .. Len(q) : At(r, i) = At(q, i + 1)
  <2>1. ASSUME NEW i \in 0 .. k - 1 PROVE At(r, i) = At(q, i)
    <3>1. i \in 1 .. Len(q) <=> i \in 1 .. Len(r)
      BY <1>2, <1>3
    <3>2. i \in 1 .. Len(q) => i \in 1 .. k - 1
      BY <1>3
    <3>. QED  BY <1>2, <3>1, <3>2 DEF At
  <2>2. ASSUME NEW i \in k .. Len(q) PROVE At(r, i) = At(q, i + 1)
    <3>1. i + 1 \in 1 .. Len(q) <=> i \in 1 .. Len(r)
      BY <1>2, <1>3
    <3>2. i \in 1 .. Len(r) => i \in k .. Len(q) - 1
      BY <1>2, <1>3
    <3>. QED  BY <1>2, <3>1, <3>2 DEF At
  <2>. QED  BY <2>1, <2>2
<1>5. \A i, j \in 1 .. Len(q) : q[i] = q[j] => i = j
  BY <1>1 DEF NoneTwice
<1>6. nx[n] = At(q, k + 1) /\ pv[n] = At(q, k - 1)
  BY <1>1
<1>7. (f = n <=> k = 1) /\ (la = n <=> k = Len(q))
  <2>1. 1 \in 1 .. Len(q) /\ Len(q) \in 1 .. Len(q)
    BY <1>3
  <2>2. f = q[1] /\ la = q[Len(q)]
    BY <1>1, <2>1 DEF At
  <2>. QED  BY <1>5, <2>1, <2>2
<1>8. \A i \in 1 .. Len(q) : \A j \in 0 .. Len(q) + 1 : q[i] = At(q, j) <=> i = j
  <2>1. ASSUME NEW i \in 1 .. Len(q), NEW j \in 0 .. Len(q) + 1
               PROVE q[i] = At(q, j) <=> i = j
    <3>1. CASE j \in 1 .. Len(q)
      BY <1>5, <3>1 DEF At
    <3>2. CASE j \notin 1 .. Len(q)
      BY <1>1, <3>2 DEF At
    <3>. QED  BY <3>1, <3>2
  <2>. QED  BY <2>1
<1>9. At(r, 1) = IF f = n THEN nx[n] ELSE f
  <2>1. CASE k = 1
    <3>1. 1 \in k .. Len(q)
      BY <1>3, <2>1
    <3>2. At(r, 1) = At(q, 1 + 1)
      BY <1>4, <3>1
    <3>. QED  BY <1>6, <1>7, <2>1, <3>2
  <2>2. CASE k # 1
    <3>1. 1 \in 0 .. k - 1
      BY <1>3, <2>2
    <3>. QED  BY <1>1, <1>4, <1>7, <2>2, <3>1
  <2>. QED  BY <2>1, <2>2
<1>10. At(r, Len(r)) = IF la = n THEN pv[n] ELSE la
  <2>1. CASE k = Len(q)
    <3>1. Len(r) = k - 1 /\ k - 1 \in 0 .. k - 1
      BY <1>2, <1>3, <2>1
    <3>. QED  BY <1>4, <1>6, <1>7, <2>1, <3>1
  <2>2. CASE k # Len(q)
    <3>1. Len(r) \in k .. Len(q) /\ Len(r) + 1 = Len(q)
      BY <1>2, <1>3, <2>2
    <3>2. At(r, Len(r)) = At(q, Len(q))
      BY <1>4, <3>1
    <3>. QED  BY <1>1, <1>7, <2>2, <3>2
  <2>. QED  BY <2>1, <2>2
<1>11. ASSUME NEW i \in 1 .. Len(r) PROVE nx2[r[i]] = At(r, i + 1) /\ pv2[r[i]] = At(r, i - 1)
  <2>. DEFINE j == up(i)
  <2>0. /\ i = k - 1 => j = k - 1 /\ k # 1 /\ i + 1 = k /\ k \in k .. Len(q)
        /\ i < k - 1 => j = i /\ j # k - 1 /\ i + 1 \in 0 .. k - 1
        /\ i >= k => j = i + 1 /\ j # k - 1 /\ i + 1 \in k .. Len(q)
        /\ i = k => j = k + 1 /\ k # Len(q) /\ i - 1 = k - 1 /\ k - 1 \in 0 .. k - 1
        /\ i < k => j = i /\ j # k + 1 /\ i - 1 \in 0 .. k - 1
        /\ i > k => j = i + 1 /\ j # k + 1 /\ i - 1 \in k .. Len(q) /\ j - 1 = i
        /\ (i - 1) + 1 = i /\ (i < k - 1 \/ i = k - 1 \/ i >= k)
        /\ (i < k \/ i = k \/ i > k)
    <3>1. Len(q) \in Nat /\ i \in 1 .. Len(q) - 1 /\ k \in 1 .. Len(q)
      BY <1>2, <1>3
    <3>. QED  BY <3>1, SkipsOne
  <2>1. j \in 1 .. Len(q) /\ r[i] = q[j] /\ j # k /\ i \in Nat
    BY <1>2, <1>3
  <2>2. /\ k - 1 \in 0 .. Len(q) + 1 /\ k + 1 \in 0 .. Len(q) + 1
        /\ i <= Len(q) - 1 /\ i >= 1
    BY <1>2, <1>3
  <2>3. q[j] \in Nodes /\ q[j] # n /\ nx[q[j]] = At(q, j + 1) /\ pv[q[j]] = At(q, j - 1)
    <3>. HIDE DEF j
    <3>. QED  BY <1>1, <1>5, <2>1
  <2>4. (q[j] = pv[n] <=> j = k - 1) /\ (q[j] = nx[n] <=> j = k + 1)
    <3>. HIDE DEF j
    <3>. QED  BY <1>6, <1>8, <2>1, <2>2
  <2>5. nx2[q[j]] = IF f # n /\ q[j] = pv[n] THEN nx[n] ELSE nx[q[j]]
    <3>. HIDE DEF j
    <3>. QED  BY <2>3
  <2>6. pv2[q[j]] = IF la # n /\ q[j] = nx[n] THEN pv[n] ELSE pv[q[j]]
    <3>. HIDE DEF j
    <3>. QED  BY <2>3
  <2>7. nx2[q[j]] = At(r, i + 1)
    <3>1. CASE i = k - 1
      <4>1. j = k - 1 /\ k # 1 /\ i + 1 = k /\ k \in k .. Len(q)
        BY <2>0, <3>1
      <4>2. nx2[q[j]] = At(q, k + 1) /\ At(r, i + 1) = At(q, k + 1)
        BY <1>4, <1>6, <1>7, <2>4, <2>5, <4>1
      <4>. QED  BY <4>2
    <3>2. CASE i < k - 1
      <4>1. j = i /\ j # k - 1 /\ i + 1 \in 0 .. k - 1
        BY <2>0, <3>2
      <4>2. nx2[q[j]] = At(q, j + 1)
        BY <2>3, <2>4, <2>5, <4>1
      <4>. QED  BY <1>4, <4>1, <4>2
    <3>3. CASE i >= k
      <4>1. j = i + 1 /\ j # k - 1 /\ i + 1 \in k .. Len(q)
        BY <2>0, <3>3
      <4>2. nx2[q[j]] = At(q, j + 1)
        BY <2>3, <2>4, <2>5, <4>1
      <4>3. At(r, i + 1) = At(q, (i + 1) + 1)
        BY <1>4, <4>1
      <4>. QED  BY <4>1, <4>2, <4>3
    <3>. QED  BY <2>0, <3>1, <3>2, <3>3
  <2>8. pv2[q[j]] = At(r, i - 1)
    <3>1. CASE i = k
      <4>1. j = k + 1 /\ k # Len(q) /\ i - 1 = k - 1 /\ k - 1 \in 0 .. k - 1
        BY <2>0, <3>1
      <4>2. pv2[q[j]] = At(q, k - 1) /\ At(r, i - 1) = At(q, k - 1)
        BY <1>4, <1>6, <1>7, <2>4, <2>6, <4>1
      <4>. QED  BY <4>2
    <3>2. CASE i < k
      <4>1. j = i /\ j # k + 1 /\ i - 1 \in 0 .. k - 1
        BY <2>0, <3>2
      <4>2. pv2[q[j]] = At(q, j - 1)
        BY <2>3, <2>4, <2>6, <4>1
      <4>. QED  BY <1>4, <4>1, <4>2
    <3>3. CASE i > k
      <4>1. j = i + 1 /\ j # k + 1 /\ i - 1 \in k .. Len(q) /\ j - 1 = i
        BY <2>0, <3>3
      <4>2. pv2[q[j]] = At(q, j - 1)
        BY <2>3, <2>4, <2>6, <4>1
      <4>3. At(r, i - 1) = At(q, (i - 1) + 1) /\ (i - 1) + 1 = i
        BY <1>4, <2>0, <4>1
      <4>. QED  BY <4>1, <4>2, <4>3
    <3>. QED  BY <2>0, <3>1, <3>2, <3>3
  <2>. HIDE DEF j
  <2>. QED  BY <2>1, <2>7, <2>8
<1>12. Linked(nx2, pv2, IF f = n THEN nx[n] ELSE f, IF la = n THEN pv[n] ELSE la, r)
  BY <1>2, <1>9, <1>10, <1>11 DEF Linked
<1>. QED  BY <1>12 DEF r

-----------------------------------------------------------------------------
(* Every list is linked, its length is counted, no node is in two of them  *)
(* or in one and not allocated, and a walk stands on a node of its list.   *)
ListInv ==
  /\ first \in [Lists -> Nodes \cup {NoNode}] /\ last \in [Lists -> Nodes \cup {NoNode}]
  /\ current \in [Lists -> Nodes \cup {NoNode}] /\ len \in [Lists -> Nat]
  /\ next \in [Nodes -> Nodes \cup {NoNode}] /\ prev \in [Nodes -> Nodes \cup {NoNode}]
  /\ allocated \subseteq Nodes
  /\ \A l \in Lists :
       /\ Linked(next, prev, first[l], last[l], TheLists!Contents(l))
          /\ len[l] = Len(TheLists!Contents(l))
       /\ \A n \in Nodes : Listed(n, TheLists!Contents(l)) => n \in allocated
       /\ current[l] = NoNode \/ Listed(current[l], TheLists!Contents(l))
  /\ \A l, h \in Lists, n \in Nodes :
       Listed(n, TheLists!Contents(l)) /\ Listed(n, TheLists!Contents(h)) => l = h

(* The lists begin empty.                                                  *)
LEMMA ListInit == ASSUME TheLists!ListAssumption, TheLists!Init PROVE ListInv
                         /\ TheLists!AsSequences!Init
<1>1. <<>> \in Seq(Nodes) /\ NoneTwice(<<>>) /\ Len(<<>>) = 0
  BY DEF NoneTwice
<1>2. \A i : At(<<>>, i) = NoNode
  BY <1>1 DEF At
<1>3. \A l \in Lists : Linked(next, prev, first[l], last[l], <<>>)
  BY <1>1, <1>2 DEF TheLists!Init, Linked
<1>4. \A l \in Lists : TheLists!Contents(l) = <<>>
  BY <1>3, LinkedContents DEF TheLists!Contents
<1>5. \A n : ~Listed(n, <<>>)
  BY <1>1 DEF Listed
<1>6. ListInv
  BY <1>1, <1>3, <1>4, <1>5 DEF TheLists!Init, ListInv
<1>7. TheLists!AsSequences!Init
  <2>1. [l \in Lists |-> TheLists!Contents(l)] = [l \in Lists |-> <<>>]
    BY <1>4
  <2>2. current = [l \in Lists |-> NoNode] /\ allocated = {}
    BY DEF TheLists!Init
  <2>. HIDE DEF TheLists!Contents
  <2>. QED  BY <2>1, <2>2 DEF TheLists!AsSequences!Init
<1>. QED  BY <1>6, <1>7

(* What a step that puts the nodes q into the list l has to show.          *)
Relinked(l, q) ==
  /\ first' \in [Lists -> Nodes \cup {NoNode}] /\ last' \in [Lists -> Nodes \cup {NoNode}]
  /\ len' = [len EXCEPT ![l] = Len(q)]
  /\ next' \in [Nodes -> Nodes \cup {NoNode}] /\ prev' \in [Nodes -> Nodes \cup {NoNode}]
  /\ Linked(next', prev', first'[l], last'[l], q)
  /\ \A h \in Lists \ {l} : /\ first'[h] = first[h] /\ last'[h] = last[h]
                            /\ \A n \in Nodes : Listed(n, TheLists!Contents(h)) =>
                                 next'[n] = next[n] /\ prev'[n] = prev[n]

(* The other lists are not touched when nodes are relinked in one of them. *)
LEMMA RelinkedKeeps ==
  ASSUME TheLists!ListAssumption, ListInv, NEW l \in Lists, NEW q, Relinked(l, q),
         allocated' \subseteq Nodes,
         current' \in [Lists -> Nodes \cup {NoNode}],
         \A n \in Nodes : Listed(n, q) => n \in allocated',
         \A n \in Nodes : \A h \in Lists \ {l} : ~(Listed(n, q)
         /\ Listed(n, TheLists!Contents(h))),
         \A n \in allocated \ allocated' : Listed(n, TheLists!Contents(l)) /\ ~Listed(n, q),
         current'[l] = NoNode \/ Listed(current'[l], q),
         \A h \in Lists \ {l} : current'[h] = current[h]
  PROVE  /\ ListInv'
         /\ [h \in Lists |-> TheLists!Contents(h)]' =
              [[h \in Lists |-> TheLists!Contents(h)] EXCEPT ![l] = q]
<1>. DEFINE to(h) == IF h = l THEN q ELSE TheLists!Contents(h)
<1>1. \A h \in Lists : Linked(next', prev', first'[h], last'[h], to(h))
  <2>1. ASSUME NEW h \in Lists \ {l} PROVE Linked(next', prev', first'[h], last'[h], to(h))
    <3>1. Linked(next, prev, first[h], last[h], TheLists!Contents(h))
      BY DEF ListInv
    <3>2. /\ first'[h] = first[h] /\ last'[h] = last[h]
          /\ \A n \in Nodes : Listed(n, TheLists!Contents(h)) =>
               next'[n] = next[n] /\ prev'[n] = prev[n]
      BY DEF Relinked
    <3>3. Linked(next', prev', first[h], last[h], TheLists!Contents(h))
      BY <3>1, <3>2, LinkedStays
    <3>. QED  BY <3>2, <3>3
  <2>2. Linked(next', prev', first'[l], last'[l], q)
    BY DEF Relinked
  <2>. QED  BY <2>1, <2>2
<1>2. \A h \in Lists : TheLists!Contents(h)' = to(h)
  <2>1. ASSUME NEW h \in Lists PROVE TheLists!Contents(h)' = to(h)
    <3>1. TheLists!Along(next', first'[h]) = to(h)
      <4>. HIDE DEF to
      <4>. QED  BY <1>1, LinkedContents
    <3>2. TheLists!Contents(h)' = TheLists!Along(next', first'[h])
      BY DEF TheLists!Contents
    <3>. QED  BY <3>1, <3>2
  <2>. QED  BY <2>1
<1>3. [h \in Lists |-> TheLists!Contents(h)]' =
        [[h \in Lists |-> TheLists!Contents(h)] EXCEPT ![l] = q]
  <2>1. [h \in Lists |-> TheLists!Contents(h)]' = [h \in Lists |-> to(h)]
    <3>. HIDE DEF to, TheLists!Contents
    <3>. QED  BY <1>2
  <2>. HIDE DEF TheLists!Contents
  <2>. QED  BY <2>1
<1>4. ListInv'
  <2>1. \A h \in Lists : len'[h] = Len(to(h)) /\ len' \in [Lists -> Nat]
    <3>1. q \in Seq(Nodes) /\ Len(q) \in Nat
      BY DEF Relinked, Linked
    <3>2. len \in [Lists -> Nat] /\ \A h \in Lists : len[h] = Len(TheLists!Contents(h))
      BY DEF ListInv
    <3>. QED  BY <3>1, <3>2 DEF Relinked
  <2>2. \A h \in Lists, n \in Nodes : Listed(n, to(h)) => n \in allocated'
    <3>1. ASSUME NEW h \in Lists \ {l}, NEW n \in Nodes,
                 Listed(n, TheLists!Contents(h)) PROVE n \in allocated'
      <4>1. n \in allocated /\ (Listed(n, TheLists!Contents(l)) => l = h)
        BY <3>1 DEF ListInv
      <4>. QED  BY <4>1
    <3>. QED  BY <3>1
  <2>3. \A h \in Lists : current'[h] = NoNode \/ Listed(current'[h], to(h))
    BY DEF ListInv
  <2>4. \A h, g \in Lists, n \in Nodes : Listed(n, to(h)) /\ Listed(n, to(g)) => h = g
    <3>1. \A h, g \in Lists, n \in Nodes :
            Listed(n, TheLists!Contents(h)) /\ Listed(n, TheLists!Contents(g)) => h = g
      BY DEF ListInv
    <3>. QED  BY <3>1
  <2>. HIDE DEF to
  <2>5. ASSUME NEW h \in Lists
        PROVE  /\ Linked(next', prev', first'[h], last'[h], TheLists!Contents(h)')
               /\ len'[h] = Len(TheLists!Contents(h)')
               /\ \A n \in Nodes : Listed(n, TheLists!Contents(h)') => n \in allocated'
               /\ current'[h] = NoNode \/ Listed(current'[h], TheLists!Contents(h)')
    <3>1. TheLists!Contents(h)' = to(h)
      BY <1>2
    <3>. QED  BY <1>1, <2>1, <2>2, <2>3, <3>1
  <2>6. ASSUME NEW h \in Lists, NEW g \in Lists, NEW n \in Nodes,
               Listed(n, TheLists!Contents(h)'), Listed(n, TheLists!Contents(g)')
        PROVE  h = g
    <3>1. TheLists!Contents(h)' = to(h) /\ TheLists!Contents(g)' = to(g)
      BY <1>2
    <3>. QED  BY <2>4, <2>6, <3>1
  <2>7. /\ first' \in [Lists -> Nodes \cup {NoNode}]
           /\ last' \in [Lists -> Nodes \cup {NoNode}]
        /\ current' \in [Lists -> Nodes \cup {NoNode}] /\ len' \in [Lists -> Nat]
        /\ next' \in [Nodes -> Nodes \cup {NoNode}]
           /\ prev' \in [Nodes -> Nodes \cup {NoNode}]
        /\ allocated' \subseteq Nodes
    <3>1. len' \in [Lists -> Nat]
      BY <2>1
    <3>. QED  BY <3>1 DEF Relinked
  <2>8. ListInv' <=>
          /\ /\ first' \in [Lists -> Nodes \cup {NoNode}]
             /\ last' \in [Lists -> Nodes \cup {NoNode}]
             /\ current' \in [Lists -> Nodes \cup {NoNode}] /\ len' \in [Lists -> Nat]
             /\ next' \in [Nodes -> Nodes \cup {NoNode}]
                /\ prev' \in [Nodes -> Nodes \cup {NoNode}]
             /\ allocated' \subseteq Nodes
          /\ \A h \in Lists :
               /\ Linked(next', prev', first'[h], last'[h], TheLists!Contents(h)')
               /\ len'[h] = Len(TheLists!Contents(h)')
               /\ \A n \in Nodes : Listed(n, TheLists!Contents(h)') => n \in allocated'
               /\ current'[h] = NoNode \/ Listed(current'[h], TheLists!Contents(h)')
          /\ \A h, g \in Lists, n \in Nodes :
               Listed(n, TheLists!Contents(h)') /\ Listed(n, TheLists!Contents(g)') => h = g
    BY Zenon DEF ListInv
  <2>. QED  BY Zenon, <2>5, <2>6, <2>7, <2>8
<1>. QED  BY <1>3, <1>4

(* What the invariant says of one list, in the words of NodeLists.         *)
LEMMA ListFacts ==
  ASSUME TheLists!ListAssumption, ListInv, NEW l \in Lists
  PROVE  /\ Linked(next, prev, first[l], last[l], TheLists!Contents(l))
            /\ len[l] = Len(TheLists!Contents(l))
         /\ TheLists!Contents(l) \in Seq(Nodes) /\ NoneTwice(TheLists!Contents(l))
            /\ Len(TheLists!Contents(l)) \in Nat
         /\ \A i \in 1 .. Len(TheLists!Contents(l)) : TheLists!Contents(l)[i] \in Nodes
         /\ first[l] = At(TheLists!Contents(l), 1)
            /\ last[l] = At(TheLists!Contents(l), Len(TheLists!Contents(l)))
         /\ \A n : Listed(n, TheLists!Contents(l)) <=> n \in TheLists!Members(l)
         /\ \A n : Listed(n, TheLists!Contents(l)) => n \in Nodes /\ n \in allocated
            /\ n # NoNode
<1>1. /\ Linked(next, prev, first[l], last[l], TheLists!Contents(l))
         /\ len[l] = Len(TheLists!Contents(l))
      /\ \A n \in Nodes : Listed(n, TheLists!Contents(l)) => n \in allocated
  BY DEF ListInv
<1>2. /\ TheLists!Contents(l) \in Seq(Nodes) /\ NoneTwice(TheLists!Contents(l))
      /\ first[l] = At(TheLists!Contents(l), 1)
         /\ last[l] = At(TheLists!Contents(l), Len(TheLists!Contents(l)))
  BY <1>1 DEF Linked
<1>. DEFINE q == TheLists!Contents(l)
<1>3. TheLists!Members(l) = {q[k] : k \in DOMAIN q}
  BY DEF TheLists!Members
<1>. HIDE DEF q
<1>4. /\ Len(q) \in Nat /\ DOMAIN q = 1 .. Len(q) /\ \A i \in 1 .. Len(q) : q[i] \in Nodes
  BY <1>2 DEF q
<1>5. \A n : Listed(n, q) <=> n \in TheLists!Members(l)
  BY <1>3, <1>4 DEF Listed
<1>6. \A n : Listed(n, q) => n \in Nodes
  BY <1>4 DEF Listed
<1>7. \A n \in Nodes : n # NoNode
  BY DEF TheLists!ListAssumption
<1>. QED  BY <1>1, <1>2, <1>4, <1>5, <1>6, <1>7 DEF q

(* A node that is in no list becomes one of the list l.                    *)
LEMMA Inserts ==
  ASSUME TheLists!ListAssumption, ListInv, NEW l \in Lists, NEW n \in Nodes,
         \A h \in Lists : ~Listed(n, TheLists!Contents(h)),
         NEW q, Relinked(l, q),
         \A m : Listed(m, q) <=> m = n \/ Listed(m, TheLists!Contents(l)),
         allocated' = allocated \cup {n}, current' = current
  PROVE  /\ ListInv'
         /\ [h \in Lists |-> TheLists!Contents(h)]' =
              [[h \in Lists |-> TheLists!Contents(h)] EXCEPT ![l] = q]
<1>1. /\ allocated' \subseteq Nodes /\ current' \in [Lists -> Nodes \cup {NoNode}]
      /\ \A m \in Nodes : Listed(m, q) => m \in allocated'
      /\ current'[l] = NoNode \/ Listed(current'[l], q)
  BY DEF ListInv
<1>2. \A m \in Nodes : \A h \in Lists \ {l} : ~(Listed(m, q)
      /\ Listed(m, TheLists!Contents(h)))
  BY DEF ListInv
<1>. QED  BY <1>1, <1>2, RelinkedKeeps

(* appendElement, and appendNode of a node that removeNode took out.       *)
LEMMA AppendStep ==
  ASSUME TheLists!ListAssumption, ListInv, NEW l \in Lists, NEW n \in Nodes,
         \A h \in Lists : ~Listed(n, TheLists!Contents(h)),
         TheLists!AppendNode(l, n), allocated' = allocated \cup {n}
  PROVE  /\ ListInv'
         /\ [h \in Lists |-> TheLists!Contents(h)]' =
              [[h \in Lists |-> TheLists!Contents(h)] EXCEPT ![l] =
                Append(TheLists!Contents(l), n)]
<1>. DEFINE q == TheLists!Contents(l)
            r == Append(q, n)
<1>1. /\ Linked(next, prev, first[l], last[l], q) /\ len[l] = Len(q)
      /\ q \in Seq(Nodes) /\ Len(q) \in Nat /\ last[l] = At(q, Len(q))
      /\ \A i \in 1 .. Len(q) : q[i] \in Nodes
  BY ListFacts
<1>2. /\ first \in [Lists -> Nodes \cup {NoNode}] /\ last \in [Lists -> Nodes \cup {NoNode}]
      /\ len \in [Lists -> Nat]
      /\ next \in [Nodes -> Nodes \cup {NoNode}] /\ prev \in [Nodes -> Nodes \cup {NoNode}]
  BY DEF ListInv
<1>3. /\ next' = [m \in Nodes |-> IF m = n THEN NoNode
                                  ELSE IF Len(q) > 0 /\ m = last[l] THEN n ELSE next[m]]
      /\ first' = IF Len(q) > 0 THEN first ELSE [first EXCEPT ![l] = n]
      /\ prev' = [prev EXCEPT ![n] = last[l]] /\ last' = [last EXCEPT ![l] = n]
      /\ len' = [len EXCEPT ![l] = @ + 1] /\ current' = current
  BY <1>1 DEF TheLists!AppendNode
<1>4. ~Listed(n, q)
  OBVIOUS
<1>. HIDE DEF q
<1>5. Linked(next', prev', IF Len(q) > 0 THEN first[l] ELSE n, n, r)
  BY <1>1, <1>2, <1>3, <1>4, AppendLinks
<1>6. /\ Len(r) = Len(q) + 1 /\ r[Len(q) + 1] = n /\ \A i \in 1 .. Len(q) : r[i] = q[i]
  BY <1>1
<1>. HIDE DEF r
<1>7. first'[l] = (IF Len(q) > 0 THEN first[l] ELSE n) /\ last'[l] = n
  BY <1>2, <1>3
<1>8. \A m : Listed(m, r) <=> m = n \/ Listed(m, q)
  <2>1. \A i \in 1 .. Len(r) : i \in 1 .. Len(q) \/ i = Len(q) + 1
    BY <1>1, <1>6
  <2>2. Len(q) + 1 \in 1 .. Len(r) /\ \A i \in 1 .. Len(q) : i \in 1 .. Len(r)
    BY <1>1, <1>6
  <2>. QED  BY <1>6, <2>1, <2>2 DEF Listed
<1>9. \A h \in Lists \ {l} : \A m \in Nodes :
        Listed(m, TheLists!Contents(h)) => next'[m] = next[m] /\ prev'[m] = prev[m]
  <2>1. Len(q) > 0 => Listed(last[l], q) /\ last[l] \in Nodes
    <3>1. Len(q) > 0 => Len(q) \in 1 .. Len(q)
      BY <1>1
    <3>. QED  BY <1>1, <3>1 DEF At, Listed
  <2>2. \A h \in Lists \ {l} : \A m \in Nodes : Listed(m, TheLists!Contents(h)) =>
          ~Listed(m, q) /\ m # n
    BY DEF ListInv, q
  <2>. QED  BY <1>2, <1>3, <2>1, <2>2
<1>10. Relinked(l, r)
  <2>1. len' = [len EXCEPT ![l] = Len(r)]
    BY <1>1, <1>2, <1>3, <1>6
  <2>2. /\ first' \in [Lists -> Nodes \cup {NoNode}]
           /\ last' \in [Lists -> Nodes \cup {NoNode}]
        /\ prev' \in [Nodes -> Nodes \cup {NoNode}]
        /\ \A h \in Lists \ {l} : first'[h] = first[h] /\ last'[h] = last[h]
    BY <1>2, <1>3
  <2>3. next' \in [Nodes -> Nodes \cup {NoNode}]
    BY <1>2, <1>3
  <2>. QED  BY <1>5, <1>7, <1>9, <2>1, <2>2, <2>3 DEF Relinked
<1>11. /\ ListInv'
       /\ [h \in Lists |-> TheLists!Contents(h)]' =
            [[h \in Lists |-> TheLists!Contents(h)] EXCEPT ![l] = r]
  BY <1>3, <1>8, <1>10, Inserts DEF q
<1>. QED  BY <1>11 DEF r, q

(* prependNode.                                                            *)
LEMMA PrependStep ==
  ASSUME TheLists!ListAssumption, ListInv, NEW l \in Lists, NEW n \in Nodes,
         \A h \in Lists : ~Listed(n, TheLists!Contents(h)), n \in allocated,
         TheLists!PrependNode(l, n)
  PROVE  /\ ListInv'
         /\ [h \in Lists |-> TheLists!Contents(h)]' =
              [[h \in Lists |-> TheLists!Contents(h)] EXCEPT ![l] =
                <<n>> \o TheLists!Contents(l)]
<1>. DEFINE q == TheLists!Contents(l)
            r == <<n>> \o q
<1>1. /\ Linked(next, prev, first[l], last[l], q) /\ len[l] = Len(q)
      /\ q \in Seq(Nodes) /\ Len(q) \in Nat /\ first[l] = At(q, 1)
      /\ \A i \in 1 .. Len(q) : q[i] \in Nodes
  BY ListFacts
<1>2. /\ first \in [Lists -> Nodes \cup {NoNode}] /\ last \in [Lists -> Nodes \cup {NoNode}]
      /\ len \in [Lists -> Nat]
      /\ next \in [Nodes -> Nodes \cup {NoNode}] /\ prev \in [Nodes -> Nodes \cup {NoNode}]
  BY DEF ListInv
<1>3. /\ prev' = [m \in Nodes |-> IF m = n THEN NoNode
                                  ELSE IF Len(q) > 0 /\ m = first[l] THEN n ELSE prev[m]]
      /\ last' = IF Len(q) > 0 THEN last ELSE [last EXCEPT ![l] = n]
      /\ next' = [next EXCEPT ![n] = first[l]] /\ first' = [first EXCEPT ![l] = n]
      /\ len' = [len EXCEPT ![l] = @ + 1] /\ current' = current /\ allocated' = allocated
  BY <1>1 DEF TheLists!PrependNode
<1>4. ~Listed(n, q)
  OBVIOUS
<1>. HIDE DEF q
<1>5. Linked(next', prev', n, IF Len(q) > 0 THEN last[l] ELSE n, r)
  BY <1>1, <1>2, <1>3, <1>4, PrependLinks
<1>6. /\ Len(r) = Len(q) + 1 /\ r[1] = n /\ \A i \in 1 .. Len(q) : r[i + 1] = q[i]
  BY <1>1
<1>. HIDE DEF r
<1>7. last'[l] = (IF Len(q) > 0 THEN last[l] ELSE n) /\ first'[l] = n
  BY <1>2, <1>3
<1>8. \A m : Listed(m, r) <=> m = n \/ Listed(m, q)
  <2>1. \A i \in 1 .. Len(r) : i = 1 \/ (i - 1 \in 1 .. Len(q) /\ r[i] = q[i - 1])
    <3>1. ASSUME NEW i \in 1 .. Len(r), i # 1 PROVE i - 1 \in 1 .. Len(q) /\ r[i] = q[i - 1]
      <4>1. i - 1 \in 1 .. Len(q) /\ (i - 1) + 1 = i
        BY <1>1, <1>6, <3>1
      <4>. QED  BY <1>6, <4>1
    <3>. QED  BY <3>1
  <2>2. 1 \in 1 .. Len(r) /\ \A i \in 1 .. Len(q) : i + 1 \in 1 .. Len(r)
    BY <1>1, <1>6
  <2>. QED  BY <1>6, <2>1, <2>2 DEF Listed
<1>9. \A h \in Lists \ {l} : \A m \in Nodes :
        Listed(m, TheLists!Contents(h)) => next'[m] = next[m] /\ prev'[m] = prev[m]
  <2>1. Len(q) > 0 => Listed(first[l], q) /\ first[l] \in Nodes
    <3>1. Len(q) > 0 => 1 \in 1 .. Len(q)
      BY <1>1
    <3>. QED  BY <1>1, <3>1 DEF At, Listed
  <2>2. \A h \in Lists \ {l} : \A m \in Nodes : Listed(m, TheLists!Contents(h)) =>
          ~Listed(m, q) /\ m # n
    BY DEF ListInv, q
  <2>. QED  BY <1>2, <1>3, <2>1, <2>2
<1>10. Relinked(l, r)
  <2>1. len' = [len EXCEPT ![l] = Len(r)]
    BY <1>1, <1>2, <1>3, <1>6
  <2>2. /\ first' \in [Lists -> Nodes \cup {NoNode}]
           /\ last' \in [Lists -> Nodes \cup {NoNode}]
        /\ next' \in [Nodes -> Nodes \cup {NoNode}]
        /\ \A h \in Lists \ {l} : first'[h] = first[h] /\ last'[h] = last[h]
    BY <1>2, <1>3
  <2>3. prev' \in [Nodes -> Nodes \cup {NoNode}]
    BY <1>2, <1>3
  <2>. QED  BY <1>5, <1>7, <1>9, <2>1, <2>2, <2>3 DEF Relinked
<1>11. /\ ListInv'
       /\ [h \in Lists |-> TheLists!Contents(h)]' =
            [[h \in Lists |-> TheLists!Contents(h)] EXCEPT ![l] = r]
  <2>1. allocated' = allocated \cup {n}
    BY <1>3
  <2>. QED  BY <1>3, <1>8, <1>10, <2>1, Inserts DEF q
<1>. QED  BY <1>11 DEF r, q

(* removeNode.                                                             *)
LEMMA RemoveStep ==
  ASSUME TheLists!ListAssumption, ListInv, NEW l \in Lists, NEW n \in Nodes,
         TheLists!RemoveNode(l, n)
  PROVE  /\ ListInv'
         /\ \E k \in 1 .. Len(TheLists!Contents(l)) :
              /\ TheLists!Contents(l)[k] = n
              /\ [h \in Lists |-> TheLists!Contents(h)]' =
                   [[h \in Lists |-> TheLists!Contents(h)] EXCEPT ![l] =
                     Without(TheLists!Contents(l), k)]
<1>. DEFINE q == TheLists!Contents(l)
<1>1. /\ Linked(next, prev, first[l], last[l], q) /\ len[l] = Len(q)
      /\ q \in Seq(Nodes) /\ Len(q) \in Nat /\ NoneTwice(q)
      /\ \A i \in 1 .. Len(q) : q[i] \in Nodes
      /\ (Listed(n, q) <=> n \in TheLists!Members(l))
  BY ListFacts
<1>2. /\ first \in [Lists -> Nodes \cup {NoNode}] /\ last \in [Lists -> Nodes \cup {NoNode}]
      /\ len \in [Lists -> Nat]
      /\ next \in [Nodes -> Nodes \cup {NoNode}] /\ prev \in [Nodes -> Nodes \cup {NoNode}]
      /\ current \in [Lists -> Nodes \cup {NoNode}] /\ allocated \subseteq Nodes
  BY DEF ListInv
<1>3. /\ first' = [first EXCEPT ![l] = IF @ = n THEN next[n] ELSE @]
      /\ next' = [m \in Nodes |-> IF m = n THEN NoNode
                    ELSE IF first[l] # n /\ m = prev[n] THEN next[n] ELSE next[m]]
      /\ last' = [last EXCEPT ![l] = IF @ = n THEN prev[n] ELSE @]
      /\ prev' = [m \in Nodes |-> IF m = n THEN NoNode
                    ELSE IF last[l] # n /\ m = next[n] THEN prev[n] ELSE prev[m]]
      /\ len' = [len EXCEPT ![l] = @ - 1] /\ current' = current /\ allocated' = allocated
      /\ current[l] # n
  BY DEF TheLists!RemoveNode, TheLists!Relink
<1>4. PICK k \in 1 .. Len(q) : q[k] = n
  BY <1>1 DEF TheLists!RemoveNode, Listed
<1>. DEFINE r == Without(q, k)
<1>. HIDE DEF q
<1>5. Linked(next', prev', IF first[l] = n THEN next[n] ELSE first[l],
             IF last[l] = n THEN prev[n] ELSE last[l], r)
  BY <1>1, <1>3, <1>4, RemoveLinks
<1>6. /\ Len(r) = Len(q) - 1 /\ \A i \in 1 .. k - 1 : r[i] = q[i]
      /\ \A i \in k .. Len(q) - 1 : r[i] = q[i + 1]
  BY <1>1, WithoutOne
<1>. HIDE DEF r
<1>7. /\ first'[l] = (IF first[l] = n THEN next[n] ELSE first[l])
      /\ last'[l] = (IF last[l] = n THEN prev[n] ELSE last[l])
  BY <1>2, <1>3
<1>8. \A m : Listed(m, r) <=> m # n /\ Listed(m, q)
  <2>1. ASSUME NEW i \in 1 .. Len(r) PROVE \E j \in 1 .. Len(q) : r[i] = q[j] /\ j # k
    <3>1. CASE i < k
      <4>1. i \in 1 .. k - 1 /\ i \in 1 .. Len(q) /\ i # k
        BY <1>1, <1>6, <3>1
      <4>. QED  BY <1>6, <4>1
    <3>2. CASE i >= k
      <4>1. i \in k .. Len(q) - 1 /\ i + 1 \in 1 .. Len(q) /\ i + 1 # k
        BY <1>1, <1>6, <3>2
      <4>. QED  BY <1>6, <4>1
    <3>. QED  BY <1>1, <3>1, <3>2
  <2>2. ASSUME NEW j \in 1 .. Len(q), j # k PROVE \E i \in 1 .. Len(r) : r[i] = q[j]
    <3>1. CASE j < k
      <4>1. j \in 1 .. k - 1 /\ j \in 1 .. Len(r)
        BY <1>1, <1>6, <3>1
      <4>. QED  BY <1>6, <4>1
    <3>2. CASE j > k
      <4>1. j - 1 \in k .. Len(q) - 1 /\ j - 1 \in 1 .. Len(r) /\ (j - 1) + 1 = j
        BY <1>1, <1>6, <3>2
      <4>. QED  BY <1>6, <4>1
    <3>. QED  BY <1>1, <2>2, <3>1, <3>2
  <2>3. \A j \in 1 .. Len(q) : q[j] = n <=> j = k
    BY <1>1, <1>4 DEF NoneTwice
  <2>. QED  BY <2>1, <2>2, <2>3 DEF Listed
<1>9. \A h \in Lists \ {l} : \A m \in Nodes :
        Listed(m, TheLists!Contents(h)) => next'[m] = next[m] /\ prev'[m] = prev[m]
  <2>1. next[n] = At(q, k + 1) /\ prev[n] = At(q, k - 1)
    BY <1>1, <1>4 DEF Linked
  <2>2. \A i : At(q, i) \in Nodes => Listed(At(q, i), q)
    BY <1>1 DEF At, Listed, TheLists!ListAssumption
  <2>3. Listed(n, q)
    BY <1>4 DEF Listed
  <2>4. \A h \in Lists \ {l} : \A m \in Nodes :
          Listed(m, TheLists!Contents(h)) => m # n /\ m # next[n] /\ m # prev[n]
    <3>1. \A h \in Lists \ {l} : \A m \in Nodes : Listed(m, TheLists!Contents(h)) =>
            ~Listed(m, q)
      BY DEF ListInv, q
    <3>. QED  BY <2>1, <2>2, <2>3, <3>1
  <2>. QED  BY <1>2, <1>3, <2>4
<1>10. Relinked(l, r)
  <2>1. len' = [len EXCEPT ![l] = Len(r)]
    BY <1>1, <1>2, <1>3, <1>6
  <2>2. /\ first' \in [Lists -> Nodes \cup {NoNode}]
           /\ last' \in [Lists -> Nodes \cup {NoNode}]
        /\ \A h \in Lists \ {l} : first'[h] = first[h] /\ last'[h] = last[h]
    BY <1>2, <1>3
  <2>3. next' \in [Nodes -> Nodes \cup {NoNode}] /\ prev' \in [Nodes -> Nodes \cup {NoNode}]
    BY <1>2, <1>3
  <2>. QED  BY <1>5, <1>7, <1>9, <2>1, <2>2, <2>3 DEF Relinked
<1>11. /\ ListInv'
       /\ [h \in Lists |-> TheLists!Contents(h)]' =
            [[h \in Lists |-> TheLists!Contents(h)] EXCEPT ![l] = r]
  <2>1. /\ \A m \in Nodes : Listed(m, r) => m \in allocated'
        /\ \A m \in Nodes : \A h \in Lists \ {l} : ~(Listed(m, r)
           /\ Listed(m, TheLists!Contents(h)))
        /\ current[l] = NoNode \/ Listed(current[l], r)
    BY <1>3, <1>8 DEF ListInv, q
  <2>. QED  BY <1>2, <1>3, <1>10, <2>1, RelinkedKeeps
<1>. QED  BY <1>4, <1>11 DEF r, q

(* A walk moves nothing.                                                   *)
LEMMA WalkStep ==
  ASSUME ListInv, UNCHANGED <<first, last, len, TheLists!nodeVars, allocated>>,
         current' \in [Lists -> Nodes \cup {NoNode}],
         \A l \in Lists : current'[l] = NoNode \/ Listed(current'[l], TheLists!Contents(l))
  PROVE  ListInv' /\ [h \in Lists |-> TheLists!Contents(h)]' =
           [h \in Lists |-> TheLists!Contents(h)]
<1>1. /\ first' = first /\ last' = last /\ len' = len /\ next' = next /\ prev' = prev
      /\ allocated' = allocated
  BY DEF TheLists!nodeVars
<1>2. \A l \in Lists : TheLists!Contents(l)' = TheLists!Contents(l)
  <2>1. ASSUME NEW l \in Lists PROVE TheLists!Contents(l)' = TheLists!Contents(l)
    BY <1>1 DEF TheLists!Contents
  <2>. QED  BY <2>1
<1>3. [h \in Lists |-> TheLists!Contents(h)]' = [h \in Lists |-> TheLists!Contents(h)]
  <2>. HIDE DEF TheLists!Contents
  <2>. QED  BY <1>2
<1>4. ListInv'
  <2>. HIDE DEF TheLists!Contents
  <2>1. ASSUME NEW h \in Lists
        PROVE  /\ Linked(next', prev', first'[h], last'[h], TheLists!Contents(h)')
               /\ len'[h] = Len(TheLists!Contents(h)')
               /\ \A n \in Nodes : Listed(n, TheLists!Contents(h)') => n \in allocated'
               /\ current'[h] = NoNode \/ Listed(current'[h], TheLists!Contents(h)')
    <3>1. /\ Linked(next, prev, first[h], last[h], TheLists!Contents(h))
             /\ len[h] = Len(TheLists!Contents(h))
          /\ \A n \in Nodes : Listed(n, TheLists!Contents(h)) => n \in allocated
      BY DEF ListInv
    <3>2. TheLists!Contents(h)' = TheLists!Contents(h)
      BY <1>2
    <3>. QED  BY <1>1, <3>1, <3>2
  <2>2. \A h, g \in Lists, n \in Nodes :
          Listed(n, TheLists!Contents(h)') /\ Listed(n, TheLists!Contents(g)') => h = g
    <3>1. \A h, g \in Lists, n \in Nodes :
            Listed(n, TheLists!Contents(h)) /\ Listed(n, TheLists!Contents(g)) => h = g
      BY DEF ListInv
    <3>. QED  BY <1>2, <3>1
  <2>3. /\ first' \in [Lists -> Nodes \cup {NoNode}]
           /\ last' \in [Lists -> Nodes \cup {NoNode}]
        /\ current' \in [Lists -> Nodes \cup {NoNode}] /\ len' \in [Lists -> Nat]
        /\ next' \in [Nodes -> Nodes \cup {NoNode}]
           /\ prev' \in [Nodes -> Nodes \cup {NoNode}]
        /\ allocated' \subseteq Nodes
    BY <1>1 DEF ListInv
  <2>. QED  BY Zenon, <2>1, <2>2, <2>3 DEF ListInv
<1>. QED  BY <1>3, <1>4

(* freeLinkedListADTDeep: the nodes of the list are in no other.           *)
LEMMA FreeStep ==
  ASSUME TheLists!ListAssumption, ListInv, NEW l \in Lists, TheLists!FreeDeep(l)
  PROVE  /\ ListInv'
         /\ [h \in Lists |-> TheLists!Contents(h)]' =
              [[h \in Lists |-> TheLists!Contents(h)] EXCEPT ![l] = <<>>]
<1>1. /\ first' = [first EXCEPT ![l] = NoNode] /\ last' = [last EXCEPT ![l] = NoNode]
      /\ len' = [len EXCEPT ![l] = 0] /\ current' = current /\ next' = next /\ prev' = prev
      /\ allocated' = allocated \ TheLists!Members(l) /\ current[l] = NoNode
  BY DEF TheLists!FreeDeep, TheLists!nodeVars
<1>2. /\ first \in [Lists -> Nodes \cup {NoNode}] /\ last \in [Lists -> Nodes \cup {NoNode}]
      /\ len \in [Lists -> Nat]
      /\ next \in [Nodes -> Nodes \cup {NoNode}] /\ prev \in [Nodes -> Nodes \cup {NoNode}]
      /\ current \in [Lists -> Nodes \cup {NoNode}] /\ allocated \subseteq Nodes
  BY DEF ListInv
<1>3. <<>> \in Seq(Nodes) /\ NoneTwice(<<>>) /\ Len(<<>>) = 0
  BY DEF NoneTwice
<1>4. \A n : ~Listed(n, <<>>)
  BY <1>3 DEF Listed
<1>5. Linked(next', prev', first'[l], last'[l], <<>>)
  <2>1. first'[l] = NoNode /\ last'[l] = NoNode
    BY <1>1, <1>2
  <2>2. \A i : At(<<>>, i) = NoNode
    BY <1>3 DEF At
  <2>. QED  BY <1>3, <2>1, <2>2 DEF Linked
<1>6. Relinked(l, <<>>)
  <2>1. /\ first' \in [Lists -> Nodes \cup {NoNode}]
           /\ last' \in [Lists -> Nodes \cup {NoNode}]
        /\ len' = [len EXCEPT ![l] = Len(<<>>)]
        /\ \A h \in Lists \ {l} : first'[h] = first[h] /\ last'[h] = last[h]
    BY <1>1, <1>2, <1>3
  <2>. QED  BY <1>1, <1>2, <1>5, <2>1 DEF Relinked
<1>7. \A n \in allocated \ allocated' : Listed(n, TheLists!Contents(l)) /\ ~Listed(n, <<>>)
  <2>1. \A n : Listed(n, TheLists!Contents(l)) <=> n \in TheLists!Members(l)
    BY ListFacts
  <2>. QED  BY <1>1, <1>4, <2>1
<1>. QED  BY <1>1, <1>2, <1>4, <1>6, <1>7, RelinkedKeeps

(* Every call keeps the invariant and is a step of NodeLists.              *)
LEMMA ListStep == ASSUME TheLists!ListAssumption, ListInv, TheLists!Next PROVE ListInv'
                         /\ TheLists!AsSequences!Next
<1>. DEFINE items == [h \in Lists |-> TheLists!Contents(h)]
<1>1. PICK l \in Lists :
        \/ \E n \in Nodes : \/ TheLists!AppendElement(l, n) \/ TheLists!AppendLoose(l, n)
                            \/ TheLists!PrependNode(l, n) \/ TheLists!RemoveNode(l, n)
        \/ TheLists!Begin(l) \/ TheLists!NextElement(l) \/ TheLists!FreeDeep(l)
  BY DEF TheLists!Next
<1>2. items[l] = TheLists!Contents(l)
  OBVIOUS
<1>3. /\ \A h \in Lists : \A n : Listed(n, TheLists!Contents(h)) <=> n \in TheLists!Members(h)
      /\ \A h \in Lists : \A n : Listed(n, TheLists!Contents(h)) => n \in allocated
  BY ListFacts
<1>4. \A h \in Lists : TheLists!AsSequences!ToSet(items[h]) = TheLists!Members(h)
  BY DEF TheLists!AsSequences!ToSet, TheLists!Members
<1>5. TheLists!AsSequences!Loose = {n \in allocated : \A h
        \in Lists : n \notin TheLists!Members(h)}
  BY <1>4 DEF TheLists!AsSequences!Loose
<1>6. ASSUME NEW n \in Nodes, TheLists!AppendElement(l, n) \/ TheLists!AppendLoose(l,
             n) \/ TheLists!PrependNode(l, n)
      PROVE  /\ \A h \in Lists : ~Listed(n, TheLists!Contents(h))
             /\ n \in TheLists!AsSequences!Loose \/ n \notin allocated
             /\ allocated' = allocated \cup {n} /\ current' = current
             /\ TheLists!PrependNode(l, n) => n \in allocated
  <2>1. CASE TheLists!AppendElement(l, n)
    BY <1>3, <2>1 DEF TheLists!AppendElement, TheLists!AppendNode, TheLists!PrependNode,
    TheLists!Loose
  <2>2. CASE TheLists!AppendLoose(l, n)
    BY <1>3, <1>5, <2>2 DEF TheLists!AppendLoose, TheLists!AppendNode, TheLists!Loose
  <2>3. CASE TheLists!PrependNode(l, n)
    BY <1>3, <1>5, <2>3 DEF TheLists!PrependNode, TheLists!Loose
  <2>. QED  BY <1>6, <2>1, <2>2, <2>3
<1>7. ASSUME NEW n \in Nodes, TheLists!AppendElement(l, n) \/ TheLists!AppendLoose(l, n)
      PROVE  ListInv' /\ TheLists!AsSequences!Insert(l, n, Append(items[l], n))
  <2>1. TheLists!AppendNode(l, n)
    BY <1>7 DEF TheLists!AppendElement, TheLists!AppendLoose
  <2>2. ListInv' /\ items' = [items EXCEPT ![l] = Append(items[l], n)]
    BY <1>6, <1>7, <2>1, AppendStep
  <2>. HIDE DEF items
  <2>. QED  BY <1>6, <1>7, <2>2 DEF TheLists!AsSequences!Insert, items
<1>8. ASSUME NEW n \in Nodes, TheLists!PrependNode(l, n)
      PROVE  ListInv' /\ TheLists!AsSequences!Insert(l, n, <<n>> \o items[l])
  <2>1. ListInv' /\ items' = [items EXCEPT ![l] = <<n>> \o items[l]]
    BY <1>6, <1>8, PrependStep
  <2>. HIDE DEF items
  <2>. QED  BY <1>6, <1>8, <2>1 DEF TheLists!AsSequences!Insert, items
<1>9. ASSUME NEW n \in Nodes, TheLists!RemoveNode(l, n) PROVE ListInv'
             /\ TheLists!AsSequences!Take(l, n)
  <2>1. PICK k \in 1 .. Len(TheLists!Contents(l)) :
          /\ TheLists!Contents(l)[k] = n
          /\ items' = [items EXCEPT ![l] = Without(TheLists!Contents(l), k)]
    BY <1>9, RemoveStep
  <2>2. ListInv'
    BY <1>9, RemoveStep
  <2>3. Without(TheLists!Contents(l), k) = TheLists!AsSequences!RemoveAt(items[l], k)
    BY DEF Without, TheLists!AsSequences!RemoveAt
  <2>4. k \in DOMAIN items[l] /\ items[l][k] = n
    <3>1. TheLists!Contents(l) \in Seq(Nodes)
      BY ListFacts
    <3>. QED  BY <2>1, <3>1
  <2>5. current[l] # n /\ current' = current /\ allocated' = allocated
    BY <1>9 DEF TheLists!RemoveNode
  <2>. HIDE DEF items
  <2>6. items' = [items EXCEPT ![l] = TheLists!AsSequences!RemoveAt(items[l], k)]
    BY <2>1, <2>3
  <2>. QED  BY <2>2, <2>4, <2>5, <2>6 DEF TheLists!AsSequences!Take, items
<1>10. ASSUME TheLists!Begin(l) PROVE ListInv' /\ TheLists!AsSequences!Begin(l)
  <2>. DEFINE q == TheLists!Contents(l)
  <2>1. q \in Seq(Nodes) /\ first[l] = At(q, 1) /\ (\A i \in 1 .. Len(q) : q[i] \in Nodes)
    BY ListFacts
  <2>2. /\ current' = [current EXCEPT ![l] = first[l]]
        /\ UNCHANGED <<first, last, len, TheLists!nodeVars, allocated>>
    BY <1>10 DEF TheLists!Begin
  <2>. HIDE DEF q
  <2>3. /\ first[l] = (IF q = <<>> THEN NoNode ELSE Head(q))
        /\ first[l] = NoNode \/ (first[l] \in Nodes /\ Listed(first[l], q))
    <3>1. CASE q = <<>>
      <4>1. 1 \notin 1 .. Len(q)
        BY <3>1
      <4>. QED  BY <2>1, <3>1, <4>1 DEF At
    <3>2. CASE q # <<>>
      <4>1. 1 \in 1 .. Len(q) /\ Head(q) = q[1]
        BY <2>1, <3>2
      <4>. QED  BY <2>1, <3>2, <4>1 DEF At, Listed
    <3>. QED  BY <3>1, <3>2
  <2>4. /\ current' \in [Lists -> Nodes \cup {NoNode}]
        /\ \A h \in Lists : current'[h] = NoNode \/ Listed(current'[h], TheLists!Contents(h))
    <3>1. /\ current \in [Lists -> Nodes \cup {NoNode}]
          /\ \A h \in Lists : current[h] = NoNode \/ Listed(current[h], TheLists!Contents(h))
      BY DEF ListInv
    <3>. QED  BY <2>2, <2>3, <3>1 DEF q
  <2>5. ListInv' /\ items' = items
    BY <2>2, <2>4, WalkStep
  <2>6. allocated' = allocated /\ items[l] = q
    BY <2>2 DEF q
  <2>. HIDE DEF items
  <2>. QED  BY <2>2, <2>3, <2>5, <2>6 DEF TheLists!AsSequences!Begin, items
<1>11. ASSUME TheLists!NextElement(l) PROVE ListInv' /\ TheLists!AsSequences!Advance(l)
  <2>. DEFINE q == TheLists!Contents(l)
  <2>1. /\ q \in Seq(Nodes) /\ Len(q) \in Nat /\ (\A i \in 1 .. Len(q) : q[i] \in Nodes)
        /\ Linked(next, prev, first[l], last[l], q)
    BY ListFacts
  <2>2. /\ current[l] # NoNode /\ current' = [current EXCEPT ![l] = next[current[l]]]
        /\ UNCHANGED <<first, last, len, TheLists!nodeVars, allocated>>
    BY <1>11 DEF TheLists!NextElement
  <2>3. PICK k \in 1 .. Len(q) : q[k] = current[l]
    BY <2>2 DEF ListInv, Listed
  <2>. HIDE DEF q
  <2>4. /\ next[current[l]] = (IF k = Len(q) THEN NoNode ELSE q[k + 1])
        /\ next[current[l]] = NoNode
           \/ (next[current[l]] \in Nodes /\ Listed(next[current[l]], q))
    <3>1. next[current[l]] = At(q, k + 1)
      BY <2>1, <2>3 DEF Linked
    <3>2. k + 1 \in 1 .. Len(q) <=> k # Len(q)
      BY <2>1
    <3>. QED  BY <2>1, <3>1, <3>2 DEF At, Listed
  <2>5. /\ current' \in [Lists -> Nodes \cup {NoNode}]
        /\ \A h \in Lists : current'[h] = NoNode \/ Listed(current'[h], TheLists!Contents(h))
    <3>1. /\ current \in [Lists -> Nodes \cup {NoNode}]
          /\ \A h \in Lists : current[h] = NoNode \/ Listed(current[h], TheLists!Contents(h))
      BY DEF ListInv
    <3>. QED  BY <2>2, <2>4, <3>1 DEF q
  <2>6. ListInv' /\ items' = items
    BY <2>2, <2>5, WalkStep
  <2>7. allocated' = allocated /\ items[l] = q /\ k \in DOMAIN q
    BY <2>1, <2>2 DEF q
  <2>. HIDE DEF items
  <2>. QED  BY <2>2, <2>3, <2>4, <2>6, <2>7 DEF TheLists!AsSequences!Advance, items
<1>12. ASSUME TheLists!FreeDeep(l) PROVE ListInv' /\ TheLists!AsSequences!Free(l)
  <2>1. ListInv' /\ items' = [items EXCEPT ![l] = <<>>]
    BY <1>12, FreeStep
  <2>2. current[l] = NoNode /\ allocated' = allocated \ TheLists!Members(l)
        /\ current' = current
    BY <1>12 DEF TheLists!FreeDeep
  <2>3. TheLists!Members(l) = TheLists!AsSequences!ToSet(items[l])
    BY <1>4
  <2>. HIDE DEF items
  <2>. QED  BY <2>1, <2>2, <2>3 DEF TheLists!AsSequences!Free, items
<1>. HIDE DEF items
<1>. QED
  BY <1>1, <1>7, <1>8, <1>9, <1>10, <1>11, <1>12 DEF TheLists!AsSequences!Next, items

(* The lists read the same in both directions and len is their length.     *)
LEMMA ListReadsBothWays == ASSUME TheLists!ListAssumption, ListInv
                                  PROVE TheLists!BothDirections
<1>1. ASSUME NEW l \in Lists
      PROVE  /\ Len(TheLists!Contents(l)) = len[l] /\ Len(TheLists!Along(prev, last[l])) =
                  len[l]
             /\ \A k \in 1 .. len[l] :
                  TheLists!Along(prev, last[l])[k] = TheLists!Contents(l)[len[l] + 1 - k]
  <2>1. Linked(next, prev, first[l], last[l], TheLists!Contents(l))
        /\ len[l] = Len(TheLists!Contents(l))
    BY DEF ListInv
  <2>. HIDE DEF TheLists!Contents, TheLists!Along
  <2>. QED  BY <2>1, LinkedContents
<1>. QED  BY <1>1 DEF TheLists!BothDirections

LEMMA ListMoves ==
  ASSUME Next
  PROVE  (part = "lists" /\ TheLists!Next) \/ UNCHANGED listVars
BY DEF Next, Moves

LEMMA ListStays ==
  ASSUME ListInv, UNCHANGED listVars
  PROVE  ListInv' /\ UNCHANGED TheLists!AsSequences!vars
<1>1. /\ first' = first /\ last' = last /\ current' = current /\ len' = len
      /\ next' = next /\ prev' = prev /\ allocated' = allocated
  BY DEF listVars
<1>2. \A l : TheLists!Contents(l)' = TheLists!Contents(l)
  BY <1>1 DEF TheLists!Contents
<1>3. ListInv'
  BY <1>1, <1>2 DEF ListInv
<1>. QED  BY <1>1, <1>2, <1>3 DEF TheLists!AsSequences!vars

LEMMA ListsAlways ==
  /\ Init => ListInv /\ TheLists!AsSequences!Init
  /\ ListInv /\ [Next]_vars => ListInv'
  /\ ListInv /\ [Next]_vars =>
       [part = "lists" => [TheLists!AsSequences!Next]_(TheLists!AsSequences!vars)]_vars
<1>1. Init => ListInv /\ TheLists!AsSequences!Init
  BY PartsAssumption, ListInit DEF Init, PartsAssumption
<1>2. ASSUME ListInv, TheLists!Next
      PROVE  ListInv' /\ TheLists!AsSequences!Next
  BY <1>2, PartsAssumption, ListStep DEF PartsAssumption
<1>3. UNCHANGED vars => UNCHANGED listVars
  BY DEF vars
<1>. QED  BY <1>1, <1>2, <1>3, ListMoves, ListStays

(* The pointers of the lists are sequences, however long and many: nodes   *)
(* go in at the ends, come out anywhere, a walk meets every node after the *)
(* one it stands on, and the lists read the same in both directions.       *)
THEOREM ImplementsNodeListsHolds == Spec => ImplementsNodeLists
<1>1. ListInv => TheLists!BothDirections
  BY PartsAssumption, ListReadsBothWays DEF PartsAssumption
<1>. HIDE DEF ListInv, Init, Next, vars, Fairness
<1>. QED  BY <1>1, ListsAlways, PTL DEF Spec, ImplementsNodeLists

-----------------------------------------------------------------------------
(* The buddy manager is the one of its proofs, which are about any.        *)
OfBuddy == INSTANCE BuddyProofs WITH Sizes <- BuddySizes

LEMMA SameBuddy ==
  /\ BuddyManager!BuddyAssumption <=> OfBuddy!BuddyAssumption
  /\ BuddyManager!Init <=> OfBuddy!Init
  /\ BuddyManager!Next <=> OfBuddy!Next
  /\ BuddyManager!vars = OfBuddy!vars
<1>1. BuddyManager!BuddyAssumption <=> OfBuddy!BuddyAssumption
  BY DEF BuddyManager!BuddyAssumption, OfBuddy!BuddyAssumption
<1>2. /\ BuddyManager!Init <=> OfBuddy!Init
      /\ BuddyManager!vars = OfBuddy!vars
  BY DEF BuddyManager!Init, BuddyManager!Addresses, BuddyManager!Memory, BuddyManager!Exps,
     BuddyManager!CreateBlock, BuddyManager!vars, OfBuddy!Init, OfBuddy!Addresses,
     OfBuddy!Memory, OfBuddy!Exps, OfBuddy!CreateBlock, OfBuddy!vars
<1>3. BuddyManager!Alloc <=> OfBuddy!Alloc
  BY DEF BuddyManager!Alloc, BuddyManager!AllocMemory, BuddyManager!SplitFrom,
     BuddyManager!ExpFor, BuddyManager!AfterSplit, BuddyManager!Garbage,
     BuddyManager!CreateBlock, BuddyManager!Exps, BuddyManager!Addresses,
     BuddyManager!Memory, OfBuddy!Alloc, OfBuddy!AllocMemory, OfBuddy!SplitFrom,
     OfBuddy!ExpFor, OfBuddy!AfterSplit, OfBuddy!Garbage, OfBuddy!CreateBlock,
     OfBuddy!Exps, OfBuddy!Addresses, OfBuddy!Memory
<1>4. BuddyManager!Free <=> OfBuddy!Free
  BY DEF BuddyManager!Free, BuddyManager!FreeMemory, BuddyManager!MergedExp,
     BuddyManager!Merges, BuddyManager!Buddy, BuddyManager!BlockAt,
     BuddyManager!RemoveBlock, BuddyManager!RemoveAt, BuddyManager!Max,
     BuddyManager!CreateBlock, BuddyManager!Exps, BuddyManager!Addresses,
     BuddyManager!Memory, OfBuddy!Free, OfBuddy!FreeMemory, OfBuddy!MergedExp,
     OfBuddy!Merges, OfBuddy!Buddy, OfBuddy!BlockAt, OfBuddy!RemoveBlock,
     OfBuddy!RemoveAt, OfBuddy!Max, OfBuddy!CreateBlock, OfBuddy!Exps,
     OfBuddy!Addresses, OfBuddy!Memory
<1>. QED  BY <1>1, <1>2, <1>3, <1>4 DEF BuddyManager!Next, OfBuddy!Next

LEMMA SameBuddyPromises ==
  /\ BuddyManager!Mapped = OfBuddy!Mapped
  /\ BuddyManager!AsArena!Init <=> OfBuddy!AsArena!Init
  /\ BuddyManager!AsArena!Next <=> OfBuddy!AsArena!Next
  /\ BuddyManager!BuddyTypeOK <=> OfBuddy!BuddyTypeOK
  /\ BuddyManager!ServesWhenRoom <=> OfBuddy!ServesWhenRoom
<1>1. BuddyManager!Mapped = OfBuddy!Mapped
  BY DEF BuddyManager!Mapped, BuddyManager!WithHeader, OfBuddy!Mapped, OfBuddy!WithHeader
<1>2. /\ BuddyManager!AsArena!Init <=> OfBuddy!AsArena!Init
      /\ BuddyManager!AsArena!Next <=> OfBuddy!AsArena!Next
  BY DEF BuddyManager!AsArena!Init, BuddyManager!AsArena!Next, BuddyManager!AsArena!Alloc,
     BuddyManager!AsArena!Free, BuddyManager!AsArena!Bytes, BuddyManager!AsArena!Apart,
     BuddyManager!Memory, BuddyManager!Mapped, BuddyManager!WithHeader,
     OfBuddy!AsArena!Init, OfBuddy!AsArena!Next, OfBuddy!AsArena!Alloc,
     OfBuddy!AsArena!Free, OfBuddy!AsArena!Bytes, OfBuddy!AsArena!Apart,
     OfBuddy!Memory, OfBuddy!Mapped, OfBuddy!WithHeader
<1>3. BuddyManager!BuddyTypeOK <=> OfBuddy!BuddyTypeOK
  BY DEF BuddyManager!BuddyTypeOK, BuddyManager!ToSet, BuddyManager!CreateBlock,
     BuddyManager!Exps, BuddyManager!Addresses, BuddyManager!Memory,
     OfBuddy!BuddyTypeOK, OfBuddy!ToSet, OfBuddy!CreateBlock, OfBuddy!Exps,
     OfBuddy!Addresses, OfBuddy!Memory
<1>4. BuddyManager!ServesWhenRoom <=> OfBuddy!ServesWhenRoom
  BY DEF BuddyManager!ServesWhenRoom, BuddyManager!Occupied, BuddyManager!SplitFrom,
     BuddyManager!ExpFor, BuddyManager!Exps, BuddyManager!Memory,
     OfBuddy!ServesWhenRoom, OfBuddy!Occupied, OfBuddy!SplitFrom,
     OfBuddy!ExpFor, OfBuddy!Exps, OfBuddy!Memory
<1>. QED  BY <1>1, <1>2, <1>3, <1>4

LEMMA BuddyMoves ==
  ASSUME Next
  PROVE  (part = "buddy" /\ BuddyManager!Next) \/ UNCHANGED buddyVars
BY DEF Next, Moves

LEMMA BuddyAlways ==
  ASSUME OfBuddy!Requests
  PROVE  /\ Init => OfBuddy!BuddyInv
         /\ OfBuddy!BuddyInv /\ [Next]_vars => OfBuddy!BuddyInv'
         /\ OfBuddy!BuddyInv /\ [Next]_vars =>
              [part = "buddy" => [BuddyManager!AsArena!Next]_(BuddyManager!Mapped)]_vars
<1>1. OfBuddy!BuddyAssumption
  BY PartsAssumption, SameBuddy DEF PartsAssumption
<1>2. Init => OfBuddy!BuddyInv
  BY <1>1, SameBuddy, OfBuddy!BuddyStarts DEF Init, OfBuddy!BuddyInv
<1>3. ASSUME OfBuddy!BuddyInv, UNCHANGED buddyVars
      PROVE  OfBuddy!BuddyInv' /\ UNCHANGED BuddyManager!Mapped
  <2>1. UNCHANGED OfBuddy!vars /\ handed' = handed
    BY <1>3 DEF buddyVars, OfBuddy!vars
  <2>2. OfBuddy!BuddyInv'
    BY <1>3, <2>1, OfBuddy!BuddyStays
  <2>. QED  BY <2>1, <2>2 DEF BuddyManager!Mapped
<1>4. ASSUME OfBuddy!BuddyInv, BuddyManager!Next
      PROVE  OfBuddy!BuddyInv' /\ BuddyManager!AsArena!Next
  BY <1>1, <1>4, SameBuddy, SameBuddyPromises, OfBuddy!BuddyStep DEF OfBuddy!BuddyInv
<1>5. UNCHANGED vars => UNCHANGED buddyVars
  BY DEF vars
<1>. QED  BY <1>2, <1>3, <1>4, <1>5, BuddyMoves

(* Both memory managers implement Arena: pieces with their headers lie in  *)
(* the memory and apart, whatever is allocated and freed and however large *)
(* the memory is, if no request to the buddy manager exceeds its memory.   *)
THEOREM ImplementsArenaHolds ==
  ASSUME OfBuddy!Requests
  PROVE  Spec => ImplementsArena
<1>1. Init => BuddyManager!AsArena!Init
  BY DEF Init, BuddyManager!Init, BuddyManager!AsArena!Init, BuddyManager!Mapped
<1>2. Spec => BuddyManager!AsArena!Init
        /\ [][part = "buddy" => [BuddyManager!AsArena!Next]_(BuddyManager!Mapped)]_vars
  <2>. HIDE DEF Init, Next, vars, Fairness, BuddyManager!Mapped
  <2>. QED  BY <1>1, BuddyAlways, PTL DEF Spec
<1>. QED  BY <1>2, HeapImplementsArena, PTL DEF ImplementsArena

(* What is freed is not lost to the buddy manager either: where a block    *)
(* that fits could lie a request is served.  Its lists hold free blocks.   *)
THEOREM BuddyServesWhenRoom ==
  ASSUME OfBuddy!Requests
  PROVE  Spec => [](BuddyManager!BuddyTypeOK /\ BuddyManager!ServesWhenRoom)
<1>1. OfBuddy!BuddyInv => BuddyManager!BuddyTypeOK /\ BuddyManager!ServesWhenRoom
  <2>1. OfBuddy!BuddyAssumption
    BY PartsAssumption, SameBuddy DEF PartsAssumption
  <2>. QED  BY <2>1, SameBuddyPromises, OfBuddy!BuddyServes DEF OfBuddy!BuddyInv
<1>. HIDE DEF Init, Next, vars, Fairness
<1>. QED  BY <1>1, BuddyAlways, PTL DEF Spec
=============================================================================
