----------------------------- MODULE LinkedList -----------------------------
(***************************************************************************)
(* The doubly linked lists of Kernel/lib/linkedListADT.c, pointer by       *)
(* pointer.  removeNode does not free the node: the scheduler moves nodes  *)
(* between lists, the semaphores leave them behind.  A freed node keeps    *)
(* its stale pointers until it is allocated again.                         *)
(***************************************************************************)
EXTENDS Naturals, Sequences, FiniteSets

CONSTANTS Lists, Nodes, NoNode    \* NoNode is the NULL of the code

(* What the constants must satisfy; assumed where they are given values.  *)
ListAssumption == IsFiniteSet(Nodes) /\ NoNode \notin Nodes

VARIABLES first, last, current, len,   \* LinkedListCDT
          next, prev,                  \* Node
          allocated                    \* the nodes allocMemory has given out

listVars == <<first, last, current, len>>
nodeVars == <<next, prev>>
vars == <<listVars, nodeVars, allocated>>

Init ==
  /\ first = [l \in Lists |-> NoNode] /\ last = [l \in Lists |-> NoNode]
  /\ current = [l \in Lists |-> NoNode] /\ len = [l \in Lists |-> 0]
  /\ next = [n \in Nodes |-> NoNode] /\ prev = [n \in Nodes |-> NoNode]
  /\ allocated = {}

(* The nodes met from start on along a pointer, at most one round.         *)
Walk(pointer, start) ==
  LET nth[k \in 1 .. Cardinality(Nodes) + 1] ==
        IF k = 1 THEN start
        ELSE IF nth[k - 1] = NoNode THEN NoNode ELSE pointer[nth[k - 1]]
  IN nth
Along(pointer, start) ==
  LET met == {k \in DOMAIN Walk(pointer, start) : Walk(pointer, start)[k] # NoNode}
  IN [k \in 1 .. Cardinality(met) |-> Walk(pointer, start)[k]]
Contents(l) == Along(next, first[l])
Members(l) == {Contents(l)[k] : k \in DOMAIN Contents(l)}
Loose(n) == n \in allocated /\ \A l \in Lists : n \notin Members(l)

-----------------------------------------------------------------------------
(* appendNode; appendElement first allocates the node.                     *)
AppendNode(l, n) ==
  /\ next' = [m \in Nodes |-> IF m = n THEN NoNode
                              ELSE IF len[l] > 0 /\ m = last[l] THEN n ELSE next[m]]
  /\ first' = IF len[l] > 0 THEN first ELSE [first EXCEPT ![l] = n]
  /\ prev' = [prev EXCEPT ![n] = last[l]] /\ last' = [last EXCEPT ![l] = n]
  /\ len' = [len EXCEPT ![l] = @ + 1] /\ UNCHANGED current
AppendElement(l, n) ==
  n \notin allocated /\ allocated' = allocated \cup {n} /\ AppendNode(l, n)
AppendLoose(l, n) == Loose(n) /\ AppendNode(l, n) /\ UNCHANGED allocated

PrependNode(l, n) ==
  /\ Loose(n) /\ UNCHANGED <<current, allocated>>
  /\ prev' = [m \in Nodes |-> IF m = n THEN NoNode
                              ELSE IF len[l] > 0 /\ m = first[l] THEN n ELSE prev[m]]
  /\ last' = IF len[l] > 0 THEN last ELSE [last EXCEPT ![l] = n]
  /\ next' = [next EXCEPT ![n] = first[l]] /\ first' = [first EXCEPT ![l] = n]
  /\ len' = [len EXCEPT ![l] = @ + 1]

(* removeNode: each neighbour, or the end of the list, is relinked.        *)
Relink(l, n) ==
  /\ first' = [first EXCEPT ![l] = IF @ = n THEN next[n] ELSE @]
  /\ next' = [m \in Nodes |-> IF m = n THEN NoNode
                              ELSE IF first[l] # n /\ m = prev[n] THEN next[n] ELSE next[m]]
  /\ last' = [last EXCEPT ![l] = IF @ = n THEN prev[n] ELSE @]
  /\ prev' = [m \in Nodes |-> IF m = n THEN NoNode
                              ELSE IF last[l] # n /\ m = next[n] THEN prev[n] ELSE prev[m]]
RemoveNode(l, n) ==
  /\ n \in Members(l) /\ current[l] # n
  /\ Relink(l, n) /\ len' = [len EXCEPT ![l] = @ - 1]
  /\ UNCHANGED <<current, allocated>>

(* begin, and next while hasNext.                                          *)
Begin(l) ==
  /\ current' = [current EXCEPT ![l] = first[l]]
  /\ UNCHANGED <<first, last, len, nodeVars, allocated>>
NextElement(l) ==
  /\ current[l] # NoNode /\ current' = [current EXCEPT ![l] = next[current[l]]]
  /\ UNCHANGED <<first, last, len, nodeVars, allocated>>

(* freeLinkedListADTDeep; the next list is created in its place.           *)
FreeDeepFirst(l) ==    \* mutant: only the first node is freed
  /\ current[l] = NoNode /\ allocated' = allocated \ {first[l]}
  /\ first' = [first EXCEPT ![l] = NoNode] /\ last' = [last EXCEPT ![l] = NoNode]
  /\ len' = [len EXCEPT ![l] = 0] /\ UNCHANGED <<current, nodeVars>>
FreeDeep(l) ==
  /\ current[l] = NoNode /\ allocated' = allocated \ Members(l)
  /\ first' = [first EXCEPT ![l] = NoNode] /\ last' = [last EXCEPT ![l] = NoNode]
  /\ len' = [len EXCEPT ![l] = 0] /\ UNCHANGED <<current, nodeVars>>

Next ==
  \E l \in Lists :
    \/ \E n \in Nodes : \/ AppendElement(l, n) \/ AppendLoose(l, n)
                        \/ PrependNode(l, n) \/ RemoveNode(l, n)
    \/ Begin(l) \/ NextElement(l) \/ FreeDeep(l)
Spec == Init /\ [][Next]_vars

-----------------------------------------------------------------------------
(* The lists read the same in both directions, and len, which appendNode   *)
(* and prependNode trust instead of the pointers, is the number of nodes:  *)
(* no order of moves between lists leaves a stale pointer in a list.       *)
BothDirections ==
  \A l \in Lists :
    LET forward == Contents(l)
        back == Along(prev, last[l])
    IN /\ Len(forward) = len[l] /\ Len(back) = len[l]
       /\ \A k \in 1 .. len[l] : back[k] = forward[len[l] + 1 - k]

(* The pointers are sequences, and a walk meets every node after the one   *)
(* it stands on, whatever is added or taken away around it.                *)
AsSequences ==
  INSTANCE NodeLists WITH items <- [l \in Lists |-> Contents(l)], cursor <- current
ImplementsNodeLists == AsSequences!Spec
=============================================================================
