------------------------------ MODULE NodeLists -----------------------------
(***************************************************************************)
(* What the kernel's list library promises to the scheduler, the zombie    *)
(* lists and the semaphores: each list is a sequence of nodes, no node is  *)
(* in two lists or twice in one, and one cursor per list walks it from     *)
(* front to back.  As the library asks, the node under the cursor is not   *)
(* removed and a list is not freed during a walk.                          *)
(***************************************************************************)
EXTENDS Naturals, Sequences, SequencesExt

CONSTANTS Lists, Nodes, NoNode

VARIABLES items,      \* per list, its nodes in order
          cursor,     \* per list, the node that is visited next, or NoNode
          allocated   \* the nodes that exist, in a list or out of it

Loose == {n \in allocated : \A l \in Lists : n \notin ToSet(items[l])}

vars == <<items, cursor, allocated>>

Init ==
  /\ items \in [Lists -> {<<>>}] /\ cursor \in [Lists -> {NoNode}] /\ allocated = {}

Insert(l, n, longer) ==
  /\ n \in Loose \/ n \notin allocated
  /\ longer \in {Append(items[l], n), <<n>> \o items[l]}
  /\ items' = [items EXCEPT ![l] = longer] /\ allocated' = allocated \cup {n}
  /\ UNCHANGED cursor
Take(l, n) ==
  /\ cursor[l] # n
  /\ \E k \in DOMAIN items[l] :
       items[l][k] = n /\ items' = [items EXCEPT ![l] = RemoveAt(@, k)]
  /\ UNCHANGED <<cursor, allocated>>
Begin(l) ==
  /\ cursor' = [cursor EXCEPT ![l] = IF items[l] = <<>> THEN NoNode ELSE Head(items[l])]
  /\ UNCHANGED <<items, allocated>>
Advance(l) ==
  /\ \E k \in DOMAIN items[l] :
       /\ cursor[l] = items[l][k]
       /\ cursor' = [cursor EXCEPT ![l] =
                       IF k = Len(items[l]) THEN NoNode ELSE items[l][k + 1]]
  /\ UNCHANGED <<items, allocated>>
Free(l) ==
  /\ cursor[l] = NoNode /\ allocated' = allocated \ ToSet(items[l])
  /\ items' = [items EXCEPT ![l] = <<>>] /\ UNCHANGED cursor

Next ==
  \E l \in Lists :
    \/ \E n \in Nodes : Take(l, n)
                        \/ Insert(l, n, Append(items[l], n)) \/ Insert(l, n, <<n>> \o items[l])
    \/ Begin(l) \/ Advance(l) \/ Free(l)

Spec == Init /\ [][Next]_vars
=============================================================================
