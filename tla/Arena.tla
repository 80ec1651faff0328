-------------------------------- MODULE Arena --------------------------------
(***************************************************************************)
(* What allocMemory and freeMemory promise to the kernel and, through the  *)
(* system calls, to the programs, whichever of the two memory managers is  *)
(* compiled in: a piece of memory of the size that was asked for, inside   *)
(* the managed area, that nobody else holds until it is freed.  A request  *)
(* may be refused.                                                         *)
(***************************************************************************)
EXTENDS Integers

CONSTANTS Memory,   \* the addresses of the managed area
          Sizes     \* the sizes that are requested

VARIABLE handed     \* the pieces in use: [ptr |-> address, size |-> bytes]

Bytes(piece) == piece.ptr .. piece.ptr + piece.size - 1
Apart(p, q) == Bytes(p) \cap Bytes(q) = {}

Init == handed = {}

Alloc(piece) ==
  /\ piece.size \in Sizes /\ Bytes(piece) \subseteq Memory
  /\ \A q \in handed : Apart(piece, q) /\ q.ptr # piece.ptr
  /\ handed' = handed \cup {piece}

Free(piece) == handed' = handed \ {piece}

Next ==
  \/ \E piece \in handed' \ handed : Alloc(piece)
  \/ \E piece \in handed \ handed' : Free(piece)

Spec == Init /\ [][Next]_handed
=============================================================================
