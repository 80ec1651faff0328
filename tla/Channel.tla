------------------------------ MODULE Channel ------------------------------
(***************************************************************************)
(* What a byte channel of the kernel promises to the two processes at its  *)
(* ends: every byte that is handed to the receiver was accepted from the   *)
(* sender, each once and in the order it was accepted; at most Capacity    *)
(* bytes are under way; the end of the stream is announced only when every *)
(* byte before it has been handed over; nothing is accepted after it.      *)
(*                                                                         *)
(* The modules Pipe and Keyboard implement it.  A step may serve several   *)
(* channels at once, each in one of the ways listed below.                 *)
(***************************************************************************)
EXTENDS Naturals, Sequences, SequencesExt

CONSTANTS Channels, Byte,
          Capacity    \* how many bytes fit, at least one

VARIABLES sent,     \* per channel, every byte accepted since it was opened
          taken,    \* the bytes handed to the receiver, a prefix of sent
          closed,   \* the sender has announced the end of the stream
          ended     \* the receiver has been told of the end

channelVars == <<sent, taken, closed, ended>>

Fresh(c) ==
  sent[c] = <<>> /\ taken[c] = <<>> /\ ~closed[c] /\ ~ended[c]

Init ==
  /\ sent \in [Channels -> {<<>>}] /\ taken \in [Channels -> {<<>>}]
  /\ closed \in [Channels -> {FALSE}] /\ ended \in [Channels -> {FALSE}]

(* Bytes and the end of the stream are accepted while it is open.          *)
Send(c) ==
  /\ ~closed[c]
  /\ IsPrefix(sent[c], sent'[c])
  /\ Len(sent'[c]) - Len(taken[c]) <= Capacity
  /\ closed'[c] \in BOOLEAN
  /\ taken'[c] = taken[c] /\ ended'[c] = ended[c]

(* The receiver is handed the next bytes, and the end after the last one.  *)
Receive(c) ==
  /\ IsPrefix(taken[c], taken'[c]) /\ IsPrefix(taken'[c], sent[c])
  /\ ended'[c] => ended[c] \/ (closed[c] /\ taken'[c] = sent[c])
  /\ ended[c] => ended'[c]
  /\ sent'[c] = sent[c] /\ closed'[c] = closed[c]

(* The channel is thrown away; whoever opens it next starts afresh.        *)
Discard(c) == Fresh(c)'

Stay(c) ==
  /\ sent'[c] = sent[c] /\ taken'[c] = taken[c]
  /\ closed'[c] = closed[c] /\ ended'[c] = ended[c]

Next == \A c \in Channels : Stay(c) \/ Send(c) \/ Receive(c) \/ Discard(c)

Spec == Init /\ [][Next]_channelVars
=============================================================================
