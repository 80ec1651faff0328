------------------------------ MODULE Keyboard ------------------------------
(***************************************************************************)
(* The keyboard: the interrupt handler of Kernel/asm/interrupts.asm, which *)
(* looks for Ctrl+C, Ctrl+D and Shift+Tab before it calls keyboard_master  *)
(* of Kernel/drivers/keyboard.c, the ring of characters between them and   *)
(* sys_read, and the processes that poll it.                               *)
(*                                                                         *)
(* An interrupt runs to its end, but for Ctrl+C: ctrl_c_handler asks for a *)
(* kill and forces a tick, so the rest of the handler runs when the        *)
(* process it interrupted is scheduled again, after other interrupts.      *)
(***************************************************************************)
EXTENDS Integers, Sequences, SequencesExt

CONSTANTS KEYBOARD_BUFFER_SIZE,
          Keys,       \* the printable keys that are pressed
          Lens,       \* how many characters one sys_read asks for
          MaxKeys,    \* bound: characters typed
          MaxPending  \* bound: handlers suspended by their Ctrl+C

(* What the constants must satisfy; assumed where they are given values.  *)
KeyboardAssumption == KEYBOARD_BUFFER_SIZE \in Nat \ {0, 1} /\ Lens \subseteq Nat

VARIABLES keyboardBuffer, bufferHead, bufferTail,
          shift, capsLock, ctrl,       \* what keyboard_master has seen
          left_shift, ctrl_pressed,    \* what the assembly has seen
          hasInforeg,                  \* a register snapshot was taken
          shouldKill,                  \* the scheduler's Ctrl+C flag
          pending,                     \* handlers inside ctrl_c_handler
          taken                        \* history: what readers were handed

ringVars == <<keyboardBuffer, bufferHead>>
masterVars == <<shift, capsLock, ctrl>>
asmVars == <<left_shift, ctrl_pressed, hasInforeg>>
vars == <<ringVars, bufferTail, masterVars, asmVars, shouldKill, pending, taken>>

Cells == 0 .. KEYBOARD_BUFFER_SIZE - 1
NUL == "nul"      \* an undefined key, and what an empty buffer answers
EOF == "eof"
Upper == [a |-> "A", c |-> "C", d |-> "D"]
Symbol == [backslash |-> "|", seven |-> "&"]
Characters ==
  Keys \cup {"c", NUL, EOF} \cup {Upper[k] : k \in DOMAIN Upper}
    \cup {Symbol[k] : k \in DOMAIN Symbol}
Modifiers == {"leftShift", "leftShiftUp", "rightShift", "rightShiftUp",
              "ctrl", "ctrlUp", "capsLock", "release"}

Init ==
  /\ keyboardBuffer = [i \in Cells |-> NUL] /\ bufferHead = 0 /\ bufferTail = 0
  /\ shift = FALSE /\ capsLock = FALSE /\ ctrl = FALSE
  /\ left_shift = FALSE /\ ctrl_pressed = FALSE /\ hasInforeg = FALSE
  /\ shouldKill = FALSE /\ pending = 0 /\ taken = <<>>

Size == (bufferHead - bufferTail) % KEYBOARD_BUFFER_SIZE
Contents ==
  [i \in 1 .. Size |-> keyboardBuffer[(bufferTail + i - 1) % KEYBOARD_BUFFER_SIZE]]

(* Mutant: the full buffer is not noticed.                                 *)
PushOver(char) ==
  /\ keyboardBuffer' = [keyboardBuffer EXCEPT ![bufferHead] = char]
  /\ bufferHead' = (bufferHead + 1) % KEYBOARD_BUFFER_SIZE

(* keyboard_buffer_push: one cell stays free; a full buffer drops the key. *)
KeyboardBufferPush(char) ==
  LET nextHead == (bufferHead + 1) % KEYBOARD_BUFFER_SIZE
  IN IF nextHead = bufferTail
     THEN UNCHANGED ringVars
     ELSE /\ keyboardBuffer' = [keyboardBuffer EXCEPT ![bufferHead] = char]
          /\ bufferHead' = nextHead

(* hexMapPressed and the case and symbol changes of keyboard_master.       *)
CharOf(key) ==
  CASE key \in DOMAIN Upper /\ (shift \/ capsLock) -> Upper[key]
    [] key \in DOMAIN Symbol /\ shift -> Symbol[key]
    [] OTHER -> key

(* ctrl_c_handler, killForegroundProcess: the flag for the next schedule() *)
CtrlCHandler == shouldKill' = TRUE

(* Mutant: the release of Ctrl is dropped with the other releases.         *)
MasterModifierNoUp(key) ==
  /\ shift' = CASE key \in {"leftShift", "rightShift"} -> TRUE
                [] key \in {"leftShiftUp", "rightShiftUp"} -> FALSE
                [] OTHER -> shift
  /\ ctrl' = (ctrl \/ key = "ctrl")
  /\ capsLock' = IF key = "capsLock" THEN ~capsLock ELSE capsLock
  /\ UNCHANGED <<ringVars, shouldKill>>

MasterModifier(key) ==
  /\ shift' = CASE key \in {"leftShift", "rightShift"} -> TRUE
                [] key \in {"leftShiftUp", "rightShiftUp"} -> FALSE
                [] OTHER -> shift
  /\ ctrl' = IF key = "ctrl" THEN TRUE ELSE IF key = "ctrlUp" THEN FALSE ELSE ctrl
  /\ capsLock' = IF key = "capsLock" THEN ~capsLock ELSE capsLock
  /\ UNCHANGED <<ringVars, shouldKill>>
MasterKey(key) ==
  /\ UNCHANGED masterVars
  /\ CASE ctrl /\ CharOf(key) = "c" -> CtrlCHandler /\ UNCHANGED ringVars
       [] ctrl /\ CharOf(key) = "d" -> KeyboardBufferPush(EOF) /\ UNCHANGED shouldKill
       [] OTHER -> KeyboardBufferPush(CharOf(key)) /\ UNCHANGED shouldKill

(* _interrupt_keyboardHandler for a modifier, and for any other key.       *)
Modifier(key) ==
  /\ left_shift' = IF key = "leftShift" THEN TRUE
                   ELSE IF key = "leftShiftUp" THEN FALSE ELSE left_shift
  /\ ctrl_pressed' = IF key = "ctrl" THEN TRUE
                     ELSE IF key = "ctrlUp" THEN FALSE ELSE ctrl_pressed
  /\ MasterModifier(key)
  /\ UNCHANGED <<hasInforeg, bufferTail, pending, taken>>
Key(key) ==
  /\ Len(taken) + Size < MaxKeys
  /\ CASE ctrl_pressed /\ key = "c" ->
            /\ pending < MaxPending /\ pending' = pending + 1
            /\ CtrlCHandler
            /\ UNCHANGED <<ringVars, masterVars, hasInforeg>>
       [] ctrl_pressed /\ key = "d" ->
            /\ KeyboardBufferPush(EOF)
            /\ UNCHANGED <<masterVars, hasInforeg, shouldKill, pending>>
       [] OTHER ->
            /\ hasInforeg' = (hasInforeg \/ (left_shift /\ key = "tab"))
            /\ MasterKey(key)
            /\ UNCHANGED pending
  /\ UNCHANGED <<left_shift, ctrl_pressed, bufferTail, taken>>

(* The tick that ctrl_c_handler forced is over: the handler goes on into   *)
(* keyboard_master with the same scancode still in rdi.  Or the process it *)
(* had interrupted has been killed, and it never goes on.                  *)
KeyboardContinue ==
  /\ pending > 0 /\ pending' = pending - 1
  /\ MasterKey("c") \/ UNCHANGED <<ringVars, masterVars, shouldKill>>
  /\ UNCHANGED <<asmVars, bufferTail, taken>>

(* schedule() finds the flag set and takes it down.                        *)
Schedule ==
  /\ shouldKill /\ shouldKill' = FALSE
  /\ UNCHANGED <<ringVars, bufferTail, masterVars, asmVars, pending, taken>>

(* sys_read on STDIN: len times keyboard_buffer_pop, which answers 0 when  *)
(* the buffer is empty, or fewer when one of them is EOF.                  *)
Popped(len) ==
  LET eofs == {i \in 1 .. Size : Contents[i] = EOF}
      wanted == IF len < Size THEN len ELSE Size
  IN IF \E i \in eofs : i <= wanted
     THEN CHOOSE i \in eofs : \A j \in eofs : i <= j
     ELSE wanted
Read(len) ==
  /\ Size > 0
  /\ bufferTail' = (bufferTail + Popped(len)) % KEYBOARD_BUFFER_SIZE
  /\ taken' = taken \o SubSeq(Contents, 1, Popped(len))
  /\ UNCHANGED <<ringVars, masterVars, asmVars, shouldKill, pending>>

SysRead == \E len \in Lens : Read(len)

Next ==
  \/ \E key \in Modifiers : Modifier(key)
  \/ \E key \in Keys : Key(key)
  \/ KeyboardContinue
  \/ Schedule
  \/ SysRead

Spec == Init /\ [][Next]_vars 

-----------------------------------------------------------------------------
(* The indices stay inside the ring.                                       *)
KeyboardTypeOK ==
  /\ keyboardBuffer \in [Cells -> Characters]
  /\ bufferHead \in Cells /\ bufferTail \in Cells
  /\ {shift, capsLock, ctrl, left_shift, ctrl_pressed, shouldKill} \subseteq BOOLEAN
  /\ pending \in Nat

(* What is typed is read in order, each character once, whatever mixture   *)
(* of overflow, end of file and short reads: a full buffer drops the new   *)
(* key and never touches one that waits.                                   *)
AsChannel ==
  INSTANCE Channel WITH
    Channels <- {"keyboard"}, Byte <- Characters,
    Capacity <- KEYBOARD_BUFFER_SIZE - 1,
    sent <- [k \in {"keyboard"} |-> taken \o Contents],
    taken <- [k \in {"keyboard"} |-> taken],
    closed <- [k \in {"keyboard"} |-> FALSE],
    ended <- [k \in {"keyboard"} |-> FALSE]
ImplementsChannel == AsChannel!Spec

(* The assembly and keyboard_master keep the state of Ctrl twice; the two  *)
(* agree although handlers are suspended between them and some never       *)
(* reach the second.                                                       *)
CtrlCopiesAgree == ctrl = ctrl_pressed

(* Every accepted key reaches a reader: readers catch up with the typing.  *)
KeysDelivered == []<>(Size = 0)
=============================================================================
