----------------------------- MODULE DeviceProofs ---------------------------
(***************************************************************************)
(* Proofs about the keyboard, the speaker, the clock, the screen, the      *)
(* timer and the start of the kernel, for every value of the bounds.  What *)
(* moves is chosen once and the others keep what they have, so each part   *)
(* is proved by itself.                                                    *)
(***************************************************************************)
EXTENDS KernelParts, TLAPS, SequenceTheorems, WellFoundedInduction

(* A set of naturals has a least element.                                  *)
LEMMA LeastNatural ==
  ASSUME NEW S, S \subseteq Nat, S # {}
  PROVE  \E x \in S : \A y \in S : x <= y
<1>. DEFINE R == OpToRel(<, Nat)
<1>1. R = {ss \in Nat \X Nat : ss[1] < ss[2]}
  BY DEF OpToRel
<1>2. IsWellFoundedOn(R, Nat)
  BY NatLessThanWellFounded
<1>. HIDE DEF R
<1>3. PICK x \in S : \A y \in S : ~(<<y, x>> \in R)
  BY <1>2, WFMin
<1>4. ASSUME NEW y \in S PROVE x <= y
  <2>1. x \in Nat /\ y \in Nat
    OBVIOUS
  <2>2. ~(y < x)
    BY <1>1, <1>3, <2>1
  <2>. QED  BY <2>1, <2>2
<1>. QED  BY <1>4

-----------------------------------------------------------------------------
(* The keyboard.                                                           *)

LEMMA KeyboardMoves ==
  ASSUME Next
  PROVE  (part = "keyboard" /\ TheKeyboard!Next) \/ UNCHANGED keyboardVars
BY DEF Next, Moves

(* Both copies of Ctrl change at the same keys, also while handlers wait   *)
(* between the two.                                                        *)
KeyboardInv == TheKeyboard!CtrlCopiesAgree /\ TheKeyboard!KeyboardTypeOK

LEMMA CharOfTyped ==
  ASSUME NEW key \in Keys \cup {"c"}, TheKeyboard!KeyboardTypeOK
  PROVE  TheKeyboard!CharOf(key) \in TheKeyboard!Characters
BY Zenon DEF TheKeyboard!CharOf, TheKeyboard!Characters

(* The indices run around the ring: at most once, in either direction.     *)
LEMMA Wrapped ==
  ASSUME NEW N \in Nat \ {0, 1}
  PROVE  /\ \A x \in 0 .. N - 1 : x % N = x
         /\ \A x \in N .. 2 * N - 1 : x % N = x - N
         /\ \A x \in -(N - 1) .. -1 : x % N = x + N
OBVIOUS

LEMMA RingSize ==
  ASSUME NEW N \in Nat \ {0, 1}, NEW h \in 0 .. N - 1, NEW t \in 0 .. N - 1
  PROVE  /\ (h - t) % N = IF h >= t THEN h - t ELSE h - t + N
         /\ (h - t) % N \in 0 .. N - 1
<1>1. CASE h >= t
  <2>1. h - t \in 0 .. N - 1
    BY <1>1
  <2>. QED  BY <1>1, <2>1, Wrapped
<1>2. CASE ~(h >= t)
  <2>1. h - t \in -(N - 1) .. -1
    BY <1>2
  <2>2. (h - t) % N = h - t + N
    BY <2>1, Wrapped
  <2>. QED  BY <1>2, <2>1, <2>2
<1>. QED  BY <1>1, <1>2

(* Where a character that waits lies: i from the tail.                     *)
LEMMA RingPlace ==
  ASSUME NEW N \in Nat \ {0, 1}, NEW t \in 0 .. N - 1, NEW i \in 0 .. N - 1
  PROVE  /\ (t + i) % N = IF t + i < N THEN t + i ELSE t + i - N
         /\ (t + i) % N \in 0 .. N - 1
<1>1. PICK x \in 0 .. 2 * N - 2 : x = t + i
  OBVIOUS
<1>2. CASE x < N
  <2>1. x \in 0 .. N - 1
    BY <1>2
  <2>. QED  BY <1>1, <1>2, <2>1, Wrapped
<1>3. CASE ~(x < N)
  <2>1. x \in N .. 2 * N - 1
    BY <1>3
  <2>2. x % N = x - N
    BY <2>1, Wrapped
  <2>. QED  BY <1>1, <1>3, <2>1, <2>2
<1>. QED  BY <1>2, <1>3

LEMMA KeyboardIndices ==
  ASSUME TheKeyboard!KeyboardTypeOK
  PROVE  /\ KEYBOARD_BUFFER_SIZE \in Nat \ {0, 1}
         /\ TheKeyboard!Cells = 0 .. KEYBOARD_BUFFER_SIZE - 1
         /\ bufferHead \in TheKeyboard!Cells /\ bufferTail \in TheKeyboard!Cells
         /\ TheKeyboard!Size \in 0 .. KEYBOARD_BUFFER_SIZE - 1
<1>1. /\ KEYBOARD_BUFFER_SIZE \in Nat \ {0, 1}
      /\ TheKeyboard!Cells = 0 .. KEYBOARD_BUFFER_SIZE - 1
      /\ bufferHead \in TheKeyboard!Cells /\ bufferTail \in TheKeyboard!Cells
  BY PartsAssumption DEF TheKeyboard!KeyboardAssumption, TheKeyboard!KeyboardTypeOK,
     TheKeyboard!Cells
<1>2. TheKeyboard!Size = (bufferHead - bufferTail) % KEYBOARD_BUFFER_SIZE
  BY DEF TheKeyboard!Size
<1>. QED  BY <1>1, <1>2, RingSize

(* sys_read takes no more than there is.                                   *)
LEMMA PoppedBound ==
  ASSUME NEW wish \in Lens, TheKeyboard!KeyboardTypeOK
  PROVE  TheKeyboard!Popped(wish) \in 0 .. TheKeyboard!Size
<1>. DEFINE size == TheKeyboard!Size
            eofs == {i \in 1 .. size : TheKeyboard!Contents[i] = TheKeyboard!EOF}
            wanted == IF wish < size THEN wish ELSE size
            least == CHOOSE i \in eofs : \A j \in eofs : i <= j
<1>1. size \in Nat /\ wish \in Nat
  BY KeyboardIndices, PartsAssumption DEF TheKeyboard!KeyboardAssumption
<1>2. TheKeyboard!Popped(wish) = IF \E i \in eofs : i <= wanted THEN least ELSE wanted
  BY DEF TheKeyboard!Popped
<1>3. ASSUME NEW i \in eofs
      PROVE  least \in 1 .. size
  <2>1. eofs \subseteq 1 .. size /\ eofs \subseteq Nat /\ eofs # {}
    BY <1>1, <1>3
  <2>. HIDE DEF eofs
  <2>2. \E n \in eofs : \A j \in eofs : n <= j
    BY <2>1, LeastNatural
  <2>. QED  BY <2>1, <2>2
<1>. HIDE DEF size, eofs, least
<1>4. CASE \E i \in eofs : i <= wanted
  BY <1>1, <1>2, <1>3, <1>4 DEF size
<1>5. CASE ~\E i \in eofs : i <= wanted
  BY <1>1, <1>2, <1>5 DEF size
<1>. QED  BY <1>4, <1>5

LEMMA HeadMoves ==
  ASSUME NEW h \in TheKeyboard!Cells
  PROVE  \A n \in Nat : (h + n) % KEYBOARD_BUFFER_SIZE \in TheKeyboard!Cells
BY PartsAssumption DEF TheKeyboard!Cells, TheKeyboard!KeyboardAssumption

LEMMA PushTyped ==
  ASSUME NEW char \in TheKeyboard!Characters, TheKeyboard!KeyboardTypeOK,
         TheKeyboard!KeyboardBufferPush(char)
  PROVE  keyboardBuffer' \in [TheKeyboard!Cells -> TheKeyboard!Characters]
         /\ bufferHead' \in TheKeyboard!Cells
<1>. (bufferHead + 1) % KEYBOARD_BUFFER_SIZE \in TheKeyboard!Cells
  BY HeadMoves DEF TheKeyboard!KeyboardTypeOK
<1>. QED
  BY DEF TheKeyboard!KeyboardBufferPush, TheKeyboard!KeyboardTypeOK, TheKeyboard!ringVars

(* keyboard_master with a key that is typed, now or late.                  *)
LEMMA MasterTyped ==
  ASSUME NEW key \in Keys \cup {"c"}, TheKeyboard!KeyboardTypeOK,
         TheKeyboard!MasterKey(key)
  PROVE  /\ keyboardBuffer' \in [TheKeyboard!Cells -> TheKeyboard!Characters]
         /\ bufferHead' \in TheKeyboard!Cells
         /\ shouldKill' \in BOOLEAN
         /\ UNCHANGED <<shift, capsLock, ctrl>>
<1>1. TheKeyboard!CharOf(key) \in TheKeyboard!Characters
      /\ TheKeyboard!EOF \in TheKeyboard!Characters
  BY CharOfTyped DEF TheKeyboard!Characters
<1>2. UNCHANGED <<shift, capsLock, ctrl>>
  BY DEF TheKeyboard!MasterKey, TheKeyboard!masterVars
<1>3. \/ shouldKill' = TRUE /\ UNCHANGED <<keyboardBuffer, bufferHead>>
      \/ \E char \in TheKeyboard!Characters :
           TheKeyboard!KeyboardBufferPush(char) /\ UNCHANGED shouldKill
  BY <1>1, Zenon DEF TheKeyboard!MasterKey, TheKeyboard!CtrlCHandler, TheKeyboard!ringVars
<1>4. CASE shouldKill' = TRUE /\ UNCHANGED <<keyboardBuffer, bufferHead>>
  BY <1>2, <1>4 DEF TheKeyboard!KeyboardTypeOK
<1>5. CASE \E char \in TheKeyboard!Characters :
             TheKeyboard!KeyboardBufferPush(char) /\ UNCHANGED shouldKill
  BY <1>2, <1>5, PushTyped DEF TheKeyboard!KeyboardTypeOK
<1>. QED  BY <1>3, <1>4, <1>5

LEMMA KeyboardStep ==
  ASSUME KeyboardInv, TheKeyboard!Next
  PROVE  KeyboardInv'
<1>. USE DEF KeyboardInv, TheKeyboard!CtrlCopiesAgree
<1>1. ASSUME NEW key \in TheKeyboard!Modifiers, TheKeyboard!Modifier(key)
      PROVE  KeyboardInv'
  <2>1. UNCHANGED <<keyboardBuffer, bufferHead, bufferTail, pending, shouldKill>>
        /\ ctrl' = ctrl_pressed'
    BY <1>1 DEF TheKeyboard!Modifier, TheKeyboard!MasterModifier, TheKeyboard!ringVars
  <2>2. /\ shift' \in BOOLEAN /\ capsLock' \in BOOLEAN /\ ctrl' \in BOOLEAN
        /\ left_shift' \in BOOLEAN /\ ctrl_pressed' \in BOOLEAN
    BY <1>1 DEF TheKeyboard!Modifier, TheKeyboard!MasterModifier, TheKeyboard!KeyboardTypeOK
  <2>. QED
    BY <2>1, <2>2 DEF TheKeyboard!KeyboardTypeOK
<1>2. ASSUME NEW key \in Keys, TheKeyboard!Key(key)
      PROVE  KeyboardInv'
  <2>0. UNCHANGED <<left_shift, ctrl_pressed, bufferTail>>
        /\ TheKeyboard!EOF \in TheKeyboard!Characters
    BY <1>2 DEF TheKeyboard!Key, TheKeyboard!Characters
  <2>1. CASE ctrl_pressed /\ key = "c"
    BY <1>2, <2>0, <2>1
       DEF TheKeyboard!Key, TheKeyboard!CtrlCHandler, TheKeyboard!ringVars,
           TheKeyboard!masterVars, TheKeyboard!KeyboardTypeOK
  <2>2. CASE ctrl_pressed /\ key = "d"
    <3>1. TheKeyboard!KeyboardBufferPush(TheKeyboard!EOF)
          /\ UNCHANGED <<shift, capsLock, ctrl, shouldKill, pending>>
      BY <1>2, <2>2 DEF TheKeyboard!Key, TheKeyboard!masterVars
    <3>. QED
      BY <2>0, <3>1, PushTyped DEF TheKeyboard!KeyboardTypeOK
  <2>3. CASE ~(ctrl_pressed /\ key = "c") /\ ~(ctrl_pressed /\ key = "d")
    <3>1. TheKeyboard!MasterKey(key) /\ UNCHANGED pending
      BY <1>2, <2>3 DEF TheKeyboard!Key
    <3>. QED
      BY <2>0, <3>1, MasterTyped DEF TheKeyboard!KeyboardTypeOK
  <2>. QED  BY <2>1, <2>2, <2>3
<1>3. CASE TheKeyboard!KeyboardContinue
  <2>1. UNCHANGED <<left_shift, ctrl_pressed, bufferTail>> /\ pending' \in Nat
    BY <1>3 DEF TheKeyboard!KeyboardContinue, TheKeyboard!asmVars, TheKeyboard!KeyboardTypeOK
  <2>2. CASE TheKeyboard!MasterKey("c")
    BY <2>1, <2>2, MasterTyped DEF TheKeyboard!KeyboardTypeOK
  <2>3. CASE UNCHANGED <<keyboardBuffer, bufferHead, shift, capsLock, ctrl, shouldKill>>
    BY <2>1, <2>3 DEF TheKeyboard!KeyboardTypeOK
  <2>. QED
    BY <1>3, <2>2, <2>3
       DEF TheKeyboard!KeyboardContinue, TheKeyboard!ringVars, TheKeyboard!masterVars
<1>4. CASE TheKeyboard!Schedule
  BY <1>4 DEF TheKeyboard!Schedule, TheKeyboard!ringVars, TheKeyboard!masterVars,
     TheKeyboard!asmVars, TheKeyboard!KeyboardTypeOK
<1>5. ASSUME NEW size \in Lens, TheKeyboard!Read(size)
      PROVE  KeyboardInv'
  <2>0. TheKeyboard!Popped(size) \in Nat
    BY PoppedBound, KeyboardIndices
  <2>1. bufferTail' \in TheKeyboard!Cells
    BY <1>5, <2>0, HeadMoves DEF TheKeyboard!Read, TheKeyboard!KeyboardTypeOK
  <2>. QED
    BY <1>5, <2>1 DEF TheKeyboard!Read, TheKeyboard!ringVars, TheKeyboard!masterVars,
       TheKeyboard!asmVars, TheKeyboard!KeyboardTypeOK
<1>. QED
  BY <1>1, <1>2, <1>3, <1>4, <1>5 DEF TheKeyboard!Next, TheKeyboard!SysRead

LEMMA KeyboardStays ==
  ASSUME UNCHANGED keyboardVars
  PROVE  KeyboardInv <=> KeyboardInv'
BY DEF keyboardVars, KeyboardInv, TheKeyboard!CtrlCopiesAgree,
   TheKeyboard!KeyboardTypeOK, TheKeyboard!Characters, TheKeyboard!Cells

LEMMA KeyboardInit == Init => KeyboardInv
<1>1. Init => TheKeyboard!Init
  BY DEF Init
<1>2. 0 \in TheKeyboard!Cells /\ TheKeyboard!NUL \in TheKeyboard!Characters
  BY PartsAssumption DEF TheKeyboard!KeyboardAssumption, TheKeyboard!Cells,
     TheKeyboard!Characters
<1>3. TheKeyboard!Init => KeyboardInv
  BY <1>2 DEF KeyboardInv, TheKeyboard!Init, TheKeyboard!CtrlCopiesAgree,
     TheKeyboard!KeyboardTypeOK
<1>. QED  BY <1>1, <1>3

LEMMA KeyboardAlways == Spec => []KeyboardInv
<1>1. Init => KeyboardInv
  BY KeyboardInit
<1>2. KeyboardInv /\ [Next]_vars => KeyboardInv'
  <2>1. UNCHANGED vars => UNCHANGED keyboardVars
    BY DEF vars
  <2>. QED  BY <2>1, KeyboardMoves, KeyboardStep, KeyboardStays
<1>. HIDE DEF KeyboardInv, Init, Next, vars, Fairness
<1>. QED  BY <1>1, <1>2, PTL DEF Spec

(* The assembly and keyboard_master agree on whether Ctrl is down, and the *)
(* indices of the ring stay in it, however many handlers are suspended by  *)
(* their Ctrl+C and whatever is typed meanwhile.                           *)
THEOREM CtrlCopiesAgreeHolds == Spec => []CtrlCopiesAgree
<1>1. KeyboardInv => CtrlCopiesAgree
  BY DEF KeyboardInv, CtrlCopiesAgree
<1>. HIDE DEF KeyboardInv, CtrlCopiesAgree, Spec
<1>. QED  BY <1>1, KeyboardAlways, PTL

(* What waits in the ring.                                                 *)
LEMMA ContentsLemma ==
  ASSUME TheKeyboard!KeyboardTypeOK
  PROVE  /\ TheKeyboard!Contents \in Seq(TheKeyboard!Characters)
         /\ Len(TheKeyboard!Contents) = TheKeyboard!Size
<1>1. ASSUME NEW i \in 1 .. TheKeyboard!Size
      PROVE  (bufferTail + i - 1) % KEYBOARD_BUFFER_SIZE \in TheKeyboard!Cells
  <2>1. i - 1 \in 0 .. KEYBOARD_BUFFER_SIZE - 1 /\ (bufferTail + i) - 1 = bufferTail + (i - 1)
    BY KeyboardIndices
  <2>. QED  BY <2>1, KeyboardIndices, RingPlace
<1>2. keyboardBuffer \in [TheKeyboard!Cells -> TheKeyboard!Characters]
      /\ TheKeyboard!Size \in Nat
  BY KeyboardIndices DEF TheKeyboard!KeyboardTypeOK
<1>. QED  BY <1>1, <1>2 DEF TheKeyboard!Contents

(* A key goes behind what waits, or nowhere.                               *)
LEMMA PushAppends ==
  ASSUME NEW char \in TheKeyboard!Characters, TheKeyboard!KeyboardTypeOK,
         TheKeyboard!KeyboardBufferPush(char), UNCHANGED bufferTail
  PROVE  \/ TheKeyboard!Contents' = TheKeyboard!Contents
         \/ /\ TheKeyboard!Contents' = Append(TheKeyboard!Contents, char)
            /\ TheKeyboard!Size' = TheKeyboard!Size + 1
            /\ TheKeyboard!Size' \in 0 .. KEYBOARD_BUFFER_SIZE - 1
<1>. DEFINE N == KEYBOARD_BUFFER_SIZE
            h == bufferHead
            t == bufferTail
            h1 == (h + 1) % N
            size == TheKeyboard!Size
            c == TheKeyboard!Contents
<1>1. /\ N \in Nat \ {0, 1} /\ h \in 0 .. N - 1 /\ t \in 0 .. N - 1
      /\ size = IF h >= t THEN h - t ELSE h - t + N
      /\ size \in 0 .. N - 1
      /\ keyboardBuffer \in [0 .. N - 1 -> TheKeyboard!Characters]
  BY KeyboardIndices, RingSize DEF TheKeyboard!Size, TheKeyboard!KeyboardTypeOK
<1>2. CASE h1 = t
  BY <1>2 DEF TheKeyboard!KeyboardBufferPush, TheKeyboard!ringVars,
     TheKeyboard!Contents, TheKeyboard!Size
<1>3. CASE h1 # t
  <2>1. /\ keyboardBuffer' = [keyboardBuffer EXCEPT ![h] = char]
        /\ bufferHead' = h1
    BY <1>3 DEF TheKeyboard!KeyboardBufferPush
  <2>2. h1 \in 0 .. N - 1 /\ h1 = IF h + 1 < N THEN h + 1 ELSE h + 1 - N
    <3>1. 1 \in 0 .. N - 1
      BY <1>1
    <3>. QED  BY <1>1, <3>1, RingPlace
  <2>3. TheKeyboard!Size' = IF h1 >= t THEN h1 - t ELSE h1 - t + N
    <3>1. TheKeyboard!Size' = (h1 - t) % N
      BY <2>1 DEF TheKeyboard!Size
    <3>. HIDE DEF N, h, t, h1
    <3>. QED  BY <1>1, <2>2, <3>1, RingSize
  <2>. DEFINE at(i) == (t + i - 1) % N
  <2>4. \A i \in 1 .. N : /\ at(i) \in 0 .. N - 1
                          /\ at(i) = IF t + i <= N THEN t + i - 1 ELSE (t + i) - 1 - N
    <3>. SUFFICES ASSUME NEW i \in 1 .. N
                  PROVE  /\ at(i) \in 0 .. N - 1
                         /\ at(i) = IF t + i <= N THEN t + i - 1 ELSE (t + i) - 1 - N
      OBVIOUS
    <3>1. i - 1 \in 0 .. N - 1 /\ t + i - 1 = t + (i - 1)
      BY <1>1
    <3>. HIDE DEF N, t
    <3>2. at(i) = (t + (i - 1)) % N
      BY <3>1
    <3>. HIDE DEF at
    <3>3. at(i) \in 0 .. N - 1
          /\ at(i) = IF t + (i - 1) < N THEN t + (i - 1) ELSE t + (i - 1) - N
      BY <1>1, <3>1, <3>2, RingPlace
    <3>. QED  BY <1>1, <3>3
  <2>5. c \in Seq(TheKeyboard!Characters) /\ Len(c) = size
    BY ContentsLemma
  <2>6. \A i \in 1 .. size : c[i] = keyboardBuffer[at(i)]
    BY DEF TheKeyboard!Contents
  <2>7. TheKeyboard!Contents' = [i \in 1 .. TheKeyboard!Size' |-> keyboardBuffer'[at(i)]]
    BY DEF TheKeyboard!Contents
  <2>. DEFINE size1 == TheKeyboard!Size'
              b1 == keyboardBuffer'
              c1 == TheKeyboard!Contents'
  <2>. HIDE DEF N, h, t, h1, size, c, at, size1, c1, b1
  <2>8. size1 = size + 1 /\ size1 \in 0 .. N - 1
    BY <1>1, <1>3, <2>2, <2>3 DEF size1
  <2>9. at(size + 1) = h /\ \A i \in 1 .. size : at(i) # h
    BY <1>1, <1>3, <2>2, <2>4, <2>8
  <2>10. b1[h] = char /\ \A i \in 1 .. size : b1[at(i)] = keyboardBuffer[at(i)]
    BY <1>1, <2>1, <2>4, <2>8, <2>9 DEF b1
  <2>11. c1 = [i \in 1 .. size + 1 |-> b1[at(i)]]
    BY <2>7, <2>8 DEF size1, c1, b1
  <2>12. c1 = Append(c, char)
    <3>1. /\ Append(c, char) \in Seq(TheKeyboard!Characters)
          /\ Len(Append(c, char)) = size + 1
          /\ \A i \in 1 .. size : Append(c, char)[i] = c[i]
          /\ Append(c, char)[size + 1] = char
      BY <2>5, <1>1, AppendProperties
    <3>2. \A i \in 1 .. size + 1 : b1[at(i)] = Append(c, char)[i]
      BY <1>1, <2>6, <2>9, <2>10, <3>1
    <3>3. size + 1 \in Nat
          /\ \A i \in 1 .. size + 1 : b1[at(i)] \in TheKeyboard!Characters
      BY <1>1, <3>1, <3>2
    <3>4. c1 \in Seq(TheKeyboard!Characters) /\ Len(c1) = size + 1
      BY <2>11, <3>3
    <3>5. \A i \in 1 .. size + 1 : c1[i] = Append(c, char)[i]
      BY <2>11, <3>2
    <3>. HIDE DEF c1
    <3>. QED  BY <3>1, <3>4, <3>5, SeqEqual
  <2>. QED  BY <2>8, <2>12 DEF c1, c, size1, size, N
<1>. QED  BY <1>2, <1>3

(* The ring as a channel.                                                  *)
BeginsWith(s, front) ==
  Len(front) <= Len(s) /\ SubSeq(front, 1, Len(front)) = SubSeq(s, 1, Len(front))
Typed == taken \o TheKeyboard!Contents

LEMMA FrontLemma ==
  ASSUME NEW S, NEW a \in Seq(S), NEW b \in Seq(S)
  PROVE  BeginsWith(a \o b, a) /\ a \o b \in Seq(S) /\ Len(a \o b) = Len(a) + Len(b)
<1>1. /\ a \o b \in Seq(S) /\ Len(a \o b) = Len(a) + Len(b)
      /\ \A i \in 1 .. Len(a) + Len(b) : (a \o b)[i] = IF i <= Len(a) THEN a[i] ELSE b[i - Len(a)]
  BY ConcatProperties
<1>2. Len(a) \in Nat /\ Len(b) \in Nat
  OBVIOUS
<1>. DEFINE ab == a \o b
<1>. HIDE DEF ab
<1>3. ab \in Seq(S) /\ \A i \in 1 .. Len(a) : ab[i] = a[i] /\ a[i] \in S
  BY <1>1, <1>2 DEF ab
<1>4. /\ SubSeq(a, 1, Len(a)) \in Seq(S) /\ Len(SubSeq(a, 1, Len(a))) = Len(a)
      /\ \A i \in 1 .. Len(a) : SubSeq(a, 1, Len(a))[i] = a[i]
  BY <1>2, <1>3
<1>5. /\ SubSeq(ab, 1, Len(a)) \in Seq(S) /\ Len(SubSeq(ab, 1, Len(a))) = Len(a)
      /\ \A i \in 1 .. Len(a) : SubSeq(ab, 1, Len(a))[i] = ab[i]
  BY <1>2, <1>3
<1>6. SubSeq(a, 1, Len(a)) = SubSeq(ab, 1, Len(a))
  BY <1>3, <1>4, <1>5, SeqEqual
<1>. QED  BY <1>1, <1>2, <1>6 DEF BeginsWith, ab

LEMMA TypedKept ==
  ASSUME UNCHANGED taken, Typed' = Typed
  PROVE  TheKeyboard!AsChannel!Next
BY DEF Typed, TheKeyboard!AsChannel!Next, TheKeyboard!AsChannel!Stay

LEMMA TypedGrows ==
  ASSUME UNCHANGED taken, BeginsWith(Typed', Typed),
         Len(Typed') - Len(taken) <= KEYBOARD_BUFFER_SIZE - 1
  PROVE  TheKeyboard!AsChannel!Next
BY DEF Typed, BeginsWith, TheKeyboard!AsChannel!Next, TheKeyboard!AsChannel!Send,
   TheKeyboard!AsChannel!IsPrefix

LEMMA TypedHanded ==
  ASSUME Typed' = Typed, BeginsWith(taken', taken), BeginsWith(Typed, taken')
  PROVE  TheKeyboard!AsChannel!Next
BY DEF Typed, BeginsWith, TheKeyboard!AsChannel!Next, TheKeyboard!AsChannel!Receive,
   TheKeyboard!AsChannel!IsPrefix

(* A read takes the front of what waits and leaves the rest.               *)
LEMMA ReadSplits ==
  ASSUME NEW wish \in Lens, TheKeyboard!KeyboardTypeOK, TheKeyboard!Read(wish)
  PROVE  \E got \in Seq(TheKeyboard!Characters) :
           /\ taken' = taken \o got
           /\ TheKeyboard!Contents' \in Seq(TheKeyboard!Characters)
           /\ TheKeyboard!Contents = got \o TheKeyboard!Contents'
<1>. DEFINE N == KEYBOARD_BUFFER_SIZE
            h == bufferHead
            t == bufferTail
            k == TheKeyboard!Popped(wish)
            t1 == (t + k) % N
            size == TheKeyboard!Size
            size1 == TheKeyboard!Size'
            c == TheKeyboard!Contents
            c1 == TheKeyboard!Contents'
            got == SubSeq(c, 1, k)
            S == TheKeyboard!Characters
            at(i) == (t + i - 1) % N
            at1(i) == (t1 + i - 1) % N
<1>1. /\ N \in Nat \ {0, 1} /\ h \in 0 .. N - 1 /\ t \in 0 .. N - 1
      /\ size = IF h >= t THEN h - t ELSE h - t + N
      /\ size \in 0 .. N - 1 /\ k \in 0 .. size
      /\ keyboardBuffer \in [0 .. N - 1 -> S]
  BY KeyboardIndices, RingSize, PoppedBound
     DEF TheKeyboard!Size, TheKeyboard!KeyboardTypeOK
<1>2. c \in Seq(S) /\ Len(c) = size /\ \A i \in 1 .. size : c[i] = keyboardBuffer[at(i)]
  BY ContentsLemma DEF TheKeyboard!Contents
<1>3. /\ bufferTail' = t1 /\ taken' = taken \o got
      /\ UNCHANGED <<keyboardBuffer, bufferHead>>
  BY DEF TheKeyboard!Read, TheKeyboard!ringVars
<1>4. c1 = [i \in 1 .. size1 |-> keyboardBuffer[at1(i)]] /\ size1 = (h - t1) % N
  BY <1>3 DEF TheKeyboard!Contents, TheKeyboard!Size
<1>. HIDE DEF N, h, t, k, t1, size, size1, c, c1, S
<1>5. k \in 0 .. N - 1 /\ t1 \in 0 .. N - 1 /\ t1 = IF t + k < N THEN t + k ELSE t + k - N
  <2>1. k \in 0 .. N - 1
    BY <1>1
  <2>. QED  BY <1>1, <2>1, RingPlace DEF t1
<1>6. size1 = IF h >= t1 THEN h - t1 ELSE h - t1 + N
  BY <1>1, <1>4, <1>5, RingSize
<1>7. size1 = size - k
  BY <1>1, <1>5, <1>6
<1>8. ASSUME NEW u \in 0 .. N - 1
      PROVE  \A i \in 1 .. N : /\ (u + i - 1) % N \in 0 .. N - 1
                               /\ (u + i - 1) % N =
                                    IF u + i <= N THEN u + i - 1 ELSE (u + i) - 1 - N
  <2>. SUFFICES ASSUME NEW i \in 1 .. N
                PROVE  /\ (u + i - 1) % N \in 0 .. N - 1
                       /\ (u + i - 1) % N = IF u + i <= N THEN u + i - 1 ELSE (u + i) - 1 - N
    OBVIOUS
  <2>. DEFINE place == (u + i - 1) % N
  <2>1. PICK j \in 0 .. N - 1 : j = i - 1
    BY <1>1
  <2>2. place = (u + j) % N
    BY <2>1
  <2>. HIDE DEF place
  <2>3. place \in 0 .. N - 1 /\ place = IF u + j < N THEN u + j ELSE u + j - N
    BY <1>1, <2>2, RingPlace
  <2>4. place \in 0 .. N - 1 /\ place = IF u + i <= N THEN u + i - 1 ELSE (u + i) - 1 - N
    BY <1>1, <2>1, <2>3
  <2>. QED  BY <2>4 DEF place
<1>9. \A i \in 1 .. N : at(i) \in 0 .. N - 1 /\ at(i) = IF t + i <= N THEN t + i - 1 ELSE (t + i) - 1 - N
  BY <1>1, <1>8
<1>10. \A i \in 1 .. N : at1(i) \in 0 .. N - 1 /\ at1(i) = IF t1 + i <= N THEN t1 + i - 1 ELSE (t1 + i) - 1 - N
  BY <1>5, <1>8
<1>. HIDE DEF at, at1
<1>11. \A i \in 1 .. size1 : at1(i) = at(k + i)
  BY <1>1, <1>5, <1>7, <1>9, <1>10
<1>12. size1 \in Nat /\ \A i \in 1 .. size1 : keyboardBuffer[at1(i)] \in S
  BY <1>1, <1>7, <1>10
<1>13. c1 \in Seq(S) /\ Len(c1) = size1 /\ \A i \in 1 .. size1 : c1[i] = c[k + i]
  <2>1. c1 \in Seq(S) /\ Len(c1) = size1
    BY <1>4, <1>12
  <2>2. \A i \in 1 .. size1 : c1[i] = keyboardBuffer[at(k + i)] /\ k + i \in 1 .. size
    BY <1>1, <1>4, <1>7, <1>11
  <2>. QED  BY <1>2, <2>1, <2>2
<1>. HIDE DEF got
<1>14. got \in Seq(S) /\ Len(got) = k /\ \A i \in 1 .. k : got[i] = c[i]
  <2>1. k \in Int /\ 1 \in Int /\ \A i \in 1 .. k : c[i] \in S
    BY <1>1, <1>2
  <2>. QED  BY <1>1, <2>1, SubSeqProperties DEF got
<1>15. c = got \o c1
  <2>1. /\ got \o c1 \in Seq(S) /\ Len(got \o c1) = k + size1
        /\ \A i \in 1 .. k + size1 : (got \o c1)[i] = IF i <= k THEN got[i] ELSE c1[i - k]
    BY <1>13, <1>14, ConcatProperties
  <2>2. Len(got \o c1) = Len(c)
    BY <1>1, <1>2, <1>7, <2>1
  <2>3. ASSUME NEW i \in 1 .. Len(c) PROVE c[i] = (got \o c1)[i]
    <3>1. i \in 1 .. size /\ i \in 1 .. k + size1
      BY <1>1, <1>2, <1>7
    <3>2. (got \o c1)[i] = IF i <= k THEN got[i] ELSE c1[i - k]
      BY <2>1, <3>1
    <3>3. CASE i <= k
      BY <1>1, <1>14, <3>1, <3>2, <3>3
    <3>4. CASE ~(i <= k)
      <4>1. i - k \in 1 .. size1 /\ k + (i - k) = i
        BY <1>1, <1>7, <3>1, <3>4
      <4>2. c1[i - k] = c[k + (i - k)]
        BY <1>13, <4>1
      <4>. QED  BY <3>2, <3>4, <4>1, <4>2
    <3>. QED  BY <3>3, <3>4
  <2>. QED  BY <1>2, <2>1, <2>2, <2>3, SeqEqual
<1>. QED  BY <1>3, <1>13, <1>14, <1>15 DEF c, c1, S

ChannelInv == KeyboardInv /\ taken \in Seq(TheKeyboard!Characters)

LEMMA PushOnChannel ==
  ASSUME NEW char \in TheKeyboard!Characters, ChannelInv,
         TheKeyboard!KeyboardBufferPush(char), UNCHANGED <<bufferTail, taken>>
  PROVE  TheKeyboard!AsChannel!Next
<1>. DEFINE c == TheKeyboard!Contents
            S == TheKeyboard!Characters
            one == <<char>>
<1>1. c \in Seq(S) /\ taken \in Seq(S) /\ TheKeyboard!KeyboardTypeOK
      /\ Typed = taken \o c /\ Typed' = taken \o c' /\ Len(c) = TheKeyboard!Size
  BY ContentsLemma DEF ChannelInv, KeyboardInv, Typed
<1>2. CASE c' = c
  BY <1>1, <1>2, TypedKept
<1>3. CASE /\ c' = Append(c, char) /\ TheKeyboard!Size' = TheKeyboard!Size + 1
           /\ TheKeyboard!Size' \in 0 .. KEYBOARD_BUFFER_SIZE - 1
  <2>1. TheKeyboard!Size \in 0 .. KEYBOARD_BUFFER_SIZE - 1
        /\ KEYBOARD_BUFFER_SIZE \in Nat
    BY <1>1, KeyboardIndices
  <2>. DEFINE before == Typed
              after == Typed'
  <2>2. Append(c, char) = c \o one /\ one \in Seq(S)
    BY <1>1
  <2>3. after = taken \o (c \o one)
    BY <1>1, <1>3, <2>2
  <2>4. (taken \o c) \o one = taken \o (c \o one)
    <3>1. taken \in Seq(S) /\ c \in Seq(S) /\ one \in Seq(S)
      BY <1>1, <2>2
    <3>. HIDE DEF c, S, one
    <3>. QED  BY <3>1, ConcatAssociative
  <2>5. after = before \o one
    <3>1. before = taken \o c
      BY <1>1, Zenon
    <3>. QED  BY <2>3, <2>4, <3>1, Zenon
  <2>6. before \in Seq(S) /\ Len(before) = Len(taken) + Len(c)
    BY <1>1, FrontLemma
  <2>. HIDE DEF before
  <2>7. BeginsWith(before \o one, before) /\ Len(before \o one) = Len(before) + Len(one)
    <3>. HIDE DEF S, one
    <3>. QED  BY <2>2, <2>6, FrontLemma
  <2>8. Len(before \o one) - Len(taken) <= KEYBOARD_BUFFER_SIZE - 1
    <3>1. Len(one) = 1 /\ Len(taken) \in Nat /\ Len(c) \in Nat
      BY <1>1
    <3>. HIDE DEF one, c
    <3>. QED  BY <1>1, <1>3, <2>1, <2>6, <2>7, <3>1 DEF c
  <2>9. BeginsWith(Typed', Typed) /\ Len(Typed') - Len(taken) <= KEYBOARD_BUFFER_SIZE - 1
    BY <2>5, <2>7, <2>8 DEF before
  <2>. QED  BY <2>9, TypedGrows
<1>. QED  BY <1>1, <1>2, <1>3, PushAppends

LEMMA MasterOnChannel ==
  ASSUME NEW key \in Keys \cup {"c"}, ChannelInv, TheKeyboard!MasterKey(key),
         UNCHANGED <<bufferTail, taken>>
  PROVE  TheKeyboard!AsChannel!Next
<1>1. TheKeyboard!CharOf(key) \in TheKeyboard!Characters
      /\ TheKeyboard!EOF \in TheKeyboard!Characters
  BY CharOfTyped DEF TheKeyboard!Characters, ChannelInv, KeyboardInv
<1>2. \/ UNCHANGED <<keyboardBuffer, bufferHead>>
      \/ \E char \in TheKeyboard!Characters : TheKeyboard!KeyboardBufferPush(char)
  BY <1>1, Zenon DEF TheKeyboard!MasterKey, TheKeyboard!ringVars
<1>3. CASE UNCHANGED <<keyboardBuffer, bufferHead>>
  <2>1. Typed' = Typed
    BY <1>3 DEF Typed, TheKeyboard!Contents, TheKeyboard!Size
  <2>. QED  BY <2>1, TypedKept
<1>. QED  BY <1>2, <1>3, PushOnChannel

LEMMA KeyboardOnChannel ==
  ASSUME ChannelInv, TheKeyboard!Next
  PROVE  ChannelInv' /\ TheKeyboard!AsChannel!Next
<1>1. KeyboardInv'
  BY KeyboardStep DEF ChannelInv
<1>2. ASSUME UNCHANGED taken
      PROVE  ChannelInv'
  BY <1>1, <1>2 DEF ChannelInv, TheKeyboard!Characters
<1>3. ASSUME UNCHANGED <<keyboardBuffer, bufferHead, bufferTail, taken>>
      PROVE  ChannelInv' /\ TheKeyboard!AsChannel!Next
  <2>1. Typed' = Typed
    BY <1>3 DEF Typed, TheKeyboard!Contents, TheKeyboard!Size
  <2>. QED  BY <1>2, <1>3, <2>1, TypedKept
<1>4. ASSUME NEW key \in TheKeyboard!Modifiers, TheKeyboard!Modifier(key)
      PROVE  ChannelInv' /\ TheKeyboard!AsChannel!Next
  BY <1>3, <1>4 DEF TheKeyboard!Modifier, TheKeyboard!MasterModifier, TheKeyboard!ringVars
<1>5. ASSUME NEW key \in Keys, TheKeyboard!Key(key)
      PROVE  ChannelInv' /\ TheKeyboard!AsChannel!Next
  <2>1. UNCHANGED <<bufferTail, taken>> /\ TheKeyboard!EOF \in TheKeyboard!Characters
    BY <1>5 DEF TheKeyboard!Key, TheKeyboard!Characters
  <2>2. \/ UNCHANGED <<keyboardBuffer, bufferHead>>
        \/ TheKeyboard!KeyboardBufferPush(TheKeyboard!EOF)
        \/ TheKeyboard!MasterKey(key)
    BY <1>5, Zenon DEF TheKeyboard!Key, TheKeyboard!ringVars
  <2>. QED  BY <1>2, <1>3, <2>1, <2>2, PushOnChannel, MasterOnChannel
<1>6. CASE TheKeyboard!KeyboardContinue
  <2>1. UNCHANGED <<bufferTail, taken>>
        /\ (TheKeyboard!MasterKey("c") \/ UNCHANGED <<keyboardBuffer, bufferHead>>)
    BY <1>6 DEF TheKeyboard!KeyboardContinue, TheKeyboard!ringVars
  <2>. QED  BY <1>2, <1>3, <2>1, MasterOnChannel
<1>7. CASE TheKeyboard!Schedule
  BY <1>3, <1>7 DEF TheKeyboard!Schedule, TheKeyboard!ringVars
<1>8. ASSUME NEW wish \in Lens, TheKeyboard!Read(wish)
      PROVE  ChannelInv' /\ TheKeyboard!AsChannel!Next
  <2>. DEFINE S == TheKeyboard!Characters
              c1 == TheKeyboard!Contents'
              taken1 == taken'
  <2>1. PICK got \in Seq(S) :
          /\ taken1 = taken \o got /\ c1 \in Seq(S) /\ TheKeyboard!Contents = got \o c1
    BY <1>8, ReadSplits DEF ChannelInv, KeyboardInv
  <2>2. taken \in Seq(S) /\ Typed' = taken1 \o c1 /\ Typed = taken \o (got \o c1)
    BY <2>1 DEF ChannelInv, Typed
  <2>. HIDE DEF c1, taken1, S
  <2>3. taken1 \in Seq(S) /\ BeginsWith(taken1, taken)
    BY <2>1, <2>2, FrontLemma
  <2>4. BeginsWith(taken1 \o c1, taken1)
    BY <2>1, <2>3, FrontLemma
  <2>5. taken1 \o c1 = taken \o (got \o c1)
    BY <2>1, <2>2, ConcatAssociative
  <2>6. Typed' = Typed /\ BeginsWith(taken', taken) /\ BeginsWith(Typed, taken')
    BY <2>2, <2>3, <2>4, <2>5 DEF taken1
  <2>7. TheKeyboard!AsChannel!Next
    BY <2>6, TypedHanded
  <2>8. S' = S
    BY DEF S, TheKeyboard!Characters
  <2>. QED  BY <1>1, <2>3, <2>7, <2>8 DEF ChannelInv, taken1, S
<1>. QED
  BY <1>4, <1>5, <1>6, <1>7, <1>8 DEF TheKeyboard!Next, TheKeyboard!SysRead

LEMMA ChannelStays ==
  ASSUME ChannelInv, UNCHANGED keyboardVars
  PROVE  ChannelInv' /\ UNCHANGED TheKeyboard!AsChannel!channelVars
BY KeyboardStays DEF ChannelInv, keyboardVars, TheKeyboard!Characters,
   TheKeyboard!AsChannel!channelVars, TheKeyboard!Contents, TheKeyboard!Size

LEMMA ChannelInit == Init => ChannelInv /\ TheKeyboard!AsChannel!Init
<1>1. Init => TheKeyboard!Init /\ KeyboardInv
  BY KeyboardInit DEF Init
<1>2. ASSUME TheKeyboard!Init, KeyboardInv
      PROVE  ChannelInv /\ TheKeyboard!AsChannel!Init
  <2>1. taken = <<>> /\ TheKeyboard!Size = 0
    <3>1. bufferHead - bufferTail = 0 /\ 0 % KEYBOARD_BUFFER_SIZE = 0
      BY <1>2, KeyboardIndices DEF TheKeyboard!Init, KeyboardInv
    <3>. QED  BY <1>2, <3>1 DEF TheKeyboard!Init, TheKeyboard!Size
  <2>2. TheKeyboard!Contents \in Seq(TheKeyboard!Characters)
        /\ Len(TheKeyboard!Contents) = 0
    BY <1>2, <2>1, ContentsLemma DEF KeyboardInv
  <2>3. TheKeyboard!Contents = <<>>
    <3>. HIDE DEF TheKeyboard!Contents, TheKeyboard!Characters
    <3>. QED  BY <2>2, EmptySeq
  <2>4. taken \o TheKeyboard!Contents = <<>>
    BY <2>1, <2>3
  <2>. QED
    BY <1>2, <2>1, <2>4 DEF ChannelInv, TheKeyboard!AsChannel!Init
<1>. QED  BY <1>1, <1>2

(* What is typed is read in order, each character once, whatever mixture   *)
(* of overflow, end of file and short reads, and with handlers suspended   *)
(* between the two ways a key is looked at: keyboard_buffer_push drops the *)
(* new key when the ring is full and touches none that waits.              *)
THEOREM KeyboardIsChannel == Spec => ImplementsChannel
<1>1. Init => ChannelInv /\ TheKeyboard!AsChannel!Init
  BY ChannelInit
<1>2. ChannelInv /\ [Next]_vars =>
        /\ ChannelInv'
        /\ TheKeyboard!AsChannel!Next \/ UNCHANGED TheKeyboard!AsChannel!channelVars
  <2>1. UNCHANGED vars => UNCHANGED keyboardVars
    BY DEF vars
  <2>. QED  BY <2>1, KeyboardMoves, KeyboardOnChannel, ChannelStays
<1>3. ChannelInv /\ [Next]_vars =>
        [part = "keyboard" =>
          [TheKeyboard!AsChannel!Next]_(TheKeyboard!AsChannel!channelVars)]_vars
  BY <1>2
<1>. HIDE DEF ChannelInv, Init, Next, vars, Fairness
<1>. QED  BY <1>1, <1>2, <1>3, PTL DEF Spec, ImplementsChannel

-----------------------------------------------------------------------------
(* The speaker.  Only who may beep is behind a sound.                      *)
SoundInv == beeping \subseteq Beepers /\ TheTimer!SpeakerOwned

LEMMA SoundStep ==
  ASSUME Killable \cap Beepers = {}, SoundInv, TheTimer!Next \/ UNCHANGED timerVars
  PROVE  SoundInv'
<1>. USE DEF SoundInv, TheTimer!SpeakerOwned
<1>1. ASSUME UNCHANGED <<speaker, beeping>>
      PROVE  SoundInv'
  BY <1>1
<1>2. CASE TheTimer!TimerMaster
  BY <1>1, <1>2 DEF TheTimer!TimerMaster, TheTimer!soundVars
<1>3. ASSUME NEW p \in Procs, TheTimer!Run(p) \/ TheTimer!Yield(p) \/ TheTimer!Keyboard(p)
      PROVE  SoundInv'
  <2>1. CASE TheTimer!Wake(p)
    BY <2>1 DEF TheTimer!Wake
  <2>2. CASE TheTimer!Again(p) \/ TheTimer!Yield(p) \/ TheTimer!Keyboard(p)
    BY <1>1, <2>2
       DEF TheTimer!Again, TheTimer!Yield, TheTimer!Keyboard, TheTimer!soundVars
  <2>. QED  BY <1>3, <2>1, <2>2 DEF TheTimer!Run
<1>4. ASSUME NEW p \in Procs, TheTimer!Kill(p)
      PROVE  SoundInv'
  <2>1. p \notin beeping /\ beeping' = beeping \ {p} /\ UNCHANGED speaker
    BY <1>4 DEF TheTimer!Kill
  <2>. QED  BY <1>1, <2>1
<1>5. ASSUME NEW p \in Procs, TheTimer!StopSound(p)
      PROVE  SoundInv'
  BY <1>5 DEF TheTimer!StopSound
<1>6. ASSUME NEW p \in Procs, NEW delay \in Delays,
             TheTimer!SysSleep(p, delay) \/ TheTimer!Beep(p, delay)
      PROVE  SoundInv'
  BY <1>1, <1>6 DEF TheTimer!SysSleep, TheTimer!Beep, TheTimer!soundVars
<1>7. CASE UNCHANGED timerVars
  BY <1>1, <1>7 DEF timerVars
<1>. QED
  BY <1>2, <1>3, <1>4, <1>5, <1>6, <1>7 DEF TheTimer!Next

(* The speaker does not sound on when every process that beeped is back    *)
(* from it, although they cut each other off, unless one that beeps can be *)
(* killed: nobody stops the sound of a killed process (sound.c).           *)
THEOREM SpeakerOwnedHolds ==
  ASSUME Killable \cap Beepers = {}
  PROVE  Spec => []SpeakerOwned
<1>1. Init => SoundInv
  BY DEF Init, TheTimer!Init, SoundInv, TheTimer!SpeakerOwned
<1>2. SoundInv /\ [Next]_vars => SoundInv'
  <2>1. Next \/ UNCHANGED vars => TheTimer!Next \/ UNCHANGED timerVars
    BY DEF Next, Moves, vars
  <2>. QED  BY <2>1, SoundStep
<1>3. SoundInv => SpeakerOwned
  BY DEF SoundInv, SpeakerOwned
<1>. HIDE DEF SoundInv, SpeakerOwned, Init, Next, vars, Fairness
<1>. QED  BY <1>1, <1>2, <1>3, PTL DEF Spec

-----------------------------------------------------------------------------
(* The clock.                                                              *)
HourOf(t) == (t \div 3600 + 21) % 24
MinuteOf(t) == (t \div 60) % 60

LEMMA Dividing ==
  ASSUME NEW t \in Nat, t < 86400
  PROVE  /\ t \div 3600 \in 0 .. 23 /\ (t \div 60) % 60 \in 0 .. 59 /\ t % 60 \in 0 .. 59
         /\ ((t + 75600) % 86400) \div 3600 = (t \div 3600 + 21) % 24
         /\ (((t + 75600) % 86400) \div 60) % 60 = (t \div 60) % 60
         /\ ((t + 75600) % 86400) % 60 = t % 60
OBVIOUS

LEMMA Local ==
  ASSUME NEW t \in Nat, t < 86400
  PROVE  TheClock!LocalTime(t) = <<HourOf(t), MinuteOf(t), t % 60>>
<1>1. TheClock!LocalTime(t) = TheClock!Fields((t + 75600) % 86400)
  BY DEF TheClock!LocalTime, TheClock!DAY
<1>. QED
  BY <1>1, Dividing DEF TheClock!Fields, HourOf, MinuteOf

(* A register of eight bits holds two decimal digits.                      *)
LEMMA Digits ==
  ASSUME NEW n \in 0 .. 59
  PROVE  TheClock!Decoded((n \div 10) * 16 + (n % 10)) = n
<1>. DEFINE tens == n \div 10
            units == n % 10
            bcd == tens * 16 + units
<1>1. tens \in 0 .. 5 /\ units \in 0 .. 9 /\ n = tens * 10 + units
  OBVIOUS
<1>. HIDE DEF tens, units
<1>2. bcd \div 16 = tens /\ bcd % 16 = units
  BY <1>1
<1>. QED  BY <1>1, <1>2 DEF TheClock!Decoded, tens, units

LEMMA Registers ==
  ASSUME chip \in Nat, chip < 86400
  PROVE  /\ TheClock!Decoded(TheClock!Register(1)) = chip \div 3600
         /\ TheClock!Decoded(TheClock!Register(2)) = MinuteOf(chip)
         /\ TheClock!Decoded(TheClock!Register(3)) = chip % 60
<1>. DEFINE h == chip \div 3600
            m == (chip \div 60) % 60
            s == chip % 60
<1>2. h \in 0 .. 59 /\ m \in 0 .. 59 /\ s \in 0 .. 59
  BY Dividing
<1>3. /\ TheClock!Register(1) = (h \div 10) * 16 + (h % 10)
      /\ TheClock!Register(2) = (m \div 10) * 16 + (m % 10)
      /\ TheClock!Register(3) = (s \div 10) * 16 + (s % 10)
  BY DEF TheClock!Register, TheClock!Fields
<1>. HIDE DEF h, m, s
<1>4. /\ TheClock!Decoded(TheClock!Register(1)) = h
      /\ TheClock!Decoded(TheClock!Register(2)) = m
      /\ TheClock!Decoded(TheClock!Register(3)) = s
  BY <1>2, <1>3, Digits
<1>5. h = chip \div 3600 /\ m = MinuteOf(chip) /\ s = chip % 60
  BY DEF MinuteOf, h, m, s
<1>. QED  BY <1>4, <1>5

(* Within the minute in which the command began, what it has read already  *)
(* is right for that minute.                                               *)
SameMinute == began \div 60 = chip \div 60
ClockInv ==
  /\ chip \in Nat /\ chip < 86400 /\ began \in Nat /\ began < 86400
  /\ (chip - began) % 86400 <= MaxTicks
  /\ SameMinute =>
       /\ pc # "hours" => hours = HourOf(began)
       /\ pc \in {"seconds", "shown"} => minutes = MinuteOf(began)
       /\ pc = "shown" => \E s \in began .. chip : seconds = s % 60

LEMMA Elapsed ==
  ASSUME NEW c \in Nat, c < 86400, NEW b \in Nat, b < 86400
  PROVE  (c - b) % 86400 = IF c >= b THEN c - b ELSE c - b + 86400
OBVIOUS

LEMMA InOneMinute ==
  ASSUME NEW b \in Nat, NEW c \in Nat, b \div 60 = c \div 60
  PROVE  /\ b - c < 60 /\ c - b < 60
         /\ HourOf(b) = HourOf(c) /\ MinuteOf(b) = MinuteOf(c)
         /\ \A s \in Nat : b <= s /\ s <= c => s \div 60 = c \div 60
<1>1. b - c < 60 /\ c - b < 60 /\ b \div 3600 = c \div 3600
  OBVIOUS
<1>2. \A s \in Nat : b <= s /\ s <= c => s \div 60 = c \div 60
  OBVIOUS
<1>. QED  BY <1>1, <1>2 DEF HourOf, MinuteOf

(* The clock goes on: either the minute is another, or it was the same     *)
(* before, because the command does not take a day.                        *)
LEMMA ClockTick ==
  ASSUME ClockInv, MaxTicks <= 86400 - 60, TheClock!Tick
  PROVE  ClockInv'
<1>1. MaxTicks \in Nat
  BY PartsAssumption DEF TheClock!ClockAssumption
<1>2. /\ chip \in Nat /\ chip < 86400 /\ began \in Nat /\ began < 86400
      /\ (chip - began) % 86400 < MaxTicks
      /\ chip' = (chip + 1) % 86400
      /\ UNCHANGED <<began, pc, hours, minutes, seconds>>
  BY DEF ClockInv, TheClock!Tick, TheClock!DAY
<1>3. /\ chip' = IF chip < 86399 THEN chip + 1 ELSE 0
      /\ chip' \in Nat /\ chip' < 86400
  BY <1>2
<1>. DEFINE c1 == chip'
<1>4. /\ (chip - began) % 86400 = IF chip >= began THEN chip - began ELSE chip - began + 86400
      /\ (c1 - began) % 86400 = IF c1 >= began THEN c1 - began ELSE c1 - began + 86400
  <2>. HIDE DEF c1
  <2>. QED  BY <1>2, <1>3, Elapsed DEF c1
<1>5. c1 \in Nat /\ c1 < 86400 /\ c1 = IF chip < 86399 THEN chip + 1 ELSE 0
  BY <1>3
<1>. HIDE DEF c1
<1>6. (c1 - began) % 86400 <= MaxTicks
  BY <1>1, <1>2, <1>4, <1>5
<1>7. ASSUME began \div 60 = c1 \div 60
      PROVE  c1 = chip + 1 /\ chip >= began /\ SameMinute
  <2>1. began - c1 < 60
    BY <1>2, <1>5, <1>7, InOneMinute
  <2>2. c1 > began
    BY <1>1, <1>2, <1>4, <1>5, <1>6, <2>1
  <2>3. c1 = chip + 1 /\ chip >= began
    BY <1>2, <1>5, <2>2
  <2>4. chip \div 60 = c1 \div 60
    BY <1>2, <1>5, <1>7, <2>3, InOneMinute
  <2>. QED  BY <1>7, <2>3, <2>4 DEF SameMinute
<1>8. ASSUME began \div 60 = c1 \div 60
      PROVE  /\ pc' # "hours" => hours' = HourOf(began')
             /\ pc' \in {"seconds", "shown"} => minutes' = MinuteOf(began')
             /\ pc' = "shown" => \E s \in began' .. c1 : seconds' = s % 60
  <2>1. began .. chip \subseteq began .. c1
    BY <1>2, <1>5, <1>7, <1>8
  <2>. QED  BY <1>2, <1>7, <1>8, <2>1 DEF ClockInv
<1>. QED  BY <1>2, <1>5, <1>6, <1>8 DEF ClockInv, SameMinute, c1

LEMMA ClockReads ==
  ASSUME ClockInv, MaxTicks <= 86400 - 60,
         TheClock!GetHours \/ TheClock!GetMinutes \/ TheClock!GetSeconds
  PROVE  ClockInv'
<1>1. /\ chip \in Nat /\ chip < 86400 /\ began \in Nat /\ began < 86400
      /\ UNCHANGED <<chip, began>>
  BY DEF ClockInv, TheClock!GetHours, TheClock!GetMinutes, TheClock!GetSeconds
<1>2. /\ TheClock!Decoded(TheClock!Register(1)) = chip \div 3600
      /\ TheClock!Decoded(TheClock!Register(2)) = MinuteOf(chip)
      /\ TheClock!Decoded(TheClock!Register(3)) = chip % 60
  BY <1>1, Registers
<1>3. (chip - began) % 86400 <= MaxTicks
  BY DEF ClockInv
<1>4. SUFFICES ASSUME SameMinute
               PROVE  /\ pc' # "hours" => hours' = HourOf(began)
                      /\ pc' \in {"seconds", "shown"} => minutes' = MinuteOf(began)
                      /\ pc' = "shown" => \E s \in began .. chip : seconds' = s % 60
  BY <1>1, <1>3 DEF ClockInv, SameMinute
<1>5. HourOf(chip) = HourOf(began) /\ MinuteOf(chip) = MinuteOf(began)
  BY <1>1, <1>4, InOneMinute DEF SameMinute
<1>6. CASE TheClock!GetHours
  BY <1>2, <1>5, <1>6 DEF TheClock!GetHours, TheClock!AdvanceTo, HourOf
<1>7. CASE TheClock!GetMinutes
  BY <1>2, <1>4, <1>5, <1>7 DEF TheClock!GetMinutes, TheClock!AdvanceTo, ClockInv
<1>8. CASE TheClock!GetSeconds
  <2>1. /\ pc = "seconds" /\ pc' = "shown" /\ seconds' = chip % 60
        /\ UNCHANGED <<hours, minutes>>
    BY <1>2, <1>8 DEF TheClock!GetSeconds, TheClock!AdvanceTo
  <2>2. hours = HourOf(began) /\ minutes = MinuteOf(began)
    BY <1>4, <2>1 DEF ClockInv
  <2>3. chip \in began .. chip
    <3>1. (chip - began) % 86400 = IF chip >= began THEN chip - began ELSE chip - began + 86400
      BY <1>1, Elapsed
    <3>2. began - chip < 60 /\ MaxTicks \in Nat
      BY <1>1, <1>4, InOneMinute, PartsAssumption DEF SameMinute, TheClock!ClockAssumption
    <3>. QED  BY <1>1, <1>3, <3>1, <3>2
  <2>. QED  BY <2>1, <2>2, <2>3
<1>. QED  BY <1>6, <1>7, <1>8

LEMMA ClockShows ==
  ASSUME ClockInv, MaxTicks <= 86400 - 60
  PROVE  TheClock!ShowsTheTime
<1>. SUFFICES ASSUME pc = "shown", SameMinute
              PROVE  TheClock!Shown \in TheClock!During
  BY DEF TheClock!ShowsTheTime, SameMinute
<1>1. /\ chip \in Nat /\ chip < 86400 /\ began \in Nat /\ began < 86400
      /\ (chip - began) % 86400 <= MaxTicks
      /\ hours = HourOf(began) /\ minutes = MinuteOf(began)
  BY DEF ClockInv
<1>2. PICK s \in began .. chip : seconds = s % 60
  BY DEF ClockInv
<1>3. s \in Nat /\ s < 86400 /\ began <= s /\ s <= chip
  BY <1>1, <1>2
<1>4. s \div 60 = began \div 60
  BY <1>1, <1>3, InOneMinute DEF SameMinute
<1>5. HourOf(s) = HourOf(began) /\ MinuteOf(s) = MinuteOf(began)
  BY <1>1, <1>3, <1>4, InOneMinute
<1>6. TheClock!Shown = TheClock!LocalTime(s)
  BY <1>1, <1>2, <1>3, <1>5, Local DEF TheClock!Shown
<1>7. (chip - began) % 86400 = chip - began
  BY <1>1, <1>3, Elapsed
<1>8. s - began \in 0 .. (chip - began) % 86400
  BY <1>1, <1>3, <1>7
<1>9. (began + (s - began)) % 86400 = s
  <2>1. began + (s - began) = s /\ s % 86400 = s
    BY <1>1, <1>3
  <2>. QED  BY <2>1
<1>. QED
  BY <1>6, <1>8, <1>9 DEF TheClock!During, TheClock!DAY

LEMMA ClockInit == Init => ClockInv
<1>1. Starts \subseteq 0 .. TheClock!DAY - 1 /\ MaxTicks \in Nat
  BY PartsAssumption DEF TheClock!ClockAssumption
<1>2. TheClock!DAY \in Int /\ TheClock!DAY = 86400
  BY DEF TheClock!DAY
<1>3. \A s \in Starts : s \in Nat /\ s < TheClock!DAY
  <2>. DEFINE day == TheClock!DAY
  <2>1. day \in Int
    BY <1>2
  <2>. HIDE DEF day
  <2>2. Starts \subseteq 0 .. day - 1
    BY <1>1 DEF day
  <2>3. \A s \in Starts : s \in Nat /\ s < day
    BY <2>1, <2>2
  <2>. QED  BY <2>3 DEF day
<1>4. ASSUME TheClock!Init
      PROVE  ClockInv
  <2>1. chip \in Nat /\ chip < 86400 /\ began = chip /\ pc = "hours"
    BY <1>2, <1>3, <1>4 DEF TheClock!Init
  <2>2. (chip - began) % 86400 = 0
    BY <2>1
  <2>. QED  BY <1>1, <2>1, <2>2 DEF ClockInv
<1>. QED  BY <1>4 DEF Init

(* time shows a time the clock had while it read the three registers, at   *)
(* any time of the day, unless a minute ended meanwhile; provided that the *)
(* command takes less than a day but a minute.                             *)
THEOREM ShowsTheTimeHolds ==
  ASSUME MaxTicks <= 86400 - 60
  PROVE  Spec => []ShowsTheTime
<1>1. Init => ClockInv
  BY ClockInit
<1>2. ClockInv /\ [Next]_vars => ClockInv'
  <2>1. Next \/ UNCHANGED vars => TheClock!Next \/ UNCHANGED clockVars
    BY DEF Next, Moves, vars
  <2>2. ASSUME ClockInv, UNCHANGED clockVars
        PROVE  ClockInv'
    BY <2>2 DEF ClockInv, SameMinute, clockVars
  <2>. QED  BY <2>1, <2>2, ClockTick, ClockReads DEF TheClock!Next
<1>3. ClockInv => ShowsTheTime
  BY ClockShows DEF ShowsTheTime
<1>. HIDE DEF ClockInv, ShowsTheTime, Init, Next, vars, Fairness
<1>. QED  BY <1>1, <1>2, <1>3, PTL DEF Spec

-----------------------------------------------------------------------------
(* Quotients and remainders by what is not a literal.                      *)
LEMMA Remainder ==
  ASSUME NEW N \in Nat \ {0}, NEW n \in Int
  PROVE  n % N \in Nat /\ n % N < N /\ (0 <= n /\ n < N => n % N = n)
OBVIOUS

LEMMA Quotient ==
  ASSUME NEW d \in Nat \ {0}, NEW n \in Int
  PROVE  /\ n \div d \in Int /\ n % d \in 0 .. d - 1
         /\ n = d * (n \div d) + (n % d)
OBVIOUS

LEMMA OneQuotient ==
  ASSUME NEW d \in Nat \ {0}, NEW n \in Int, NEW q \in Int, NEW r \in 0 .. d - 1,
         n = d * q + r
  PROVE  n \div d = q /\ n % d = r
<1>. DEFINE k == n \div d
            s == n % d
<1>1. k \in Int /\ s \in 0 .. d - 1 /\ n = d * k + s
  BY Quotient
<1>. HIDE DEF k, s
<1>2. d * k - d * q < d /\ d * q - d * k < d
  BY <1>1
<1>3. d * k - d * q = d * (k - q) /\ d * q - d * k = d * (q - k)
  BY <1>1
<1>4. ASSUME NEW x \in Int, x >= 1 PROVE d * x >= d
  BY <1>4
<1>5. ~(k - q >= 1) /\ ~(q - k >= 1)
  BY <1>1, <1>2, <1>3, <1>4
<1>6. k = q
  BY <1>1, <1>5
<1>7. n \div d = q
  BY <1>6 DEF k
<1>8. s = r
  BY <1>1, <1>6
<1>. QED  BY <1>7, <1>8 DEF s

LEMMA Shifted ==
  ASSUME NEW d \in Nat \ {0}, NEW n \in Int, NEW k \in Int
  PROVE  (n + d * k) \div d = n \div d + k /\ (n + d * k) % d = n % d
<1>. DEFINE q == n \div d
            r == n % d
<1>1. q \in Int /\ r \in 0 .. d - 1 /\ n = d * q + r
  BY Quotient
<1>. HIDE DEF q, r
<1>2. d * k \in Int /\ d * (q + k) = d * q + d * k
  BY <1>1
<1>3. n + d * k = d * (q + k) + r /\ n + d * k \in Int /\ q + k \in Int
  BY <1>1, <1>2
<1>4. (n + d * k) \div d = q + k /\ (n + d * k) % d = r
  BY <1>1, <1>3, OneQuotient
<1>. QED  BY <1>4 DEF q, r

-----------------------------------------------------------------------------
(* The screen.                                                             *)

(* A character is no larger than the screen, whose lengths sixteen bits    *)
(* hold with room for two characters.                                      *)
ScreenHolds ==
  /\ MaxSize <= WIDTH /\ MaxSize <= HEIGHT
  /\ WIDTH + MaxSize <= 8192 /\ HEIGHT + 2 * MaxSize < 4096

(* What is drawn lies in a row above the cursor's, or to its left in it.   *)
Before(x, y) == \A c \in inked : c[2] < y \/ (c[2] < y + charSize /\ c[1] < x)
ScreenInv ==
  /\ cursorX \in Nat /\ cursorX < 8192 /\ cursorY \in Nat /\ charSize \in 1 .. MaxSize
  /\ inked \subseteq TheScreen!Cells /\ above \in BOOLEAN
  /\ ~above => cursorY <= HEIGHT + MaxSize /\ Before(cursorX, cursorY)

LEMMA ScreenConstants ==
  ScreenHolds =>
    /\ WIDTH \in Nat \ {0} /\ HEIGHT \in Nat \ {0} /\ MaxSize \in Nat \ {0}
    /\ PITCH \in Nat \ {0} /\ PITCH >= WIDTH
BY PartsAssumption DEF TheScreen!ScreenAssumption

LEMMA SixteenBits ==
  ASSUME NEW n \in Int
  PROVE  /\ 0 <= n /\ n < 8192 => TheScreen!X16(n) = n
         /\ 0 <= n /\ n < 4096 => TheScreen!Y16(n) = n
         /\ TheScreen!X16(n) \in Nat /\ TheScreen!X16(n) < 8192
         /\ TheScreen!Y16(n) \in Nat
<1>. DEFINE N == 8192
            M == 4096
<1>0. N \in Nat \ {0} /\ M \in Nat \ {0}
  OBVIOUS
<1>3. TheScreen!X16(n) = n % N /\ TheScreen!Y16(n) = n % M
  BY DEF TheScreen!X16, TheScreen!Y16
<1>. HIDE DEF N, M
<1>1. n % N \in Nat /\ n % N < N /\ (0 <= n /\ n < N => n % N = n)
  BY <1>0, Remainder
<1>2. n % M \in Nat /\ n % M < M /\ (0 <= n /\ n < M => n % M = n)
  BY <1>0, Remainder
<1>. QED  BY <1>1, <1>2, <1>3 DEF N, M

(* The column at which a row is full leaves room for no character.         *)
LEMMA FullRow ==
  ASSUME ScreenHolds, ScreenInv
  PROVE  /\ TheScreen!Limit \in Nat \ {0}
         /\ TheScreen!Limit <= WIDTH /\ WIDTH < TheScreen!Limit + charSize
<1>. DEFINE rest == WIDTH % charSize
<1>1. WIDTH \in Nat \ {0} /\ charSize \in Nat \ {0} /\ charSize <= WIDTH
  BY ScreenConstants DEF ScreenInv, ScreenHolds
<1>2. rest \in 0 .. charSize - 1
  BY <1>1
<1>3. TheScreen!Limit = WIDTH - rest
  BY DEF TheScreen!Limit
<1>. HIDE DEF rest
<1>. QED  BY <1>1, <1>2, <1>3

LEMMA CoveredCells ==
  \A x, y : TheScreen!Covered(x, y) \subseteq TheScreen!Cells
BY DEF TheScreen!Covered

(* Inside the screen a character covers its square and nothing else.       *)
LEMMA CoveredSquare ==
  ASSUME ScreenHolds, ScreenInv, NEW x \in Nat, NEW y \in Nat
  PROVE  /\ \A c \in TheScreen!Cells :
              /\ x <= c[1] /\ c[1] < x + charSize /\ y <= c[2] /\ c[2] < y + charSize
              => c \in TheScreen!Covered(x, y)
         /\ \A c \in TheScreen!Covered(x, y) : y <= c[2] /\ c[2] < y + charSize
         /\ x + charSize <= WIDTH =>
              \A c \in TheScreen!Covered(x, y) : x <= c[1] /\ c[1] < x + charSize
<1>1. /\ WIDTH \in Nat /\ PITCH \in Nat \ {0} /\ WIDTH <= PITCH /\ charSize \in Nat
      /\ HEIGHT \in Nat
  BY ScreenConstants DEF ScreenInv
<1>2. \A n \in 0 .. PITCH - 1 : n % PITCH = n
  BY <1>1
<1>3. ASSUME NEW c \in TheScreen!Cells,
             x <= c[1], c[1] < x + charSize, y <= c[2], c[2] < y + charSize
      PROVE  c \in TheScreen!Covered(x, y)
  <2>1. c[1] \in 0 .. WIDTH - 1 /\ c[2] \in 0 .. HEIGHT - 1 /\ c = <<c[1], c[2]>>
    BY DEF TheScreen!Cells
  <2>. DEFINE i == c[1] - x
              j == c[2] - y
  <2>2. i \in 0 .. charSize - 1 /\ j \in 0 .. charSize - 1 /\ x + i = c[1] /\ y + j = c[2]
    BY <1>1, <1>3, <2>1
  <2>3. c[1] % PITCH = c[1]
    BY <1>1, <1>2, <2>1
  <2>. HIDE DEF i, j
  <2>4. c = <<(x + i) % PITCH, y + j>>
    BY <2>1, <2>2, <2>3
  <2>. QED  BY <2>2, <2>4 DEF TheScreen!Covered
<1>4. ASSUME NEW c \in TheScreen!Covered(x, y)
      PROVE  /\ y <= c[2] /\ c[2] < y + charSize
             /\ x + charSize <= WIDTH => x <= c[1] /\ c[1] < x + charSize
  <2>1. PICK i \in 0 .. charSize - 1, j \in 0 .. charSize - 1 :
          c = <<(x + i) % PITCH, y + j>>
    BY DEF TheScreen!Covered
  <2>2. c[1] = (x + i) % PITCH /\ c[2] = y + j
    BY <2>1
  <2>3. x + charSize <= WIDTH => (x + i) % PITCH = x + i
    BY <1>1, <1>2
  <2>. QED  BY <1>1, <2>2, <2>3
<1>. QED  BY <1>3, <1>4

(* A character where the cursor is put: nothing there, unless the screen   *)
(* is cleared.                                                             *)
LEMMA DrawStep ==
  ASSUME ScreenHolds, ScreenInv, NEW x \in Nat, x < 8192, NEW y \in Nat,
         ~above => y <= HEIGHT + 2 * MaxSize /\ Before(x, y),
         \/ x = cursorX /\ y = cursorY
         \/ x = 0 /\ (~above => y = cursorY + charSize),
         TheScreen!DrawAt(x, y)
  PROVE  /\ ScreenInv'
         /\ ~above /\ cursorX' <= WIDTH =>
              \/ TheScreen!Covered(cursorX' - charSize, cursorY') \cap inked = {}
              \/ cursorY' = 0 /\ cursorY > 0
<1>. DEFINE full == x >= TheScreen!Limit
            row == IF full THEN TheScreen!Y16(y + charSize) ELSE y
            over == row > HEIGHT
            col == IF full \/ over THEN 0 ELSE x
            top == IF over THEN 0 ELSE row
<1>1. /\ cursorX' = TheScreen!X16(col + charSize) /\ cursorY' = top
      /\ inked' = (IF over THEN {} ELSE inked) \cup TheScreen!Covered(col, top)
      /\ above' = (above /\ ~over) /\ charSize' = charSize
  BY DEF TheScreen!DrawAt
<1>2. /\ WIDTH \in Nat \ {0} /\ HEIGHT \in Nat \ {0} /\ MaxSize \in Nat \ {0}
      /\ charSize \in Nat \ {0} /\ charSize <= MaxSize /\ cursorY \in Nat
      /\ cursorX \in Nat /\ above \in BOOLEAN /\ inked \subseteq TheScreen!Cells
      /\ ~above => cursorY <= HEIGHT + MaxSize
      /\ MaxSize <= HEIGHT /\ MaxSize <= WIDTH /\ WIDTH + MaxSize <= 8192
      /\ HEIGHT + 2 * MaxSize < 4096
  BY ScreenConstants DEF ScreenInv, ScreenHolds
<1>3. /\ TheScreen!Limit \in Nat \ {0}
      /\ TheScreen!Limit <= WIDTH /\ WIDTH < TheScreen!Limit + charSize
  BY FullRow
<1>4. row \in Nat /\ top \in Nat /\ top <= HEIGHT /\ col \in Nat /\ col < WIDTH
  <2>. DEFINE below == y + charSize
  <2>0. below \in Int
    BY <1>2
  <2>1. TheScreen!Y16(below) \in Nat
    <3>. HIDE DEF below
    <3>. QED  BY <2>0, SixteenBits
  <2>. QED  BY <1>2, <1>3, <2>1
<1>. DEFINE right == col + charSize
<1>5. cursorX' = right /\ right \in Nat /\ right < 8192 /\ cursorX' - charSize = col
  <2>1. right \in Nat /\ right < 8192 /\ right - charSize = col
    <3>. HIDE DEF col
    <3>. QED  BY <1>2, <1>4
  <2>2. TheScreen!X16(right) = right
    <3>. HIDE DEF right
    <3>. QED  BY <2>1, SixteenBits
  <2>. QED
    <3>. HIDE DEF top, over
    <3>. QED  BY <1>1, <2>1, <2>2
<1>6. ~above => row = IF full THEN y + charSize ELSE y
  <2>. DEFINE below == y + charSize
  <2>1. ASSUME ~above, full PROVE y = cursorY /\ below \in Nat /\ below < 4096
    BY <1>2, <1>3, <2>1
  <2>2. ~above /\ full => TheScreen!Y16(below) = below
    <3>. HIDE DEF below, full
    <3>. QED  BY <2>1, SixteenBits
  <2>. QED  BY <2>2
<1>7. ASSUME ~above, ~over
      PROVE  \A c \in inked : c[2] < row \/ (c[2] < row + charSize /\ c[1] < col)
  <2>1. \A c \in inked : c[1] \in Nat /\ c[2] \in Nat
    BY <1>2 DEF TheScreen!Cells
  <2>2. Before(x, y) /\ row = IF full THEN y + charSize ELSE y
    BY <1>6, <1>7
  <2>3. CASE full
    BY <1>2, <2>1, <2>2, <2>3 DEF Before
  <2>4. CASE ~full
    BY <1>2, <1>7, <2>1, <2>2, <2>4 DEF Before
  <2>. QED  BY <2>3, <2>4
<1>. DEFINE drawn == TheScreen!Covered(col, top)
<1>8. /\ drawn \subseteq TheScreen!Cells
      /\ \A c \in drawn : top <= c[2] /\ c[2] < top + charSize
      /\ col + charSize <= WIDTH => \A c \in drawn : col <= c[1] /\ c[1] < col + charSize
  <2>. HIDE DEF col, top
  <2>. QED  BY <1>4, CoveredCells, CoveredSquare
<1>9. ScreenInv'
  <2>1. ASSUME NEW c \in drawn PROVE c[2] < top + charSize /\ c[1] < col + charSize
    <3>1. c[1] \in 0 .. WIDTH - 1 /\ c[2] \in 0 .. HEIGHT - 1
      BY <1>8, <2>1 DEF TheScreen!Cells
    <3>. HIDE DEF drawn, col, top
    <3>. QED  BY <1>2, <1>4, <1>8, <2>1, <3>1
  <2>2. ASSUME ~above'
        PROVE  \A c \in inked' : c[2] < top \/ (c[2] < top + charSize /\ c[1] < col + charSize)
    <3>1. CASE over
      BY <1>1, <2>1, <3>1
    <3>2. CASE ~over
      <4>1. ~above /\ top = row
        BY <1>1, <1>2, <2>2, <3>2
      <4>2. \A c \in inked : c[1] \in Nat
        BY <1>2 DEF TheScreen!Cells
      <4>3. \A c \in inked : c[2] < top \/ (c[2] < top + charSize /\ c[1] < col + charSize)
        <5>1. \A c \in inked : c[2] < row \/ (c[2] < row + charSize /\ c[1] < col)
          BY <1>7, <3>2, <4>1
        <5>. HIDE DEF top, row, col
        <5>. QED  BY <1>2, <1>4, <4>1, <4>2, <5>1
      <4>4. inked' = inked \cup drawn
        BY <1>1, <3>2
      <4>. HIDE DEF drawn
      <4>. QED  BY <2>1, <4>3, <4>4
    <3>. QED  BY <3>1, <3>2
  <2>3. inked' \subseteq TheScreen!Cells
    BY <1>1, <1>2, <1>8
  <2>. HIDE DEF drawn, right, col, top, row, over, full
  <2>4. ~above' => Before(cursorX, cursorY)'
    BY <1>1, <1>5, <2>2 DEF Before, right
  <2>5. above' \in BOOLEAN
    BY <1>1
  <2>6. TheScreen!Cells' = TheScreen!Cells
    BY DEF TheScreen!Cells
  <2>7. charSize' \in 1 .. MaxSize /\ cursorY' \in Nat /\ cursorY' <= HEIGHT + MaxSize
    BY <1>1, <1>2, <1>4
  <2>. QED  BY <1>5, <2>3, <2>4, <2>5, <2>6, <2>7 DEF ScreenInv
<1>10. ASSUME ~above, cursorX' <= WIDTH
       PROVE  \/ TheScreen!Covered(cursorX' - charSize, cursorY') \cap inked = {}
              \/ cursorY' = 0 /\ cursorY > 0
  <2>1. CASE over
    <3>1. cursorY > 0
      <4>1. row <= cursorY + charSize
        <5>1. full => x = cursorX /\ y = cursorY
          BY <1>2, <1>3
        <5>2. y = cursorY \/ y = cursorY + charSize
          BY <1>10
        <5>3. row = IF full THEN y + charSize ELSE y
          BY <1>6, <1>10
        <5>. HIDE DEF full, row
        <5>. QED  BY <1>2, <5>1, <5>2, <5>3
      <4>. HIDE DEF row
      <4>. QED  BY <1>2, <1>4, <2>1, <4>1
    <3>. QED  BY <1>1, <2>1, <3>1
  <2>2. CASE ~over
    <3>1. col + charSize <= WIDTH /\ top = row
      BY <1>5, <1>10, <2>2
    <3>2. ASSUME NEW c \in drawn, c \in inked PROVE FALSE
      <4>1. c[1] \in Nat /\ c[2] \in Nat
        BY <1>2, <3>2 DEF TheScreen!Cells
      <4>2. top <= c[2] /\ col <= c[1]
        BY <1>8, <3>1, <3>2
      <4>3. c[2] < row \/ c[1] < col
        BY <1>7, <1>10, <2>2, <3>2
      <4>. HIDE DEF top, row, col
      <4>. QED  BY <1>4, <3>1, <4>1, <4>2, <4>3
    <3>3. TheScreen!Covered(cursorX' - charSize, cursorY') = drawn
      <4>1. cursorX' - charSize = col /\ cursorY' = top
        BY <1>1, <1>5
      <4>. HIDE DEF col, top
      <4>. QED  BY <4>1
    <3>. QED  BY <3>2, <3>3
  <2>. QED  BY <2>1, <2>2
<1>. QED  BY <1>9, <1>10

LEMMA DrawsKeep ==
  ASSUME ScreenHolds, ScreenInv, TheScreen!DrawChar \/ TheScreen!NewLine
  PROVE  /\ ScreenInv'
         /\ ~above /\ cursorX' <= WIDTH =>
              \/ TheScreen!Covered(cursorX' - charSize, cursorY') \cap inked = {}
              \/ cursorY' = 0 /\ cursorY > 0
<1>1. /\ cursorX \in Nat /\ cursorX < 8192 /\ cursorY \in Nat
      /\ ~above => cursorY <= HEIGHT + MaxSize /\ Before(cursorX, cursorY)
      /\ charSize \in Nat \ {0} /\ charSize <= MaxSize /\ MaxSize \in Nat /\ HEIGHT \in Nat
      /\ HEIGHT + 2 * MaxSize < 4096
  BY ScreenConstants DEF ScreenInv, ScreenHolds
<1>2. CASE TheScreen!DrawChar
  BY <1>1, <1>2, DrawStep DEF TheScreen!DrawChar
<1>3. CASE TheScreen!NewLine
  <2>. DEFINE below == cursorY + charSize
  <2>1. below \in Nat /\ (~above => below < 4096 /\ below <= HEIGHT + 2 * MaxSize)
    BY <1>1
  <2>2. TheScreen!Y16(below) \in Nat /\ (~above => TheScreen!Y16(below) = below)
    <3>. HIDE DEF below
    <3>. QED  BY <2>1, SixteenBits
  <2>3. ~above => Before(0, below)
    <3>1. inked \subseteq TheScreen!Cells
      BY DEF ScreenInv
    <3>2. \A c \in inked : c[2] \in Nat
      BY <3>1 DEF TheScreen!Cells
    <3>. QED  BY <1>1, <3>2 DEF Before
  <2>4. TheScreen!DrawAt(0, TheScreen!Y16(below))
    BY <1>3 DEF TheScreen!NewLine
  <2>5. \E y \in Nat : /\ TheScreen!DrawAt(0, y) /\ (~above => y = below)
    BY <2>2, <2>4
  <2>6. PICK y \in Nat : TheScreen!DrawAt(0, y) /\ (~above => y = below)
    BY <2>5
  <2>7. ~above => y <= HEIGHT + 2 * MaxSize /\ Before(0, y) /\ y = cursorY + charSize
    BY <2>1, <2>3, <2>6
  <2>. HIDE DEF below
  <2>. QED  BY <2>6, <2>7, DrawStep
<1>. QED  BY <1>2, <1>3

(* A backspace takes the last character of the row, or goes to where the   *)
(* row above was full, and wipes what is there.                            *)
LEMMA BackspaceKeeps ==
  ASSUME ScreenHolds, ScreenInv, TheScreen!Backspace
  PROVE  ScreenInv'
<1>1. /\ WIDTH \in Nat \ {0} /\ HEIGHT \in Nat \ {0} /\ MaxSize \in Nat \ {0}
      /\ charSize \in Nat \ {0} /\ charSize <= MaxSize /\ charSize \in 1 .. MaxSize
      /\ cursorY \in Nat /\ cursorX \in Nat /\ cursorX < 8192
      /\ inked \subseteq TheScreen!Cells /\ WIDTH + MaxSize <= 8192
  BY ScreenConstants DEF ScreenInv, ScreenHolds
<1>2. ~above /\ cursorX <= WIDTH /\ charSize' = charSize
  BY DEF TheScreen!Backspace
<1>3. cursorY <= HEIGHT + MaxSize /\ Before(cursorX, cursorY)
  BY <1>2 DEF ScreenInv
<1>4. \A c \in inked : c \in TheScreen!Cells /\ c[1] \in Nat /\ c[2] \in Nat /\ c[1] < WIDTH
  BY <1>1 DEF TheScreen!Cells
<1>5. inked' = inked \ TheScreen!Covered(cursorX', cursorY')
  BY DEF TheScreen!Backspace
<1>6. above' = (above \/ (cursorX = 0 /\ cursorY < charSize)) /\ above' \in BOOLEAN
  BY <1>2 DEF TheScreen!Backspace
<1>7. /\ cursorX' \in Nat /\ cursorX' < 8192 /\ cursorY' \in Nat
      /\ ~above' => cursorY' <= HEIGHT + MaxSize /\ Before(cursorX, cursorY)'
  <2>1. CASE cursorX > 0
    <3>. DEFINE left == cursorX - charSize
    <3>1. left \in Int /\ left < 8192 /\ cursorX' = TheScreen!X16(left) /\ cursorY' = cursorY
      BY <1>1, <1>2, <2>1 DEF TheScreen!Backspace
    <3>2. TheScreen!X16(left) \in Nat /\ TheScreen!X16(left) < 8192
      <4>. HIDE DEF left
      <4>. QED  BY <3>1, SixteenBits
    <3>3. CASE left < 0
      <4>1. cursorX' >= WIDTH
        <5>. DEFINE N == 8192
        <5>1. left + N \in 0 .. N - 1 /\ WIDTH <= left + N
          BY <1>1, <1>2, <2>1, <3>3
        <5>2. (left + N) % N = left % N /\ (left + N) % N = left + N
          <6>1. N \in Nat \ {0}
            OBVIOUS
          <6>2. left \in -N .. -1
            BY <1>1, <3>3, <5>1
          <6>. HIDE DEF left, N
          <6>. QED  BY <5>1, <6>1, <6>2
        <5>3. cursorX' = left % N
          BY <3>1 DEF TheScreen!X16
        <5>. QED
          <6>. HIDE DEF left, N
          <6>. QED  BY <5>1, <5>2, <5>3
      <4>2. \A c \in inked' : c[2] < cursorY' \/ (c[2] < cursorY' + charSize /\ c[1] < cursorX')
        <5>1. \A c \in inked : c[2] < cursorY + charSize
          BY <1>1, <1>3, <1>4 DEF Before
        <5>2. \A c \in inked : c[2] < cursorY + charSize /\ c[1] < cursorX'
          BY <1>1, <1>4, <3>1, <3>2, <4>1, <5>1
        <5>. QED  BY <1>5, <3>1, <5>2
      <4>. HIDE DEF left
      <4>. QED  BY <1>1, <1>2, <1>3, <3>1, <3>2, <4>2 DEF Before
    <3>4. CASE left >= 0
      <4>1. cursorX' = left /\ left \in Nat
        <5>. HIDE DEF left
        <5>. QED  BY <3>1, <3>4, SixteenBits
      <4>2. \A c \in inked' : c[2] < cursorY' \/ (c[2] < cursorY' + charSize /\ c[1] < cursorX')
        <5>. SUFFICES ASSUME NEW c \in inked', c[2] >= cursorY
                      PROVE  c[2] < cursorY + charSize /\ c[1] < left
          BY <1>1, <1>4, <1>5, <3>1, <4>1
        <5>1. c \in inked /\ c[2] < cursorY + charSize /\ c[1] < cursorX
          BY <1>1, <1>3, <1>4, <1>5 DEF Before
        <5>2. c[1] < left
          <6>. SUFFICES ASSUME c[1] >= left PROVE FALSE
            BY <1>1, <1>4, <5>1
          <6>1. c[1] < left + charSize
            BY <1>1, <1>4, <5>1
          <6>. HIDE DEF left
          <6>2. c \in TheScreen!Covered(left, cursorY)
            BY <1>1, <1>4, <4>1, <5>1, <6>1, CoveredSquare
          <6>. QED  BY <1>5, <3>1, <4>1, <6>2
        <5>. QED  BY <5>1, <5>2
      <4>. HIDE DEF left
      <4>. QED  BY <1>1, <1>2, <1>3, <3>1, <3>2, <4>2 DEF Before
    <3>. QED
      <4>1. left < 0 \/ left >= 0
        BY <3>1
      <4>. QED  BY <3>3, <3>4, <4>1
  <2>2. CASE cursorX = 0
    <3>. DEFINE up == cursorY - charSize
    <3>1. /\ up \in Int /\ up < 4096 /\ cursorX' = TheScreen!Limit
          /\ cursorY' = TheScreen!Y16(up)
      BY <1>1, <1>3, <2>2, ScreenConstants DEF TheScreen!Backspace, ScreenHolds
    <3>2. /\ TheScreen!Limit \in Nat \ {0}
          /\ TheScreen!Limit <= WIDTH /\ WIDTH < TheScreen!Limit + charSize
      BY FullRow
    <3>3. cursorX' \in Nat /\ cursorX' < 8192
      BY <1>1, <3>1, <3>2
    <3>4. cursorY' \in Nat /\ (up >= 0 => cursorY' = up)
      <4>. HIDE DEF up
      <4>. QED  BY <3>1, SixteenBits
    <3>5. ASSUME up >= 0
          PROVE  \A c \in inked' : c[2] < cursorY' \/ (c[2] < cursorY' + charSize /\ c[1] < cursorX')
      <4>. SUFFICES ASSUME NEW c \in inked', c[2] >= up
                    PROVE  c[2] < up + charSize /\ c[1] < TheScreen!Limit
        BY <1>1, <1>4, <1>5, <3>1, <3>4, <3>5
      <4>1. c \in inked /\ c[2] < up + charSize
        BY <1>1, <1>3, <1>4, <1>5, <2>2 DEF Before
      <4>2. c[1] < TheScreen!Limit
        <5>. SUFFICES ASSUME c[1] >= TheScreen!Limit PROVE FALSE
          BY <1>1, <1>4, <3>2, <4>1
        <5>1. c[1] < TheScreen!Limit + charSize
          BY <1>1, <1>4, <3>2, <4>1
        <5>. HIDE DEF up
        <5>2. c \in TheScreen!Covered(TheScreen!Limit, up)
          BY <1>1, <1>4, <3>1, <3>2, <3>5, <4>1, <5>1, CoveredSquare
        <5>. QED  BY <1>5, <3>1, <3>4, <3>5, <5>2
      <4>. QED  BY <4>1, <4>2
    <3>6. ~above' => up >= 0
      <4>1. ~above' => ~(cursorY < charSize)
        BY <1>6, <2>2
      <4>2. ~(cursorY < charSize) => up >= 0
        BY <1>1
      <4>. QED  BY <4>1, <4>2
    <3>7. up >= 0 => up <= HEIGHT + MaxSize
      BY <1>1, <1>3
    <3>. HIDE DEF up
    <3>. QED  BY <1>2, <3>3, <3>4, <3>5, <3>6, <3>7 DEF Before
  <2>. QED  BY <1>1, <2>1, <2>2
<1>8. inked' \subseteq TheScreen!Cells' /\ charSize' \in 1 .. MaxSize
  BY <1>1, <1>2, <1>5 DEF TheScreen!Cells
<1>. QED  BY <1>6, <1>7, <1>8 DEF ScreenInv

(* Other sizes change no row already drawn.                                *)
LEMMA ResizeKeeps ==
  ASSUME ScreenHolds, ScreenInv,
         TheScreen!IncrementSize \/ TheScreen!DecrementSize \/ TheScreen!SysClear
  PROVE  ScreenInv'
<1>1. /\ WIDTH \in Nat \ {0} /\ HEIGHT \in Nat \ {0} /\ MaxSize \in Nat \ {0}
      /\ charSize \in Nat \ {0} /\ charSize <= MaxSize
      /\ cursorY \in Nat /\ cursorX \in Nat /\ cursorX < 8192
      /\ inked \subseteq TheScreen!Cells /\ above \in BOOLEAN
      /\ HEIGHT + 2 * MaxSize < 4096
      /\ ~above => cursorY <= HEIGHT + MaxSize /\ Before(cursorX, cursorY)
  BY ScreenConstants DEF ScreenInv, ScreenHolds
<1>2. \A c \in inked : c[1] \in Nat /\ c[2] \in Nat
  BY <1>1 DEF TheScreen!Cells
<1>3. TheScreen!Cells' = TheScreen!Cells
  BY DEF TheScreen!Cells
<1>4. CASE TheScreen!SysClear
  <2>1. /\ cursorX' = 0 /\ cursorY' = 0 /\ inked' = {} /\ charSize' = charSize
        /\ above' = FALSE
    BY <1>4 DEF TheScreen!SysClear, TheScreen!Clear
  <2>2. Before(cursorX, cursorY)'
    BY <2>1 DEF Before
  <2>3. /\ cursorX' \in Nat /\ cursorX' < 8192 /\ cursorY' \in Nat
        /\ cursorY' <= HEIGHT + MaxSize /\ charSize' \in 1 .. MaxSize
    BY <1>1, <2>1
  <2>4. inked' \subseteq TheScreen!Cells' /\ above' \in BOOLEAN
    BY <2>1
  <2>. QED  BY <2>2, <2>3, <2>4 DEF ScreenInv
<1>5. CASE TheScreen!IncrementSize
  <2>1. charSize' = charSize + 1 /\ charSize' \in 1 .. MaxSize
        /\ UNCHANGED <<cursorX, cursorY, inked, above>>
    BY <1>1, <1>5 DEF TheScreen!IncrementSize
  <2>2. ~above => Before(cursorX, cursorY)'
    BY <1>1, <1>2, <2>1 DEF Before
  <2>. QED  BY <1>1, <1>3, <2>1, <2>2 DEF ScreenInv
<1>6. CASE TheScreen!DecrementSize
  <2>. DEFINE below == cursorY + charSize
  <2>1. /\ cursorY <= HEIGHT /\ charSize > 1 /\ charSize' = charSize - 1
        /\ cursorX' = 0 /\ cursorY' = TheScreen!Y16(below) /\ UNCHANGED <<inked, above>>
    BY <1>6 DEF TheScreen!DecrementSize, TheScreen!NextRow
  <2>2. below \in Nat /\ below < 4096 /\ below <= HEIGHT + MaxSize
    BY <1>1, <2>1
  <2>3. cursorY' = below
    <3>. HIDE DEF below
    <3>. QED  BY <2>1, <2>2, SixteenBits
  <2>4. ~above => Before(cursorX, cursorY)'
    BY <1>1, <1>2, <2>1, <2>3 DEF Before
  <2>5. charSize' \in 1 .. MaxSize /\ cursorY' \in Nat /\ cursorY' <= HEIGHT + MaxSize
    BY <1>1, <2>1, <2>2, <2>3
  <2>. QED  BY <1>1, <1>3, <2>1, <2>4, <2>5 DEF ScreenInv
<1>. QED  BY <1>4, <1>5, <1>6

(* Nothing is drawn over anything: what is printed goes where the cursor   *)
(* is, and everything that is on the screen lies before it, also after     *)
(* backspaces over the end of a row and with letters of all sizes.  It     *)
(* asks that the largest letter fits on the screen, and the screen in      *)
(* sixteen bits.                                                           *)
THEOREM OverprintsNothingHolds ==
  ASSUME ScreenHolds
  PROVE  Spec => OverprintsNothing
<1>1. Init => ScreenInv
  <2>. SUFFICES ASSUME Init PROVE ScreenInv
    OBVIOUS
  <2>1. cursorX = 0 /\ cursorY = 0 /\ charSize = 1 /\ inked = {} /\ above = FALSE
    BY DEF Init, TheScreen!Init
  <2>2. HEIGHT \in Nat /\ MaxSize \in Nat \ {0}
    BY ScreenConstants
  <2>3. /\ cursorX \in Nat /\ cursorX < 8192 /\ cursorY \in Nat
        /\ cursorY <= HEIGHT + MaxSize /\ charSize \in 1 .. MaxSize
    BY <2>1, <2>2
  <2>4. Before(cursorX, cursorY) /\ inked \subseteq TheScreen!Cells /\ above \in BOOLEAN
    BY <2>1 DEF Before
  <2>. QED  BY <2>3, <2>4 DEF ScreenInv
<1>2. ScreenInv /\ [Next]_vars
        => ScreenInv' /\ [(TheScreen!DrawChar \/ TheScreen!NewLine) /\ ~above /\ cursorX' <= WIDTH
                            => \/ TheScreen!Covered(cursorX' - charSize, cursorY') \cap inked = {}
                               \/ cursorY' = 0 /\ cursorY > 0]_(TheScreen!vars)
  <2>. SUFFICES ASSUME ScreenInv, [Next]_vars
                PROVE  ScreenInv' /\ [(TheScreen!DrawChar \/ TheScreen!NewLine) /\ ~above
                                        /\ cursorX' <= WIDTH
                            => \/ TheScreen!Covered(cursorX' - charSize, cursorY') \cap inked = {}
                               \/ cursorY' = 0 /\ cursorY > 0]_(TheScreen!vars)
    OBVIOUS
  <2>1. TheScreen!Next \/ UNCHANGED screenVars
    BY DEF Next, Moves, vars
  <2>2. CASE UNCHANGED screenVars
    BY <2>2 DEF screenVars, ScreenInv, Before, TheScreen!Cells, TheScreen!vars
  <2>3. CASE TheScreen!DrawChar \/ TheScreen!NewLine
    BY <2>3, DrawsKeep
  <2>4. CASE TheScreen!Backspace /\ ~(TheScreen!DrawChar \/ TheScreen!NewLine)
    BY <2>4, BackspaceKeeps
  <2>5. CASE /\ TheScreen!IncrementSize \/ TheScreen!DecrementSize \/ TheScreen!SysClear
             /\ ~(TheScreen!DrawChar \/ TheScreen!NewLine)
    BY <2>5, ResizeKeeps
  <2>. QED  BY <2>1, <2>2, <2>3, <2>4, <2>5 DEF TheScreen!Next
<1>. HIDE DEF ScreenInv, Init, Next, vars, Fairness
<1>. QED  BY <1>1, <1>2, PTL DEF Spec, OverprintsNothing, TheScreen!OverprintsNothing

-----------------------------------------------------------------------------
(* The timer.                                                              *)
Range32 == 2 * Half
(* The count of ms after n ticks that nobody had to keep modulo anything.  *)
MsAfter(n) == (n * MsNum) \div MsDen

LEMMA TimerConstants ==
  /\ MsNum \in Nat \ {0} /\ MsDen \in Nat \ {0} /\ Half \in Nat \ {0} /\ MsNum > MsDen
  /\ MaxLate \in Nat \ {0} /\ Delays \subseteq Nat
  /\ \A d \in Delays : d * MsDen <= MaxLate * MsNum
  /\ (MaxLate + 3) * MsNum < 2 * Half * MsDen
BY PartsAssumption DEF TheTimer!TimerAssumption

LEMMA PeriodIs ==
  /\ Range32 \in Nat \ {0} /\ TheTimer!Period \in Nat \ {0}
  /\ TheTimer!Period = MsDen * Range32 /\ MaxLate < TheTimer!Period
<1>1. /\ MsNum \in Nat \ {0} /\ MsDen \in Nat \ {0} /\ Half \in Nat \ {0}
      /\ MaxLate \in Nat /\ (MaxLate + 3) * MsNum < 2 * Half * MsDen
  BY TimerConstants
<1>. DEFINE R == 2 * Half
            m == MaxLate + 3
<1>2. R \in Nat \ {0} /\ m \in Nat /\ m * MsNum < R * MsDen /\ m > MaxLate
  BY <1>1
<1>3. TheTimer!Period = MsDen * R
  BY <1>1 DEF TheTimer!Period
<1>. HIDE DEF R, m
<1>4. MsDen * R \in Nat \ {0} /\ R * MsDen = MsDen * R /\ m * MsNum >= m
  BY <1>1, <1>2
<1>5. MsDen * R > MaxLate
  <2>. DEFINE x == MsDen * R
              y == m * MsNum
  <2>1. x \in Nat /\ y \in Nat /\ y < x /\ y >= m
    BY <1>1, <1>2, <1>4
  <2>. HIDE DEF x, y
  <2>2. x > MaxLate
    BY <1>1, <1>2, <2>1
  <2>. QED  BY <2>2 DEF x
<1>6. R = Range32
  BY DEF R, Range32
<1>. QED  BY <1>2, <1>3, <1>4, <1>5, <1>6

(* The int that is read: the same modulo its range, and between the least  *)
(* and the largest.                                                        *)
LEMMA AsIntFacts ==
  ASSUME NEW n \in Int
  PROVE  /\ \E k \in Int : TheTimer!AsInt(n) = n + Range32 * k
         /\ \A k \in Int : TheTimer!AsInt(n + Range32 * k) = TheTimer!AsInt(n)
         /\ 0 <= n /\ n < Range32 => TheTimer!AsInt(n) = IF n < Half THEN n ELSE n - Range32
<1>1. Half \in Nat \ {0} /\ Range32 \in Nat \ {0} /\ Range32 = 2 * Half
  BY TimerConstants, PeriodIs DEF Range32
<1>2. \A x : TheTimer!AsInt(x) = ((x + Half) % Range32) - Half
  BY DEF TheTimer!AsInt, Range32
<1>. DEFINE m == n + Half
            q == m \div Range32
            r == m % Range32
<1>3. m \in Int /\ q \in Int /\ r \in 0 .. Range32 - 1 /\ m = Range32 * q + r
  <2>1. m \in Int
    BY <1>1
  <2>. HIDE DEF m
  <2>. QED  BY <1>1, <2>1, Quotient
<1>4. TheTimer!AsInt(n) = r - Half
  BY <1>2
<1>5. \E k \in Int : TheTimer!AsInt(n) = n + Range32 * k
  <2>1. Range32 * q \in Int /\ Range32 * (-q) = -(Range32 * q) /\ -q \in Int
    <3>. HIDE DEF q
    <3>. QED  BY <1>1, <1>3
  <2>2. r - Half = n + Range32 * (-q)
    <3>. DEFINE y == Range32 * q
                z == Range32 * (-q)
    <3>1. y \in Int /\ z = -y /\ n + Half = y + r
      BY <1>3, <2>1
    <3>. HIDE DEF y, z, r, q
    <3>2. r - Half = n + z
      BY <1>1, <1>3, <3>1
    <3>. QED  BY <3>2 DEF z
  <2>. QED  BY <1>4, <2>1, <2>2
<1>6. ASSUME NEW k \in Int PROVE TheTimer!AsInt(n + Range32 * k) = TheTimer!AsInt(n)
  <2>. DEFINE z == Range32 * k
  <2>1. z \in Int /\ (n + z) + Half = m + z
    BY <1>1
  <2>2. (m + Range32 * k) % Range32 = r
    <3>. HIDE DEF m
    <3>. QED  BY <1>1, <1>3, Shifted
  <2>3. ((n + z) + Half) % Range32 = r
    <3>. HIDE DEF m, r
    <3>. QED  BY <2>1, <2>2 DEF z
  <2>. HIDE DEF r, m
  <2>. QED  BY <1>2, <1>4, <2>3 DEF z
<1>7. ASSUME 0 <= n, n < Range32
      PROVE  TheTimer!AsInt(n) = IF n < Half THEN n ELSE n - Range32
  <2>1. CASE n < Half
    <3>1. m % Range32 = m
      <4>1. 0 <= m /\ m < Range32
        BY <1>1, <1>7, <2>1
      <4>. HIDE DEF m
      <4>. QED  BY <1>1, <1>3, <4>1, Remainder
    <3>. QED  BY <1>1, <1>4, <2>1, <3>1
  <2>2. CASE ~(n < Half)
    <3>. DEFINE l == n - Half
    <3>1. l \in 0 .. Range32 - 1 /\ m = l + Range32
      BY <1>1, <1>7, <2>2
    <3>2. m % Range32 = l
      <4>1. l \in Int /\ l % Range32 = l
        <5>1. l \in Int /\ 0 <= l /\ l < Range32
          BY <1>1, <1>7, <2>2
        <5>. HIDE DEF l
        <5>. QED  BY <1>1, <5>1, Remainder
      <4>2. \A k \in Int : (l + Range32 * k) % Range32 = l % Range32
        <5>. HIDE DEF l
        <5>. QED  BY <1>1, <4>1, Shifted
      <4>3. m = l + Range32 * 1
        <5>. HIDE DEF m, l
        <5>. QED  BY <1>1, <3>1, <4>1
      <4>. HIDE DEF m, l, r, q
      <4>. QED  BY <4>1, <4>2, <4>3
    <3>. QED  BY <1>1, <1>4, <2>2, <3>2
  <2>. QED  BY <2>1, <2>2
<1>. QED  BY <1>5, <1>6, <1>7

(* What passes in s ticks: the s ticks' ms, to less than one either way.   *)
LEMMA MsPassed ==
  ASSUME NEW t \in Nat, NEW s \in Nat
  PROVE  /\ MsAfter(t) \in Int /\ MsAfter(t + s) \in Int
         /\ MsAfter(t + s) - MsAfter(t) >= 0
         /\ (MsAfter(t + s) - MsAfter(t) - 1) * MsDen < s * MsNum
         /\ (MsAfter(t + s) - MsAfter(t) + 1) * MsDen > s * MsNum
<1>1. MsNum \in Nat \ {0} /\ MsDen \in Nat \ {0}
  BY TimerConstants
<1>. DEFINE x == t * MsNum
            y == s * MsNum
            z == (t + s) * MsNum
            a == x \div MsDen
            b == z \div MsDen
            u == MsDen * a
            v == MsDen * b
<1>2. x \in Nat /\ y \in Nat /\ z = x + y /\ z \in Nat
  BY <1>1
<1>3. a \in Int /\ b \in Int /\ MsAfter(t) = a /\ MsAfter(t + s) = b
  <2>. HIDE DEF x, z
  <2>1. x \div MsDen \in Int /\ z \div MsDen \in Int
    BY <1>1, <1>2, Quotient
  <2>. QED  BY <2>1 DEF MsAfter, x, z
<1>4. u \in Int /\ u <= x /\ x < u + MsDen
  <2>1. x = MsDen * (x \div MsDen) + (x % MsDen) /\ x % MsDen \in 0 .. MsDen - 1
    <3>. HIDE DEF x
    <3>. QED  BY <1>1, <1>2, Quotient
  <2>2. u \in Int
    <3>. HIDE DEF a
    <3>. QED  BY <1>1, <1>3
  <2>. DEFINE r == x % MsDen
  <2>3. x = u + r /\ r \in 0 .. MsDen - 1
    BY <2>1
  <2>. HIDE DEF u, r, x
  <2>. QED  BY <1>1, <1>2, <2>2, <2>3
<1>5. v \in Int /\ v <= z /\ z < v + MsDen
  <2>1. z = MsDen * (z \div MsDen) + (z % MsDen) /\ z % MsDen \in 0 .. MsDen - 1
    <3>. HIDE DEF z
    <3>. QED  BY <1>1, <1>2, Quotient
  <2>2. v \in Int
    <3>. HIDE DEF b
    <3>. QED  BY <1>1, <1>3
  <2>. DEFINE r == z % MsDen
  <2>3. z = v + r /\ r \in 0 .. MsDen - 1
    BY <2>1
  <2>. HIDE DEF v, r, z
  <2>. QED  BY <1>1, <1>2, <2>2, <2>3
<1>6. (b - a - 1) * MsDen = v - u - MsDen /\ (b - a + 1) * MsDen = v - u + MsDen
  <2>. HIDE DEF a, b
  <2>. QED  BY <1>1, <1>3
<1>7. (b - a - 1) * MsDen < y /\ (b - a + 1) * MsDen > y
  <2>. DEFINE lo == (b - a - 1) * MsDen
              hi == (b - a + 1) * MsDen
  <2>1. lo = v - u - MsDen /\ hi = v - u + MsDen
    BY <1>6
  <2>. HIDE DEF lo, hi, v, u, x, y, z
  <2>2. lo < y /\ hi > y
    BY <1>1, <1>2, <1>4, <1>5, <2>1
  <2>. QED  BY <2>2 DEF lo, hi
<1>8. b - a >= 0
  <2>. DEFINE n == b - a + 1
  <2>1. n \in Int /\ n * MsDen > y
    BY <1>3, <1>7
  <2>2. ASSUME n <= 0 PROVE FALSE
    <3>. HIDE DEF n, y
    <3>1. n * MsDen <= 0
      BY <1>1, <2>1, <2>2
    <3>. QED  BY <1>1, <1>2, <2>1, <3>1
  <2>. HIDE DEF n, a, b
  <2>. QED  BY <1>3, <2>1, <2>2 DEF n
<1>. QED
  <2>. HIDE DEF a, b
  <2>. QED  BY <1>3, <1>7, <1>8 DEF y

(* The same of what the int tells, from when the counter stood at t to s   *)
(* ticks later, also when the counter or the int went round meanwhile.     *)
LEMMA IntPassed ==
  ASSUME NEW t \in 0 .. TheTimer!Period - 1, NEW s \in 0 .. MaxLate,
         ticks = (t + s) % TheTimer!Period,
         NEW begun, begun = TheTimer!AsInt(MsAfter(t))
  PROVE  \E d \in Nat :
           /\ d < Range32 /\ (d - 1) * MsDen < s * MsNum /\ (d + 1) * MsDen > s * MsNum
           /\ TheTimer!AsInt(TheTimer!ms_elapsed - begun) = IF d < Half THEN d ELSE d - Range32
<1>. DEFINE P == TheTimer!Period
<1>1. /\ MsNum \in Nat \ {0} /\ MsDen \in Nat \ {0} /\ MaxLate \in Nat /\ Half \in Nat \ {0}
      /\ Range32 \in Nat \ {0} /\ Range32 = 2 * Half /\ P \in Nat \ {0}
      /\ P = MsDen * Range32 /\ MaxLate < P
      /\ (MaxLate + 3) * MsNum < 2 * Half * MsDen /\ MsNum > MsDen
  BY TimerConstants, PeriodIs DEF Range32
<1>2. t \in Nat /\ s \in Nat /\ t + s \in Nat /\ t < P /\ s <= MaxLate
  BY <1>1
<1>. DEFINE a == MsAfter(t)
            b == MsAfter(t + s)
            d == b - a
<1>3. /\ a \in Int /\ b \in Int /\ d >= 0
      /\ (d - 1) * MsDen < s * MsNum /\ (d + 1) * MsDen > s * MsNum
  BY <1>2, MsPassed
<1>4. d \in Nat /\ d < Range32
  <2>1. d \in Nat
    <3>. HIDE DEF a, b
    <3>. QED  BY <1>3
  <2>2. ASSUME d >= Range32 PROVE FALSE
    <3>. HIDE DEF d
    <3>. DEFINE x == MaxLate * MsNum
                y == Range32 * MsDen
                z == s * MsNum
    <3>1. x \in Nat /\ y \in Nat /\ z \in Nat /\ z <= x
      BY <1>1, <1>2
    <3>2. (MaxLate + 3) * MsNum = x + 3 * MsNum /\ 2 * Half * MsDen = y
      BY <1>1
    <3>3. (d - 1) * MsDen >= (Range32 - 1) * MsDen
      BY <1>1, <2>1, <2>2
    <3>4. (Range32 - 1) * MsDen = y - MsDen
      BY <1>1
    <3>. DEFINE w == (d - 1) * MsDen
    <3>5. w \in Int /\ w < z /\ w >= y - MsDen /\ x + 3 * MsNum < y
      BY <1>1, <1>3, <2>1, <3>2, <3>3, <3>4
    <3>. HIDE DEF w, x, y, z
    <3>. QED  BY <1>1, <3>1, <3>5
  <2>. QED
    <3>. HIDE DEF d
    <3>. QED  BY <1>1, <2>1, <2>2
<1>5. PICK j \in {0, -1} : ticks = t + s + P * j
  <2>1. CASE t + s < P
    <3>1. (t + s) % P = t + s
      <4>. DEFINE n == t + s
      <4>1. n \in Int /\ 0 <= n /\ n < P
        BY <1>2, <2>1
      <4>. HIDE DEF n
      <4>2. n % P = n
        BY <1>1, <4>1, Remainder
      <4>. QED  BY <4>2 DEF n
    <3>2. P * 0 = 0
      BY <1>1
    <3>. QED  BY <1>2, <3>1, <3>2
  <2>2. CASE ~(t + s < P)
    <3>. DEFINE n == t + s - P
    <3>1. n \in Int /\ 0 <= n /\ n < P
      BY <1>1, <1>2, <2>2
    <3>2. t + s = n + P * 1 /\ P * (-1) = -P
      BY <1>1, <1>2
    <3>3. (n + P * 1) % P = n % P
      <4>. HIDE DEF n, P
      <4>. QED  BY <1>1, <3>1, Shifted
    <3>4. n % P = n
      <4>. HIDE DEF n
      <4>. QED  BY <1>1, <3>1, Remainder
    <3>5. ticks = n
      BY <3>2, <3>3, <3>4
    <3>. QED  BY <1>1, <1>2, <3>2, <3>5
  <2>. QED  BY <2>1, <2>2
<1>6. \E k \in Int : MsAfter(ticks) = b + Range32 * k
  <2>. DEFINE n == (t + s) * MsNum
              k == j * MsNum
              l == Range32 * k
  <2>1. n \in Int /\ k \in Int /\ l \in Int
    <3>1. n \in Int /\ k \in Int
      BY <1>1, <1>2, <1>5
    <3>. HIDE DEF k
    <3>. QED  BY <1>1, <3>1
  <2>2. ticks * MsNum = n + MsDen * l
    <3>1. ticks * MsNum = n + (P * j) * MsNum
      <4>. DEFINE m == t + s
                  o == P * j
      <4>1. m \in Int /\ o \in Int /\ ticks = m + o
        BY <1>1, <1>2, <1>5
      <4>. HIDE DEF m, o
      <4>2. ticks * MsNum = m * MsNum + o * MsNum
        BY <1>1, <4>1
      <4>. QED  BY <4>2 DEF m, o
    <3>2. (P * j) * MsNum = MsDen * l
      BY <1>1, <1>5
    <3>. QED  BY <3>1, <3>2
  <2>3. (n + MsDen * l) \div MsDen = n \div MsDen + l
    <3>. HIDE DEF n, l
    <3>. QED  BY <1>1, <2>1, Shifted
  <2>4. MsAfter(ticks) = b + Range32 * k
    <3>. HIDE DEF n, l
    <3>. QED  BY <2>2, <2>3 DEF MsAfter, n, l
  <2>. QED  BY <2>1, <2>4
<1>7. PICK k \in Int : MsAfter(ticks) = b + Range32 * k
  BY <1>6
<1>8. TheTimer!ms_elapsed = TheTimer!AsInt(b)
  <2>1. TheTimer!ms_elapsed = TheTimer!AsInt(MsAfter(ticks))
    BY DEF TheTimer!ms_elapsed, MsAfter
  <2>2. TheTimer!AsInt(b + Range32 * k) = TheTimer!AsInt(b)
    <3>. HIDE DEF b
    <3>. QED  BY <1>3, AsIntFacts
  <2>. QED  BY <1>7, <2>1, <2>2
<1>9. PICK m \in Int : TheTimer!AsInt(b) = b + Range32 * m
  <2>. HIDE DEF b
  <2>. QED  BY <1>3, AsIntFacts
<1>10. PICK o \in Int : TheTimer!AsInt(a) = a + Range32 * o
  <2>. HIDE DEF a
  <2>. QED  BY <1>3, AsIntFacts
<1>11. TheTimer!ms_elapsed - begun = d + Range32 * (m - o) /\ m - o \in Int
  <2>. HIDE DEF a, b
  <2>1. Range32 * (m - o) = Range32 * m - Range32 * o
    BY <1>1, <1>9, <1>10
  <2>. DEFINE e == Range32 * m
              f == Range32 * o
  <2>2. e \in Int /\ f \in Int /\ Range32 * (m - o) = e - f
    BY <1>1, <1>9, <1>10, <2>1
  <2>3. TheTimer!ms_elapsed = b + e /\ begun = a + f
    BY <1>8, <1>9, <1>10 DEF a
  <2>. HIDE DEF e, f
  <2>. QED  BY <1>3, <1>9, <1>10, <2>2, <2>3
<1>12. TheTimer!AsInt(TheTimer!ms_elapsed - begun) = IF d < Half THEN d ELSE d - Range32
  <2>. HIDE DEF d
  <2>1. TheTimer!AsInt(d + Range32 * (m - o)) = TheTimer!AsInt(d)
    BY <1>4, <1>11, AsIntFacts
  <2>2. TheTimer!AsInt(d) = IF d < Half THEN d ELSE d - Range32
    BY <1>4, AsIntFacts
  <2>. QED  BY <1>11, <2>1, <2>2
<1>. HIDE DEF d
<1>. QED  BY <1>3, <1>4, <1>12

(* Who sleeps has looked at the counter when it stood at some t, and knows *)
(* how many ticks ago that was; who is due is not kept waiting.            *)
Began(p) ==
  \E t \in 0 .. TheTimer!Period - 1 :
    ticks = (t + slept[p]) % TheTimer!Period /\ start[p] = TheTimer!AsInt(MsAfter(t))
Sleeper(p) ==
  /\ ms[p] \in Delays /\ slept[p] \in 0 .. MaxLate
  /\ (phase[p] = "halted" => slept[p] < MaxLate) /\ Began(p)
SleepTyped ==
  /\ ticks \in 0 .. TheTimer!Period - 1
  /\ phase \in [Procs -> {"awake", "halted", "check", "dead"}]
  /\ start \in [Procs -> Int] /\ ms \in [Procs -> Nat] /\ slept \in [Procs -> Nat]
SleepInv ==
  /\ SleepTyped
  /\ \A p \in Procs : phase[p] \in {"halted", "check"} => Sleeper(p)
  /\ TheTimer!Late = {} \/ TheTimer!Halted = {}

LEMMA DueIsLate ==
  ASSUME SleepInv, NEW p \in Procs, phase[p] \in {"halted", "check"}
  PROVE  /\ TheTimer!TooEarly(p) => slept[p] < MaxLate
         /\ (\A d \in Delays : d <= Half) /\ ~TheTimer!TooEarly(p)
              => slept[p] * MsNum >= (ms[p] - 1) * MsDen
<1>1. Sleeper(p)
  BY DEF SleepInv
<1>2. /\ MsNum \in Nat \ {0} /\ MsDen \in Nat \ {0} /\ MaxLate \in Nat /\ Half \in Nat \ {0}
      /\ Range32 = 2 * Half /\ ms[p] \in Nat /\ ms[p] * MsDen <= MaxLate * MsNum
      /\ slept[p] \in 0 .. MaxLate /\ ms[p] \in Delays
  BY <1>1, TimerConstants DEF Range32, Sleeper
<1>3. PICK t \in 0 .. TheTimer!Period - 1 :
        ticks = (t + slept[p]) % TheTimer!Period /\ start[p] = TheTimer!AsInt(MsAfter(t))
  BY <1>1 DEF Sleeper, Began
<1>4. PICK d \in Nat :
        /\ d < Range32 /\ (d - 1) * MsDen < slept[p] * MsNum
        /\ (d + 1) * MsDen > slept[p] * MsNum
        /\ TheTimer!AsInt(TheTimer!ms_elapsed - start[p]) = IF d < Half THEN d ELSE d - Range32
  <2>. DEFINE s == slept[p]
              b == start[p]
  <2>1. /\ s \in 0 .. MaxLate /\ ticks = (t + s) % TheTimer!Period
        /\ b = TheTimer!AsInt(MsAfter(t))
    BY <1>2, <1>3
  <2>. HIDE DEF s, b
  <2>2. \E d \in Nat :
          /\ d < Range32 /\ (d - 1) * MsDen < s * MsNum /\ (d + 1) * MsDen > s * MsNum
          /\ TheTimer!AsInt(TheTimer!ms_elapsed - b) = IF d < Half THEN d ELSE d - Range32
    BY <2>1, IntPassed
  <2>. QED  BY <2>2 DEF s, b
<1>5. TheTimer!TooEarly(p) <=> d < Half /\ d < ms[p]
  <2>1. TheTimer!TooEarly(p)
          <=> (IF d < Half THEN d ELSE d - Range32) \in 0 .. ms[p] - 1
    BY <1>4 DEF TheTimer!TooEarly
  <2>2. (IF d < Half THEN d ELSE d - Range32) \in 0 .. ms[p] - 1
          <=> d < Half /\ d < ms[p]
    BY <1>2, <1>4
  <2>. QED  BY <2>1, <2>2
<1>6. ASSUME d < ms[p], slept[p] = MaxLate PROVE FALSE
  <2>1. (d + 1) * MsDen <= ms[p] * MsDen
    BY <1>2, <1>4, <1>6
  <2>. DEFINE x == (d + 1) * MsDen
              y == ms[p] * MsDen
              z == MaxLate * MsNum
  <2>2. x \in Nat /\ y \in Nat /\ z \in Nat /\ x <= y /\ y <= z /\ x > z
    BY <1>2, <1>4, <1>6, <2>1
  <2>. HIDE DEF x, y, z
  <2>. QED  BY <2>2
<1>7. ASSUME \A e \in Delays : e <= Half, ~(d < Half /\ d < ms[p])
      PROVE  slept[p] * MsNum >= (ms[p] - 1) * MsDen
  <2>1. ms[p] <= Half
    BY <1>2, <1>7
  <2>2. d >= ms[p]
    BY <1>2, <1>4, <1>7, <2>1
  <2>3. (d - 1) * MsDen >= (ms[p] - 1) * MsDen
    BY <1>2, <1>4, <2>2
  <2>. DEFINE x == (d - 1) * MsDen
              y == (ms[p] - 1) * MsDen
              z == slept[p] * MsNum
  <2>4. x \in Int /\ y \in Int /\ z \in Int /\ x >= y /\ x < z
    BY <1>2, <1>4, <2>3
  <2>. HIDE DEF x, y, z
  <2>5. z >= y
    BY <2>4
  <2>. QED  BY <2>5 DEF y, z
<1>. QED
  <2>1. TheTimer!TooEarly(p) => slept[p] < MaxLate
    <3>1. TheTimer!TooEarly(p) => slept[p] # MaxLate
      BY <1>5, <1>6
    <3>2. slept[p] # MaxLate => slept[p] < MaxLate
      BY <1>2
    <3>. QED  BY <3>1, <3>2
  <2>2. (\A e \in Delays : e <= Half) /\ ~TheTimer!TooEarly(p)
          => slept[p] * MsNum >= (ms[p] - 1) * MsDen
    BY <1>5, <1>7
  <2>. QED  BY <2>1, <2>2

(* A step in which the counter stands still, for those whose sleep goes on.*)
LEMMA StillKeeps ==
  ASSUME SleepInv, UNCHANGED <<ticks, slept, start, ms>>,
         phase' \in [Procs -> {"awake", "halted", "check", "dead"}],
         \A p \in Procs : phase'[p] \in {"halted", "check"} => phase[p] \in {"halted", "check"},
         \A p \in Procs : phase'[p] = "halted" => slept[p] < MaxLate,
         \/ \A p \in Procs : phase'[p] # "halted"
         \/ \A p \in Procs : phase'[p] = "check" => slept[p] < MaxLate
  PROVE  SleepInv'
<1>1. SleepTyped'
  BY DEF SleepInv, SleepTyped, TheTimer!Period
<1>2. ASSUME NEW p \in Procs, phase'[p] \in {"halted", "check"}
      PROVE  Sleeper(p)'
  <2>1. Sleeper(p)
    BY <1>2 DEF SleepInv
  <2>2. Began(p)'
    BY <2>1 DEF Sleeper, Began, TheTimer!Period, TheTimer!AsInt, MsAfter
  <2>. QED  BY <1>2, <2>1, <2>2 DEF Sleeper
<1>3. (TheTimer!Late = {} \/ TheTimer!Halted = {})'
  <2>1. slept \in [Procs -> Nat] /\ MaxLate \in Nat
    BY TimerConstants DEF SleepInv, SleepTyped
  <2>2. CASE \A p \in Procs : phase'[p] # "halted"
    BY <2>2 DEF TheTimer!Halted
  <2>3. CASE \A p \in Procs : phase'[p] = "check" => slept[p] < MaxLate
    <3>1. \A p \in Procs : phase'[p] = "check" => ~(slept'[p] >= MaxLate)
      BY <2>1, <2>3
    <3>. QED  BY <3>1 DEF TheTimer!Late
  <2>. QED  BY <2>2, <2>3
<1>. QED  BY <1>1, <1>2, <1>3 DEF SleepInv

(* A tick is one more for everybody that sleeps.                           *)
LEMMA CountKeeps ==
  ASSUME SleepInv, TheTimer!Count, TheTimer!Late = {}, UNCHANGED <<start, ms>>,
         phase' \in [Procs -> {"awake", "halted", "check", "dead"}],
         \A p \in Procs : phase'[p] \in {"halted", "check"}
                            => phase'[p] = "check" /\ phase[p] \in {"halted", "check"}
  PROVE  SleepInv'
<1>. DEFINE P == TheTimer!Period
<1>1. P \in Nat \ {0} /\ MaxLate \in Nat
  BY PeriodIs, TimerConstants
<1>2. /\ ticks \in 0 .. P - 1 /\ ticks' = (ticks + 1) % P
      /\ slept \in [Procs -> Nat]
      /\ slept' = [p \in Procs |-> IF phase[p] \in {"awake", "dead"} THEN 0
                                   ELSE IF slept[p] < MaxLate + 3 THEN slept[p] + 1
                                   ELSE slept[p]]
  BY DEF SleepInv, SleepTyped, TheTimer!Count
<1>3. SleepTyped'
  <2>1. ticks' \in 0 .. P - 1
    <3>. DEFINE n == ticks + 1
    <3>1. n \in Int
      BY <1>1, <1>2
    <3>2. n % P \in 0 .. P - 1
      <4>. HIDE DEF n, P
      <4>. QED  BY <1>1, <3>1, Quotient
    <3>. QED  BY <1>2, <3>2
  <2>2. slept' \in [Procs -> Nat]
    BY <1>2
  <2>3. P' = P
    BY DEF TheTimer!Period
  <2>. HIDE DEF P
  <2>4. start' \in [Procs -> Int] /\ ms' \in [Procs -> Nat]
    BY DEF SleepInv, SleepTyped
  <2>. QED  BY <2>1, <2>2, <2>3, <2>4 DEF SleepTyped, P
<1>4. ASSUME NEW p \in Procs, phase'[p] \in {"halted", "check"}
      PROVE  Sleeper(p)'
  <2>1. phase'[p] = "check" /\ phase[p] \in {"halted", "check"} /\ Sleeper(p)
    BY <1>4 DEF SleepInv
  <2>2. slept[p] \in 0 .. MaxLate /\ slept[p] < MaxLate
    <3>1. slept[p] \in 0 .. MaxLate /\ (phase[p] = "halted" => slept[p] < MaxLate)
      BY <2>1 DEF Sleeper
    <3>2. phase[p] = "check" => ~(slept[p] >= MaxLate)
      BY DEF TheTimer!Late
    <3>3. ~(slept[p] >= MaxLate) => slept[p] < MaxLate
      BY <1>1, <3>1
    <3>. QED  BY <2>1, <3>1, <3>2, <3>3
  <2>3. slept'[p] = slept[p] + 1
    BY <1>1, <1>2, <2>1, <2>2
  <2>4. Began(p)'
    <3>1. PICK t \in 0 .. P - 1 :
            ticks = (t + slept[p]) % P /\ start[p] = TheTimer!AsInt(MsAfter(t))
      BY <2>1 DEF Sleeper, Began
    <3>. DEFINE n == t + slept[p]
                m == t + slept'[p]
    <3>2. n \in Int /\ m = n + 1 /\ t \in Nat
      BY <1>1, <1>2, <2>3
    <3>3. (n + 1) % P = ((n % P) + 1) % P
      <4>. DEFINE q == n \div P
                  r == n % P
                  w == r + 1
      <4>1. q \in Int /\ r \in 0 .. P - 1 /\ n = P * q + r
        <5>. HIDE DEF n, P
        <5>. QED  BY <1>1, <3>2, Quotient
      <4>2. w \in Int /\ n + 1 = w + P * q
        <5>. DEFINE o == P * q
        <5>1. o \in Int /\ n = o + r
          <6>. HIDE DEF q, r, P, n
          <6>. QED  BY <1>1, <4>1
        <5>. HIDE DEF o, r, n, P
        <5>2. r + 1 \in Int /\ n + 1 = r + 1 + o
          BY <1>1, <3>2, <4>1, <5>1
        <5>. QED  BY <5>2 DEF o
      <4>3. (w + P * q) % P = w % P
        <5>. HIDE DEF w, q, P
        <5>. QED  BY <1>1, <4>1, <4>2, Shifted
      <4>. QED  BY <4>2, <4>3
    <3>4. ticks' = m % P
      <4>1. ticks' = ((n % P) + 1) % P
        BY <1>2, <3>1
      <4>. HIDE DEF m, n, P
      <4>. QED  BY <3>2, <3>3, <4>1
    <3>5. start'[p] = TheTimer!AsInt(MsAfter(t))
      BY <3>1
    <3>6. P' = P
      BY DEF TheTimer!Period
    <3>7. \E u \in 0 .. P' - 1 :
            ticks' = (u + slept'[p]) % P' /\ start'[p] = TheTimer!AsInt(MsAfter(u))
      BY <3>4, <3>5, <3>6
    <3>. QED  BY <3>7 DEF Began, TheTimer!Period, TheTimer!AsInt, MsAfter
  <2>5. ms'[p] \in Delays
    BY <2>1 DEF Sleeper
  <2>6. slept'[p] \in 0 .. MaxLate
    BY <1>1, <2>2, <2>3
  <2>. QED  BY <2>1, <2>4, <2>5, <2>6 DEF Sleeper
<1>5. TheTimer!Halted' = {}
  BY DEF TheTimer!Halted
<1>. QED  BY <1>3, <1>4, <1>5 DEF SleepInv

(* Going to sleep: the counter is read, and nobody else is halted or late. *)
LEMMA EnterKeeps ==
  ASSUME SleepInv, NEW p \in Procs, NEW delay \in Delays, TheTimer!EnterSleep(p, delay)
  PROVE  SleepInv'
<1>. DEFINE P == TheTimer!Period
<1>1. P \in Nat \ {0} /\ MaxLate \in Nat \ {0} /\ MsNum \in Nat \ {0} /\ MsDen \in Nat \ {0}
      /\ Delays \subseteq Nat /\ delay * MsDen <= MaxLate * MsNum
  BY PeriodIs, TimerConstants
<1>2. 0 < MaxLate
  BY <1>1
<1>3. /\ phase[p] = "awake" /\ TheTimer!Halted = {} /\ TheTimer!Late = {}
      /\ phase' = [phase EXCEPT ![p] = "halted"]
      /\ start' = [start EXCEPT ![p] = TheTimer!ms_elapsed] /\ ms' = [ms EXCEPT ![p] = delay]
      /\ slept' = [slept EXCEPT ![p] = 0] /\ ticks' = ticks
  BY DEF TheTimer!EnterSleep
<1>4. SleepTyped
  BY DEF SleepInv
<1>5. ticks \in 0 .. P - 1 /\ TheTimer!ms_elapsed = TheTimer!AsInt(MsAfter(ticks))
  BY <1>4 DEF SleepTyped, TheTimer!ms_elapsed, MsAfter
<1>6. TheTimer!ms_elapsed \in Int
  <2>1. ticks * MsNum \in Int /\ MsAfter(ticks) \in Int
    <3>. DEFINE x == ticks * MsNum
    <3>1. x \in Int
      BY <1>1, <1>5
    <3>2. x \div MsDen \in Int
      <4>. HIDE DEF x
      <4>. QED  BY <1>1, <3>1, Quotient
    <3>. QED  BY <3>1, <3>2 DEF MsAfter
  <2>2. PICK k \in Int : TheTimer!AsInt(MsAfter(ticks)) = MsAfter(ticks) + Range32 * k
    BY <2>1, AsIntFacts
  <2>. QED  BY <1>5, <2>1, <2>2, PeriodIs
<1>7. SleepTyped'
  <2>1. P' = P
    BY DEF TheTimer!Period
  <2>2. /\ phase' \in [Procs -> {"awake", "halted", "check", "dead"}]
        /\ start' \in [Procs -> Int] /\ ms' \in [Procs -> Nat] /\ slept' \in [Procs -> Nat]
    BY <1>1, <1>3, <1>4, <1>6 DEF SleepTyped
  <2>. HIDE DEF P
  <2>3. ticks' \in 0 .. P - 1
    BY <1>3, <1>5
  <2>. QED  BY <2>1, <2>2, <2>3 DEF SleepTyped, P
<1>8. Sleeper(p)'
  <2>1. /\ ms'[p] = delay /\ slept'[p] = 0 /\ start'[p] = TheTimer!ms_elapsed
    BY <1>3, <1>4 DEF SleepTyped
  <2>2. ticks' = (ticks + 0) % P
    <3>1. ticks \in Int /\ 0 <= ticks /\ ticks < P /\ ticks + 0 = ticks
      BY <1>1, <1>5
    <3>2. ticks % P = ticks
      <4>. HIDE DEF P
      <4>. QED  BY <1>1, <3>1, Remainder
    <3>. QED  BY <1>3, <3>1, <3>2
  <2>3. P' = P
    BY DEF TheTimer!Period
  <2>4. \E u \in 0 .. P' - 1 :
          ticks' = (u + slept'[p]) % P' /\ start'[p] = TheTimer!AsInt(MsAfter(u))
    <3>1. ticks \in 0 .. P' - 1
      BY <1>5, <2>3
    <3>. QED  BY <1>5, <2>1, <2>2, <2>3, <3>1
  <2>5. Began(p)'
    BY <2>4 DEF Began, TheTimer!Period, TheTimer!AsInt, MsAfter
  <2>. QED  BY <1>1, <1>2, <2>1, <2>5 DEF Sleeper
<1>9. ASSUME NEW q \in Procs, q # p, phase'[q] \in {"halted", "check"} PROVE Sleeper(q)'
  <2>1. /\ phase'[q] = phase[q] /\ start'[q] = start[q] /\ ms'[q] = ms[q]
        /\ slept'[q] = slept[q]
    BY <1>3, <1>4, <1>9 DEF SleepTyped
  <2>2. Sleeper(q)
    BY <1>9, <2>1 DEF SleepInv
  <2>3. Began(q)'
    BY <1>3, <2>1, <2>2 DEF Sleeper, Began, TheTimer!Period, TheTimer!AsInt, MsAfter
  <2>. QED  BY <2>1, <2>2, <2>3 DEF Sleeper
<1>10. TheTimer!Late' = {}
  <2>1. \A q \in Procs : phase'[q] = "check" => q # p
    BY <1>3, <1>4 DEF SleepTyped
  <2>2. \A q \in Procs : phase'[q] = "check" => phase[q] = "check" /\ slept'[q] = slept[q]
    BY <1>3, <1>4, <2>1 DEF SleepTyped
  <2>3. \A q \in Procs : phase[q] = "check" => ~(slept[q] >= MaxLate)
    BY <1>3 DEF TheTimer!Late
  <2>4. \A q \in Procs : ~(phase'[q] = "check" /\ slept'[q] >= MaxLate)
    BY <2>2, <2>3
  <2>. QED  BY <2>4 DEF TheTimer!Late
<1>. QED  BY <1>7, <1>8, <1>9, <1>10 DEF SleepInv

LEMMA SleepStep ==
  ASSUME SleepInv, TheTimer!Next
  PROVE  SleepInv'
<1>. DEFINE Phases == {"awake", "halted", "check", "dead"}
<1>1. /\ phase \in [Procs -> Phases] /\ slept \in [Procs -> Nat] /\ MaxLate \in Nat
      /\ TheTimer!Late = {} \/ TheTimer!Halted = {}
  BY TimerConstants DEF SleepInv, SleepTyped
<1>2. \A q \in Procs : phase[q] = "halted" => slept[q] < MaxLate
  BY DEF SleepInv, Sleeper
<1>3. TheTimer!Late = {} => \A q \in Procs : phase[q] = "check" => slept[q] < MaxLate
  <2>1. TheTimer!Late = {} => \A q \in Procs : phase[q] = "check" => ~(slept[q] >= MaxLate)
    BY DEF TheTimer!Late
  <2>2. \A q \in Procs : ~(slept[q] >= MaxLate) => slept[q] < MaxLate
    BY <1>1
  <2>. QED  BY <2>1, <2>2
<1>4. TheTimer!Halted = {} => \A q \in Procs : phase[q] # "halted"
  BY DEF TheTimer!Halted
<1>5. CASE TheTimer!TimerMaster
  <2>1. TheTimer!Late = {}
    BY <1>1, <1>5 DEF TheTimer!TimerMaster
  <2>2. /\ TheTimer!Count /\ UNCHANGED <<start, ms>>
        /\ phase' = [p \in Procs |-> IF p \in TheTimer!Halted THEN "check" ELSE phase[p]]
    BY <1>5 DEF TheTimer!TimerMaster, TheTimer!sleepVars
  <2>3. \A p \in Procs : phase[p] = "halted" => p \in TheTimer!Halted
    BY DEF TheTimer!Halted
  <2>4. \A p \in TheTimer!Halted : phase[p] = "halted"
    BY DEF TheTimer!Halted
  <2>5. \A p \in Procs : phase'[p] \in {"halted", "check"}
          => phase'[p] = "check" /\ phase[p] \in {"halted", "check"}
    BY <2>2, <2>3, <2>4
  <2>6. phase' \in [Procs -> Phases]
    BY <1>1, <2>2
  <2>. QED  BY <2>1, <2>2, <2>5, <2>6, CountKeeps
<1>6. ASSUME NEW p \in Procs, TheTimer!Yield(p) PROVE SleepInv'
  <2>1. /\ TheTimer!Halted = {} /\ TheTimer!Late = {} /\ TheTimer!Count
        /\ UNCHANGED <<start, ms>> /\ phase' = phase
    BY <1>6 DEF TheTimer!Yield, TheTimer!sleepVars
  <2>. QED  BY <1>1, <1>4, <2>1, CountKeeps
<1>7. ASSUME NEW p \in Procs, TheTimer!Keyboard(p) PROVE SleepInv'
  <2>1. /\ UNCHANGED <<ticks, slept, start, ms>> /\ phase[p] = "halted"
        /\ phase' = [phase EXCEPT ![p] = "check"]
    BY <1>7 DEF TheTimer!Keyboard, TheTimer!sleepVars
  <2>2. TheTimer!Late = {}
    BY <1>1, <1>4, <2>1
  <2>3. \A q \in Procs : phase'[q] = IF q = p THEN "check" ELSE phase[q]
    BY <1>1, <2>1
  <2>4. phase' \in [Procs -> Phases]
    BY <1>1, <2>1
  <2>5. \A q \in Procs : phase'[q] = "check" => slept[q] < MaxLate
    BY <1>2, <1>3, <2>1, <2>2, <2>3
  <2>6. /\ \A q \in Procs : phase'[q] \in {"halted", "check"} => phase[q] \in {"halted", "check"}
        /\ \A q \in Procs : phase'[q] = "halted" => slept[q] < MaxLate
    BY <1>2, <2>1, <2>3
  <2>. QED  BY <2>1, <2>4, <2>5, <2>6, StillKeeps
<1>8. ASSUME NEW p \in Procs, TheTimer!Again(p) PROVE SleepInv'
  <2>1. /\ UNCHANGED <<ticks, slept, start, ms>> /\ phase[p] = "check"
        /\ phase' = [phase EXCEPT ![p] = "halted"]
        /\ TheTimer!Late \subseteq {p} /\ TheTimer!TooEarly(p)
    BY <1>8 DEF TheTimer!Again, TheTimer!sleepVars
  <2>2. slept[p] < MaxLate
    BY <2>1, DueIsLate
  <2>3. TheTimer!Late = {}
    <3>1. p \notin TheTimer!Late
      <4>1. ~(slept[p] >= MaxLate)
        BY <1>1, <2>2
      <4>. QED  BY <4>1 DEF TheTimer!Late
    <3>. QED  BY <2>1, <3>1
  <2>4. \A q \in Procs : phase'[q] = IF q = p THEN "halted" ELSE phase[q]
    BY <1>1, <2>1
  <2>5. phase' \in [Procs -> Phases]
    BY <1>1, <2>1
  <2>6. /\ \A q \in Procs : phase'[q] \in {"halted", "check"} => phase[q] \in {"halted", "check"}
        /\ \A q \in Procs : phase'[q] = "halted" => slept[q] < MaxLate
        /\ \A q \in Procs : phase'[q] = "check" => slept[q] < MaxLate
    BY <1>2, <1>3, <2>1, <2>2, <2>3, <2>4
  <2>. QED  BY <2>1, <2>5, <2>6, StillKeeps
<1>9. ASSUME NEW p \in Procs, NEW to \in {"awake", "dead"}, TheTimer!Halted = {},
             phase' = [phase EXCEPT ![p] = to], UNCHANGED <<ticks, slept, start, ms>>
      PROVE  SleepInv'
  <2>1. \A q \in Procs : phase'[q] = IF q = p THEN to ELSE phase[q]
    BY <1>1, <1>9
  <2>2. phase' \in [Procs -> Phases]
    BY <1>1, <1>9
  <2>3. /\ \A q \in Procs : phase'[q] \in {"halted", "check"} => phase[q] \in {"halted", "check"}
        /\ \A q \in Procs : phase'[q] # "halted"
    BY <1>4, <1>9, <2>1
  <2>. QED  BY <1>9, <2>2, <2>3, StillKeeps
<1>10. ASSUME NEW p \in Procs, TheTimer!Wake(p) PROVE SleepInv'
  BY <1>9, <1>10 DEF TheTimer!Wake, TheTimer!sleepVars
<1>11. ASSUME NEW p \in Procs, TheTimer!Kill(p) PROVE SleepInv'
  BY <1>9, <1>11 DEF TheTimer!Kill, TheTimer!sleepVars
<1>12. ASSUME NEW p \in Procs, TheTimer!StopSound(p) PROVE SleepInv'
  <2>1. /\ TheTimer!Halted = {} /\ phase' = phase /\ UNCHANGED <<ticks, slept, start, ms>>
    BY <1>12 DEF TheTimer!StopSound, TheTimer!sleepVars
  <2>. QED  BY <1>1, <1>4, <2>1, StillKeeps
<1>13. ASSUME NEW p \in Procs, NEW delay \in Delays,
              TheTimer!SysSleep(p, delay) \/ TheTimer!Beep(p, delay)
       PROVE  SleepInv'
  <2>1. TheTimer!EnterSleep(p, delay)
    BY <1>13 DEF TheTimer!SysSleep, TheTimer!Beep
  <2>. QED  BY <2>1, EnterKeeps
<1>. QED
  BY <1>5, <1>6, <1>7, <1>8, <1>10, <1>11, <1>12, <1>13 DEF TheTimer!Next, TheTimer!Run

(* A sleeper never comes back before the ms it asked for have passed, to   *)
(* the tick, wherever the counter stood when it began: neither the wrap of *)
(* the counter nor that of the int cuts a sleep short.  It asks that no    *)
(* delay is longer than half the range of the int (24 days): sys_sleep     *)
(* takes a longer one for over as soon as the difference is negative.      *)
THEOREM SleepsLongEnoughHolds ==
  ASSUME \A d \in Delays : d <= Half
  PROVE  Spec => SleepsLongEnough
<1>1. Init => SleepInv
  <2>. SUFFICES ASSUME Init PROVE SleepInv
    OBVIOUS
  <2>. DEFINE P == TheTimer!Period
  <2>1. /\ ticks \in {0, P \div 2 - 1}
        /\ phase = [p \in Procs |-> "awake"] /\ start = [p \in Procs |-> 0]
        /\ ms = [p \in Procs |-> 0] /\ slept = [p \in Procs |-> 0]
    BY DEF Init, TheTimer!Init
  <2>2. ticks \in 0 .. P - 1
    <3>1. P \in Nat \ {0} /\ P = MsDen * Range32 /\ MsDen \in Nat \ {0}
          /\ Range32 = 2 * Half /\ Half \in Nat \ {0}
      BY PeriodIs, TimerConstants DEF Range32
    <3>2. P = 2 * (MsDen * Half) /\ MsDen * Half \in Nat \ {0}
      BY <3>1
    <3>3. P \div 2 - 1 \in 0 .. P - 1
      <4>. DEFINE h == MsDen * Half
      <4>. HIDE DEF h, P
      <4>1. h \in Nat \ {0} /\ P = 2 * h
        BY <3>2 DEF h
      <4>. QED  BY <4>1
    <3>. QED  BY <2>1, <3>1, <3>3
  <2>3. SleepTyped
    BY <2>1, <2>2 DEF SleepTyped
  <2>4. TheTimer!Halted = {}
    BY <2>1 DEF TheTimer!Halted
  <2>. QED  BY <2>1, <2>3, <2>4 DEF SleepInv
<1>2. SleepInv /\ [Next]_vars
        => SleepInv' /\ [\A p \in Procs : phase[p] = "check" /\ phase'[p] = "awake"
                           => slept[p] * MsNum >= (ms[p] - 1) * MsDen]_(TheTimer!vars)
  <2>. SUFFICES ASSUME SleepInv, [Next]_vars
                PROVE  SleepInv' /\ [\A p \in Procs : phase[p] = "check" /\ phase'[p] = "awake"
                           => slept[p] * MsNum >= (ms[p] - 1) * MsDen]_(TheTimer!vars)
    OBVIOUS
  <2>1. TheTimer!Next \/ UNCHANGED timerVars
    BY DEF Next, Moves, vars
  <2>2. CASE UNCHANGED timerVars
    <3>1. UNCHANGED <<ticks, phase, start, ms, slept, speaker, beeping>>
      BY <2>2 DEF timerVars
    <3>2. SleepTyped' /\ (TheTimer!Late = {} \/ TheTimer!Halted = {})'
      BY <3>1 DEF SleepInv, SleepTyped, TheTimer!Late, TheTimer!Halted, TheTimer!Period
    <3>3. \A p \in Procs : Sleeper(p) => Sleeper(p)'
      BY <3>1 DEF Sleeper, Began, TheTimer!Period, TheTimer!AsInt, MsAfter
    <3>4. SleepInv'
      BY <3>1, <3>2, <3>3 DEF SleepInv
    <3>. QED
      BY <3>1, <3>4 DEF TheTimer!vars, TheTimer!sleepVars, TheTimer!soundVars
  <2>3. CASE TheTimer!Next
    <3>1. SleepInv'
      BY <2>3, SleepStep
    <3>2. ASSUME NEW p \in Procs, phase[p] = "check", phase'[p] = "awake"
          PROVE  slept[p] * MsNum >= (ms[p] - 1) * MsDen
      <4>1. phase \in [Procs -> {"awake", "halted", "check", "dead"}]
        BY DEF SleepInv, SleepTyped
      <4>2. ~TheTimer!TimerMaster
        BY <3>2 DEF TheTimer!TimerMaster
      <4>3. ASSUME NEW q \in Procs
            PROVE  /\ ~(TheTimer!Yield(q) \/ TheTimer!StopSound(q))
                   /\ ~(TheTimer!Keyboard(q) \/ TheTimer!Again(q) \/ TheTimer!Kill(q))
                   /\ \A delay \in Delays : ~(TheTimer!SysSleep(q, delay) \/ TheTimer!Beep(q, delay))
        BY <3>2, <4>1 DEF TheTimer!Yield, TheTimer!StopSound, TheTimer!Keyboard, TheTimer!Again,
             TheTimer!Kill, TheTimer!SysSleep, TheTimer!Beep, TheTimer!EnterSleep
      <4>4. PICK q \in Procs : TheTimer!Wake(q)
        BY <2>3, <4>2, <4>3 DEF TheTimer!Next, TheTimer!Run
      <4>5. q = p /\ ~TheTimer!TooEarly(p)
        BY <3>2, <4>1, <4>4 DEF TheTimer!Wake
      <4>. QED  BY <3>2, <4>5, DueIsLate
    <3>. QED  BY <3>1, <3>2
  <2>. QED  BY <2>1, <2>2, <2>3
<1>. HIDE DEF SleepInv, Init, Next, vars, Fairness
<1>. QED  BY <1>1, <1>2, PTL DEF Spec, SleepsLongEnough, TheTimer!SleepsLongEnough

-----------------------------------------------------------------------------
(* The start: what pure64 unpacks is the modules that were packed.         *)
KernelSize == files[1]
CodeSize == files[2]
DataSize == files[3]
EndOfKernel == 16 + KernelSize

(* Everything has its place: the image ends below the modules, and what is *)
(* behind the kernel below the scheduler.                                  *)
LEMMA BootConstants ==
  ASSUME files \in KernelSizes \X CodeSizes \X DataSizes
  PROVE  /\ KernelSize \in Nat \ {0} /\ CodeSize \in Nat \ {0} /\ DataSize \in Nat \ {0}
         /\ KernelBss \in Nat /\ UserBss \in Nat
         /\ EndOfKernel + KernelBss <= 20 /\ 64 + CodeSize + UserBss <= 80
         /\ 80 + DataSize <= 101 /\ EndOfKernel \in Nat
         /\ TheBoot!endOfKernelBinary = EndOfKernel
         /\ TheBoot!bss = EndOfKernel .. EndOfKernel + KernelBss - 1
         /\ TheBoot!Cells = 0 .. 100
<1>1. KernelSize \in KernelSizes /\ CodeSize \in CodeSizes /\ DataSize \in DataSizes
  BY DEF KernelSize, CodeSize, DataSize
<1>2. TheBoot!BootAssumption
  BY PartsAssumption
<1>3. /\ KernelSize \in Nat \ {0} /\ CodeSize \in Nat \ {0} /\ DataSize \in Nat \ {0}
      /\ KernelBss \in Nat /\ UserBss \in Nat
  BY <1>1, <1>2 DEF TheBoot!BootAssumption
<1>4. /\ 16 + KernelSize + KernelBss + 1 <= 21 /\ 64 + CodeSize + UserBss <= 80
      /\ 80 + DataSize <= 80 + 21
  BY <1>1, <1>2 DEF TheBoot!BootAssumption, TheBoot!KernelAddress, TheBoot!StackCells,
     TheBoot!SCHEDULER_ADDRESS, TheBoot!sampleCodeModuleAddress,
     TheBoot!sampleDataModuleAddress, TheBoot!EndOfCells
<1>5. TheBoot!endOfKernelBinary = EndOfKernel
  BY DEF TheBoot!endOfKernelBinary, TheBoot!KernelAddress, EndOfKernel, KernelSize
<1>6. TheBoot!bss = EndOfKernel .. EndOfKernel + KernelBss - 1
  BY <1>5 DEF TheBoot!bss, TheBoot!Area
<1>7. TheBoot!Cells = 0 .. 100
  BY DEF TheBoot!Cells, TheBoot!EndOfCells, TheBoot!sampleDataModuleAddress
<1>. QED  BY <1>3, <1>4, <1>5, <1>6, <1>7 DEF EndOfKernel

(* Where a file begins, its parts follow one another.                      *)
Holds(from, name, size) == \A k \in 1 .. size : memory[from + k - 1] = <<name, k>>
CodeImage == EndOfKernel + 2
DataImage == EndOfKernel + CodeSize + 3
Read(n) == EndOfKernel + 1 + (IF n > 0 THEN CodeSize + 1 ELSE 0)
                           + (IF n > 1 THEN DataSize + 1 ELSE 0)
(* The image as it was packed, until everything is unpacked.               *)
Packed ==
  /\ memory[EndOfKernel] = TheBoot!Number(2)
  /\ memory[EndOfKernel + 1] = TheBoot!Number(CodeSize) /\ Holds(CodeImage, "code", CodeSize)
  /\ memory[DataImage - 1] = TheBoot!Number(DataSize) /\ Holds(DataImage, "data", DataSize)
Loading == stage = "load"
Stages == {"load", "bss", "managers", "stack", "main", "shell"}
Late == {"managers", "stack", "main", "shell"}
BootInv ==
  /\ files \in KernelSizes \X CodeSizes \X DataSizes /\ stage \in Stages
  /\ loaded \in 0 .. 2 /\ currentModule = Read(loaded)
  /\ Loading => Packed
  /\ ~Loading => loaded = 2 /\ \A c \in TheBoot!bss : memory[c] = TheBoot!Number(0)
  /\ Holds(16, "kernel", KernelSize)
  /\ loaded > 0 => Holds(64, "code", CodeSize)
  /\ loaded > 1 => Holds(80, "data", DataSize)
  /\ stage \in {"stack", "main", "shell"} => rax = 53
  /\ stage \in Late => TheBoot!HeapIsFree

(* The image lies behind one another as BuildImage appends it.             *)
LEMMA Concat ==
  ASSUME NEW S, NEW s \in Seq(S), NEW t \in Seq(S)
  PROVE  /\ s \o t \in Seq(S) /\ Len(s \o t) = Len(s) + Len(t)
         /\ \A i \in 1 .. Len(s) : (s \o t)[i] = s[i]
         /\ \A i \in 1 .. Len(t) : (s \o t)[Len(s) + i] = t[i]
OBVIOUS

LEMMA ImageLies ==
  ASSUME files \in KernelSizes \X CodeSizes \X DataSizes
  PROVE  LET image == TheBoot!BuildImage(TheBoot!File("kernel", files[1]), TheBoot!Modules)
         IN /\ DOMAIN image = 1 .. KernelSize + CodeSize + DataSize + 3
            /\ \A k \in 1 .. KernelSize : image[k] = <<"kernel", k>>
            /\ image[KernelSize + 1] = TheBoot!Number(2)
            /\ image[KernelSize + 2] = TheBoot!Number(CodeSize)
            /\ \A k \in 1 .. CodeSize : image[KernelSize + 2 + k] = <<"code", k>>
            /\ image[KernelSize + CodeSize + 3] = TheBoot!Number(DataSize)
            /\ \A k \in 1 .. DataSize : image[KernelSize + CodeSize + 3 + k] = <<"data", k>>
<1>. DEFINE S == {"kernel", "code", "data", "number"} \X Nat
            k == KernelSize
            c == CodeSize
            d == DataSize
            kernel == TheBoot!File("kernel", k)
            code == TheBoot!File("code", c)
            data == TheBoot!File("data", d)
            two == <<TheBoot!Number(2)>>
            codes == <<TheBoot!Number(c)>>
            datas == <<TheBoot!Number(d)>>
<1>1. k \in Nat \ {0} /\ c \in Nat \ {0} /\ d \in Nat \ {0}
  BY BootConstants
<1>2. /\ kernel \in Seq(S) /\ Len(kernel) = k /\ \A n \in 1 .. k : kernel[n] = <<"kernel", n>>
      /\ code \in Seq(S) /\ Len(code) = c /\ \A n \in 1 .. c : code[n] = <<"code", n>>
      /\ data \in Seq(S) /\ Len(data) = d /\ \A n \in 1 .. d : data[n] = <<"data", n>>
  <2>. HIDE DEF k, c, d
  <2>. QED  BY <1>1 DEF TheBoot!File
<1>3. /\ two \in Seq(S) /\ Len(two) = 1 /\ two[1] = TheBoot!Number(2)
      /\ codes \in Seq(S) /\ Len(codes) = 1 /\ codes[1] = TheBoot!Number(c)
      /\ datas \in Seq(S) /\ Len(datas) = 1 /\ datas[1] = TheBoot!Number(d)
  <2>. HIDE DEF k, c, d
  <2>. QED  BY <1>1 DEF TheBoot!Number
<1>. DEFINE all == kernel \o two \o (codes \o code) \o (datas \o data)
<1>4. TheBoot!BuildImage(TheBoot!File("kernel", files[1]), TheBoot!Modules) = all
  <2>1. /\ TheBoot!Modules[1] = code /\ TheBoot!Modules[2] = data
        /\ Len(TheBoot!Modules) = 2
    BY DEF TheBoot!Modules, CodeSize, DataSize
  <2>2. TheBoot!Sized(code) = codes \o code /\ TheBoot!Sized(data) = datas \o data
    BY <1>2 DEF TheBoot!Sized
  <2>. HIDE DEF code, data, codes, datas
  <2>. QED  BY <2>1, <2>2 DEF TheBoot!BuildImage, KernelSize
<1>. HIDE DEF S, k, c, d, kernel, code, data, two, codes, datas
<1>. DEFINE s1 == codes \o code
            s2 == datas \o data
            a1 == kernel \o two
            a2 == a1 \o s1
<1>5. s1 \in Seq(S) /\ Len(s1) = c + 1 /\ s1[1] = TheBoot!Number(c)
      /\ \A n \in 1 .. c : s1[n + 1] = <<"code", n>>
  <2>0. /\ codes \in Seq(S) /\ Len(codes) = 1 /\ code \in Seq(S) /\ Len(code) = c
        /\ s1 = codes \o code /\ c \in Nat
    BY <1>1, <1>2, <1>3
  <2>. HIDE DEF s1
  <2>1. /\ s1 \in Seq(S) /\ Len(s1) = 1 + c /\ \A n \in 1 .. 1 : s1[n] = codes[n]
        /\ \A n \in 1 .. c : s1[1 + n] = code[n]
    <3>. DEFINE m == 1
                n == c
    <3>2. Len(codes) = m /\ Len(code) = n /\ m \in Nat /\ n \in Nat
          /\ codes \in Seq(S) /\ code \in Seq(S) /\ s1 = codes \o code
      BY <2>0
    <3>. HIDE DEF m, n, s1
    <3>3. /\ s1 \in Seq(S) /\ Len(s1) = m + n
          /\ (\A i \in 1 .. m : s1[i] = codes[i]) /\ \A i \in 1 .. n : s1[m + i] = code[i]
      <4>a1. s1 \in Seq(S)
        <5>1. codes \o code \in Seq(S)
          BY <3>2, Concat
        <5>. QED  BY <3>2, <5>1
      <4>a2. Len(s1) = m + n
        BY <3>2
      <4>a3. \A i \in 1 .. m : s1[i] = codes[i]
        BY <3>2
      <4>a4. \A i \in 1 .. n : s1[m + i] = code[i]
        BY <3>2
      <4>. QED  BY <4>a1, <4>a2, <4>a3, <4>a4
    <3>. QED  BY <3>3 DEF m, n
  <2>2. \A n \in 1 .. c : 1 + n = n + 1
    BY <1>1
  <2>. QED  BY <1>1, <1>2, <1>3, <2>1, <2>2
<1>6. s2 \in Seq(S) /\ Len(s2) = d + 1 /\ s2[1] = TheBoot!Number(d)
      /\ \A n \in 1 .. d : s2[n + 1] = <<"data", n>>
  <2>0. /\ datas \in Seq(S) /\ Len(datas) = 1 /\ data \in Seq(S) /\ Len(data) = d
        /\ s2 = datas \o data /\ d \in Nat
    BY <1>1, <1>2, <1>3
  <2>. HIDE DEF s2
  <2>1. /\ s2 \in Seq(S) /\ Len(s2) = 1 + d /\ \A n \in 1 .. 1 : s2[n] = datas[n]
        /\ \A n \in 1 .. d : s2[1 + n] = data[n]
    <3>. DEFINE m == 1
                n == d
    <3>2. Len(datas) = m /\ Len(data) = n /\ m \in Nat /\ n \in Nat
          /\ datas \in Seq(S) /\ data \in Seq(S) /\ s2 = datas \o data
      BY <2>0
    <3>. HIDE DEF m, n, s2
    <3>3. /\ s2 \in Seq(S) /\ Len(s2) = m + n
          /\ (\A i \in 1 .. m : s2[i] = datas[i]) /\ \A i \in 1 .. n : s2[m + i] = data[i]
      <4>a1. s2 \in Seq(S)
        <5>1. datas \o data \in Seq(S)
          BY <3>2, Concat
        <5>. QED  BY <3>2, <5>1
      <4>a2. Len(s2) = m + n
        BY <3>2
      <4>a3. \A i \in 1 .. m : s2[i] = datas[i]
        BY <3>2
      <4>a4. \A i \in 1 .. n : s2[m + i] = data[i]
        BY <3>2
      <4>. QED  BY <4>a1, <4>a2, <4>a3, <4>a4
    <3>. QED  BY <3>3 DEF m, n
  <2>2. \A n \in 1 .. d : 1 + n = n + 1
    BY <1>1
  <2>. QED  BY <1>1, <1>2, <1>3, <2>1, <2>2
<1>7. a1 \in Seq(S) /\ Len(a1) = k + 1 /\ (\A n \in 1 .. k : a1[n] = <<"kernel", n>>)
      /\ a1[k + 1] = TheBoot!Number(2)
  <2>1. /\ a1 \in Seq(S) /\ Len(a1) = k + 1 /\ \A n \in 1 .. k : a1[n] = kernel[n]
        /\ \A n \in 1 .. 1 : a1[k + n] = two[n]
    <3>1. /\ kernel \in Seq(S) /\ Len(kernel) = k /\ two \in Seq(S) /\ Len(two) = 1
          /\ a1 = kernel \o two /\ k \in Nat
      BY <1>1, <1>2, <1>3
    <3>. HIDE DEF a1
    <3>. DEFINE m == k
                n == 1
    <3>2. Len(kernel) = m /\ Len(two) = n /\ m \in Nat /\ n \in Nat
          /\ kernel \in Seq(S) /\ two \in Seq(S) /\ a1 = kernel \o two
      BY <3>1
    <3>. HIDE DEF m, n, a1
    <3>3. /\ a1 \in Seq(S) /\ Len(a1) = m + n
          /\ (\A i \in 1 .. m : a1[i] = kernel[i]) /\ \A i \in 1 .. n : a1[m + i] = two[i]
      <4>a1. a1 \in Seq(S)
        <5>1. kernel \o two \in Seq(S)
          BY <3>2, Concat
        <5>. QED  BY <3>2, <5>1
      <4>a2. Len(a1) = m + n
        BY <3>2
      <4>a3. \A i \in 1 .. m : a1[i] = kernel[i]
        BY <3>2
      <4>a4. \A i \in 1 .. n : a1[m + i] = two[i]
        BY <3>2
      <4>. QED  BY <4>a1, <4>a2, <4>a3, <4>a4
    <3>. QED  BY <3>3 DEF m, n
  <2>. HIDE DEF a1
  <2>. QED  BY <1>2, <1>3, <2>1
<1>. HIDE DEF s1, s2, a1
<1>8. /\ a2 \in Seq(S) /\ Len(a2) = k + c + 2
      /\ \A n \in 1 .. k + 1 : a2[n] = a1[n]
      /\ \A n \in 1 .. c + 1 : a2[k + 1 + n] = s1[n]
  <2>1. /\ a2 \in Seq(S) /\ Len(a2) = (k + 1) + (c + 1) /\ \A n \in 1 .. k + 1 : a2[n] = a1[n]
        /\ \A n \in 1 .. c + 1 : a2[(k + 1) + n] = s1[n]
    <3>. DEFINE m == k + 1
                n == c + 1
    <3>1. /\ a1 \in Seq(S) /\ Len(a1) = m /\ s1 \in Seq(S) /\ Len(s1) = n
          /\ a2 = a1 \o s1 /\ m \in Nat /\ n \in Nat
      BY <1>1, <1>5, <1>7
    <3>. HIDE DEF a2, m, n
    <3>2. /\ a2 \in Seq(S) /\ Len(a2) = m + n /\ \A i \in 1 .. m : a2[i] = a1[i]
          /\ \A i \in 1 .. n : a2[m + i] = s1[i]
      <4>a1. a2 \in Seq(S)
        <5>1. a1 \o s1 \in Seq(S)
          BY <3>1, Concat
        <5>. QED  BY <3>1, <5>1
      <4>a2. Len(a2) = m + n
        BY <3>1
      <4>a3. \A i \in 1 .. m : a2[i] = a1[i]
        BY <3>1
      <4>a4. \A i \in 1 .. n : a2[m + i] = s1[i]
        BY <3>1
      <4>. QED  BY <4>a1, <4>a2, <4>a3, <4>a4
    <3>. QED  BY <3>2 DEF m, n
  <2>. HIDE DEF a2
  <2>. QED  BY <1>1, <2>1
<1>. HIDE DEF a2
<1>9. all = a2 \o s2
  BY DEF all, a2, a1, s1, s2
<1>. HIDE DEF all
<1>10. /\ all \in Seq(S) /\ Len(all) = k + c + d + 3
       /\ \A n \in 1 .. k + c + 2 : all[n] = a2[n]
       /\ \A n \in 1 .. d + 1 : all[k + c + 2 + n] = s2[n]
  <2>1. /\ all \in Seq(S) /\ Len(all) = (k + c + 2) + (d + 1)
        /\ \A n \in 1 .. k + c + 2 : all[n] = a2[n]
        /\ \A n \in 1 .. d + 1 : all[(k + c + 2) + n] = s2[n]
    <3>. DEFINE m == k + c + 2
                n == d + 1
    <3>1. /\ a2 \in Seq(S) /\ Len(a2) = m /\ s2 \in Seq(S) /\ Len(s2) = n
          /\ all = a2 \o s2 /\ m \in Nat /\ n \in Nat
      BY <1>1, <1>6, <1>8, <1>9
    <3>. HIDE DEF m, n
    <3>2. /\ all \in Seq(S) /\ Len(all) = m + n /\ \A i \in 1 .. m : all[i] = a2[i]
          /\ \A i \in 1 .. n : all[m + i] = s2[i]
      <4>a1. all \in Seq(S)
        <5>1. a2 \o s2 \in Seq(S)
          BY <3>1, Concat
        <5>. QED  BY <3>1, <5>1
      <4>a2. Len(all) = m + n
        BY <3>1
      <4>a3. \A i \in 1 .. m : all[i] = a2[i]
        BY <3>1
      <4>a4. \A i \in 1 .. n : all[m + i] = s2[i]
        BY <3>1
      <4>. QED  BY <4>a1, <4>a2, <4>a3, <4>a4
    <3>. QED  BY <3>2 DEF m, n
  <2>. QED  BY <1>1, <2>1
<1>11. DOMAIN all = 1 .. k + c + d + 3
  BY <1>10
<1>12. \A n \in 1 .. k : all[n] = <<"kernel", n>>
  BY <1>1, <1>7, <1>8, <1>10
<1>13. all[k + 1] = TheBoot!Number(2)
  BY <1>1, <1>7, <1>8, <1>10
<1>14. all[k + 2] = TheBoot!Number(c)
  <2>1. all[k + 2] = a2[k + 2]
    BY <1>1, <1>10
  <2>2. a2[k + 1 + 1] = s1[1] /\ k + 1 + 1 = k + 2
    BY <1>1, <1>8
  <2>. QED  BY <1>5, <2>1, <2>2
<1>15. \A n \in 1 .. c : all[k + 2 + n] = <<"code", n>>
  <2>. SUFFICES ASSUME NEW n \in 1 .. c PROVE all[k + 2 + n] = <<"code", n>>
    OBVIOUS
  <2>1. all[k + 2 + n] = a2[k + 2 + n]
    BY <1>1, <1>10
  <2>2. a2[k + 1 + (n + 1)] = s1[n + 1] /\ k + 1 + (n + 1) = k + 2 + n
    BY <1>1, <1>8
  <2>. QED  BY <1>5, <2>1, <2>2
<1>16. all[k + c + 3] = TheBoot!Number(d)
  <2>1. all[k + c + 2 + 1] = s2[1] /\ k + c + 2 + 1 = k + c + 3
    BY <1>1, <1>10
  <2>. QED  BY <1>6, <2>1
<1>17. \A n \in 1 .. d : all[k + c + 3 + n] = <<"data", n>>
  <2>. SUFFICES ASSUME NEW n \in 1 .. d PROVE all[k + c + 3 + n] = <<"data", n>>
    OBVIOUS
  <2>1. all[k + c + 2 + (n + 1)] = s2[n + 1] /\ k + c + 2 + (n + 1) = k + c + 3 + n
    BY <1>1, <1>10
  <2>. QED  BY <1>6, <2>1
<1>. QED
  BY <1>4, <1>11, <1>12, <1>13, <1>14, <1>15, <1>16, <1>17 DEF k, c, d

(* What a step that clears cells, or gives them to somebody, leaves alone. *)
LEMMA AreaCleared ==
  ASSUME NEW area, NEW value, memory' = TheBoot!MemSet(area, value)
  PROVE  /\ \A c \in TheBoot!Cells : c \in area => memory'[c] = value
         /\ \A c \in TheBoot!Cells : c \notin area => memory'[c] = memory[c]
BY DEF TheBoot!MemSet

(* The parts of BootInv about memory, after the image is unpacked.         *)
Unpacked ==
  /\ loaded = 2 /\ \A c \in TheBoot!bss : memory[c] = TheBoot!Number(0)
  /\ Holds(16, "kernel", KernelSize) /\ Holds(64, "code", CodeSize)
  /\ Holds(80, "data", DataSize)
LEMMA ClearKeeps ==
  ASSUME BootInv, loaded = 2, NEW area, NEW value, memory' = TheBoot!MemSet(area, value),
         UNCHANGED <<files, currentModule, loaded>>,
         stage # "load" \/ (value = TheBoot!Number(0) /\ TheBoot!bss \subseteq area),
         \A c \in area : /\ ~(c >= 16 /\ c < EndOfKernel) /\ ~(c >= 64 /\ c < 64 + CodeSize)
                         /\ ~(c >= 80 /\ c < 80 + DataSize),
         value = TheBoot!Number(0) \/ \A c \in area : c \notin TheBoot!bss
  PROVE  Unpacked'
<1>1. files \in KernelSizes \X CodeSizes \X DataSizes
  BY DEF BootInv
<1>2. /\ KernelSize \in Nat /\ CodeSize \in Nat /\ DataSize \in Nat
      /\ 16 + KernelSize <= 101 /\ 64 + CodeSize <= 101 /\ 80 + DataSize <= 101
      /\ KernelBss \in Nat /\ EndOfKernel = 16 + KernelSize
  <2>1. /\ KernelSize \in Nat \ {0} /\ CodeSize \in Nat \ {0} /\ DataSize \in Nat \ {0}
        /\ KernelBss \in Nat /\ UserBss \in Nat /\ EndOfKernel + KernelBss <= 20
        /\ 64 + CodeSize + UserBss <= 80 /\ 80 + DataSize <= 101
    BY <1>1, BootConstants
  <2>2. EndOfKernel = 16 + KernelSize
    BY DEF EndOfKernel
  <2>. QED  BY <2>1, <2>2
<1>3. TheBoot!Cells = 0 .. 100 /\ TheBoot!bss = EndOfKernel .. EndOfKernel + KernelBss - 1
  BY <1>1, BootConstants
<1>4. KernelSize' = KernelSize /\ CodeSize' = CodeSize /\ DataSize' = DataSize
      /\ TheBoot!bss' = TheBoot!bss /\ loaded' = 2
  BY DEF KernelSize, CodeSize, DataSize, TheBoot!bss, TheBoot!endOfKernelBinary
<1>5. /\ Holds(16, "kernel", KernelSize) /\ Holds(64, "code", CodeSize)
      /\ Holds(80, "data", DataSize)
  BY DEF BootInv
<1>kept. ASSUME NEW from \in Nat, NEW size \in Nat, NEW name, from + size <= 101,
                \A c \in area : ~(c >= from /\ c < from + size), Holds(from, name, size)
         PROVE  \A k \in 1 .. size : memory'[from + k - 1] = <<name, k>>
  <2>. SUFFICES ASSUME NEW k \in 1 .. size PROVE memory'[from + k - 1] = <<name, k>>
    OBVIOUS
  <2>. DEFINE c == from + k - 1
  <2>1. c \in 0 .. 100 /\ c >= from /\ c < from + size
    BY <1>kept
  <2>2. memory[c] = <<name, k>>
    BY <1>kept DEF Holds
  <2>. HIDE DEF c
  <2>3. c \notin area
    BY <1>kept, <2>1
  <2>4. memory'[c] = memory[c]
    BY <1>3, <2>1, <2>3, AreaCleared
  <2>. QED  BY <2>2, <2>4 DEF c
<1>6. \A k \in 1 .. KernelSize : memory'[16 + k - 1] = <<"kernel", k>>
  <2>1. \A c \in area : ~(c >= 16 /\ c < 16 + KernelSize)
    BY <1>2
  <2>. DEFINE from == 16
              size == KernelSize
              name == "kernel"
  <2>2. /\ from \in Nat /\ size \in Nat /\ from + size <= 101 /\ TheBoot!Cells = 0 .. 100
        /\ \A c \in area : ~(c >= from /\ c < from + size)
    BY <1>2, <1>3, <2>1
  <2>3. Holds(from, name, size) /\ memory' = TheBoot!MemSet(area, value)
    BY <1>5
  <2>. HIDE DEF from, size, name
  <2>4. \A k \in 1 .. size : memory'[from + k - 1] = <<name, k>>
    BY <1>kept, <2>2, <2>3
  <2>. QED  BY <2>4 DEF from, size, name
<1>7. \A k \in 1 .. CodeSize : memory'[64 + k - 1] = <<"code", k>>
  <2>1. \A c \in area : ~(c >= 64 /\ c < 64 + CodeSize)
    OBVIOUS
  <2>. DEFINE from == 64
              size == CodeSize
              name == "code"
  <2>2. /\ from \in Nat /\ size \in Nat /\ from + size <= 101 /\ TheBoot!Cells = 0 .. 100
        /\ \A c \in area : ~(c >= from /\ c < from + size)
    BY <1>2, <1>3, <2>1
  <2>3. Holds(from, name, size) /\ memory' = TheBoot!MemSet(area, value)
    BY <1>5
  <2>. HIDE DEF from, size, name
  <2>4. \A k \in 1 .. size : memory'[from + k - 1] = <<name, k>>
    BY <1>kept, <2>2, <2>3
  <2>. QED  BY <2>4 DEF from, size, name
<1>8. \A k \in 1 .. DataSize : memory'[80 + k - 1] = <<"data", k>>
  <2>1. \A c \in area : ~(c >= 80 /\ c < 80 + DataSize)
    OBVIOUS
  <2>. DEFINE from == 80
              size == DataSize
              name == "data"
  <2>2. /\ from \in Nat /\ size \in Nat /\ from + size <= 101 /\ TheBoot!Cells = 0 .. 100
        /\ \A c \in area : ~(c >= from /\ c < from + size)
    BY <1>2, <1>3, <2>1
  <2>3. Holds(from, name, size) /\ memory' = TheBoot!MemSet(area, value)
    BY <1>5
  <2>. HIDE DEF from, size, name
  <2>4. \A k \in 1 .. size : memory'[from + k - 1] = <<name, k>>
    BY <1>kept, <2>2, <2>3
  <2>. QED  BY <2>4 DEF from, size, name
<1>9. \A c \in TheBoot!bss : memory'[c] = TheBoot!Number(0)
  <2>. SUFFICES ASSUME NEW c \in TheBoot!bss PROVE memory'[c] = TheBoot!Number(0)
    OBVIOUS
  <2>1. c \in TheBoot!Cells
    BY <1>1, <1>2, <1>3, BootConstants
  <2>2. CASE c \in area
    BY <2>1, <2>2, AreaCleared
  <2>3. CASE c \notin area
    <3>1. memory'[c] = memory[c] /\ stage # "load"
      BY <2>1, <2>3, AreaCleared
    <3>. QED  BY <3>1 DEF BootInv, Loading
  <2>. QED  BY <2>2, <2>3
<1>. QED  BY <1>4, <1>6, <1>7, <1>8, <1>9 DEF Unpacked, Holds

LEMMA UnpackedStays ==
  ASSUME BootInv, Unpacked', UNCHANGED <<files, currentModule, loaded>>,
         stage' \in Stages \ {"load"}, stage' \in {"stack", "main", "shell"} => rax' = 53,
         stage' \in Late => TheBoot!HeapIsFree'
  PROVE  BootInv'
<1>1. currentModule' = Read(loaded)' /\ files' \in KernelSizes \X CodeSizes \X DataSizes
  BY DEF BootInv, Read, EndOfKernel, KernelSize, CodeSize, DataSize
<1>. QED  BY <1>1 DEF BootInv, Unpacked, Loading

(* loadModules: both modules lie in the image where they are read.         *)
LEMMA Copied ==
  ASSUME NEW target \in Nat, NEW source \in Nat, NEW length \in Nat, target + length <= 101,
         TheBoot!Cells = 0 .. 100, memory' = TheBoot!MemCpy(target, source, length)
  PROVE  /\ \A k \in 1 .. length : memory'[target + k - 1] = memory[source + k - 1]
         /\ \A c \in 0 .. 100 :
              ~(c >= target /\ c < target + length) => memory'[c] = memory[c]
<1>1. ASSUME NEW k \in 1 .. length PROVE memory'[target + k - 1] = memory[source + k - 1]
  <2>1. target + k - 1 \in 0 .. 100 /\ target + k - 1 \in target .. target + length - 1
    OBVIOUS
  <2>2. memory'[target + k - 1] = memory[source + (target + k - 1) - target]
    BY <2>1 DEF TheBoot!MemCpy, TheBoot!Area
  <2>3. source + (target + k - 1) - target = source + k - 1
    OBVIOUS
  <2>. QED  BY <2>2, <2>3
<1>2. ASSUME NEW c \in 0 .. 100, ~(c >= target /\ c < target + length)
      PROVE  memory'[c] = memory[c]
  BY <1>2 DEF TheBoot!MemCpy, TheBoot!Area
<1>. QED  BY <1>1, <1>2

LEMMA LoadModuleKeeps ==
  ASSUME BootInv, TheBoot!LoadModule
  PROVE  BootInv'
<1>1. /\ stage = "load" /\ Packed /\ files \in KernelSizes \X CodeSizes \X DataSizes
      /\ loaded \in 0 .. 2 /\ currentModule = Read(loaded) /\ Holds(16, "kernel", KernelSize)
      /\ loaded > 0 => Holds(64, "code", CodeSize)
  BY DEF BootInv, Loading, TheBoot!LoadModule
<1>. DEFINE e == EndOfKernel
            k == KernelSize
            c == CodeSize
            d == DataSize
<1>2. /\ k \in Nat \ {0} /\ c \in Nat \ {0} /\ d \in Nat \ {0} /\ e \in Nat /\ e = 16 + k
      /\ e <= 20 /\ 64 + c <= 80 /\ 80 + d <= 101
      /\ TheBoot!Cells = 0 .. 100 /\ TheBoot!endOfKernelBinary = e
  <2>1. /\ k \in Nat \ {0} /\ c \in Nat \ {0} /\ d \in Nat \ {0} /\ e \in Nat
        /\ KernelBss \in Nat /\ UserBss \in Nat /\ e + KernelBss <= 20
        /\ 64 + c + UserBss <= 80 /\ 80 + d <= 101
        /\ TheBoot!Cells = 0 .. 100 /\ TheBoot!endOfKernelBinary = e
    BY <1>1, BootConstants
  <2>2. e = 16 + k
    BY DEF EndOfKernel
  <2>. HIDE DEF e, k, c, d
  <2>. QED  BY <2>1, <2>2
<1>3. /\ memory[e] = TheBoot!Number(2) /\ memory[e + 1] = TheBoot!Number(c)
      /\ \A i \in 1 .. c : memory[e + 2 + i - 1] = <<"code", i>>
      /\ memory[e + c + 2] = TheBoot!Number(d)
      /\ \A i \in 1 .. d : memory[e + c + 3 + i - 1] = <<"data", i>>
      /\ \A i \in 1 .. k : memory[16 + i - 1] = <<"kernel", i>>
      /\ loaded > 0 => \A i \in 1 .. c : memory[64 + i - 1] = <<"code", i>>
  <2>1. /\ memory[e] = TheBoot!Number(2) /\ memory[e + 1] = TheBoot!Number(c)
        /\ Holds(CodeImage, "code", c) /\ memory[DataImage - 1] = TheBoot!Number(d)
        /\ Holds(DataImage, "data", d)
    BY <1>1 DEF Packed
  <2>2. CodeImage = e + 2 /\ DataImage = e + c + 3
    BY DEF CodeImage, DataImage
  <2>. HIDE DEF e, k, c, d
  <2>3. Holds(e + 2, "code", c) /\ Holds(e + c + 3, "data", d)
    BY <2>1, <2>2
  <2>4. /\ \A i \in 1 .. c : memory[e + 2 + i - 1] = <<"code", i>>
        /\ \A i \in 1 .. d : memory[e + c + 3 + i - 1] = <<"data", i>>
    BY <2>3 DEF Holds
  <2>5. /\ \A i \in 1 .. k : memory[16 + i - 1] = <<"kernel", i>>
        /\ loaded > 0 => \A i \in 1 .. c : memory[64 + i - 1] = <<"code", i>>
    BY <1>1 DEF Holds, k, c
  <2>6. memory[e + c + 2] = TheBoot!Number(d)
    <3>1. DataImage - 1 = e + c + 2
      BY <1>2, <2>2
    <3>. QED  BY <2>1, <3>1, Zenon
  <2>. QED  BY <2>1, <2>4, <2>5, <2>6
<1>4. /\ loaded < 2 /\ loaded' = loaded + 1 /\ UNCHANGED <<files, stage, heap, rax>>
      /\ memory' = TheBoot!MemCpy(TheBoot!Targets[loaded + 1], currentModule + 1,
                                  memory[currentModule][2])
      /\ currentModule' = currentModule + memory[currentModule][2] + 1
  BY <1>2, <1>3 DEF TheBoot!LoadModule, TheBoot!ReadUint32, TheBoot!Number
<1>5. KernelSize' = k /\ CodeSize' = c /\ DataSize' = d /\ EndOfKernel' = e
  BY <1>4 DEF KernelSize, CodeSize, DataSize, EndOfKernel
<1>6. TheBoot!Targets[1] = 64 /\ TheBoot!Targets[2] = 80
  BY DEF TheBoot!Targets, TheBoot!sampleCodeModuleAddress, TheBoot!sampleDataModuleAddress
<1>. HIDE DEF e, k, c, d
<1>7. SUFFICES /\ loaded' \in 1 .. 2
               /\ currentModule' = e + 1 + (IF loaded' > 0 THEN c + 1 ELSE 0)
                                         + (IF loaded' > 1 THEN d + 1 ELSE 0)
               /\ memory'[e] = TheBoot!Number(2) /\ memory'[e + 1] = TheBoot!Number(c)
               /\ \A i \in 1 .. c : memory'[e + 2 + i - 1] = <<"code", i>>
               /\ memory'[e + c + 2] = TheBoot!Number(d)
               /\ \A i \in 1 .. d : memory'[e + c + 3 + i - 1] = <<"data", i>>
               /\ \A i \in 1 .. k : memory'[16 + i - 1] = <<"kernel", i>>
               /\ \A i \in 1 .. c : memory'[64 + i - 1] = <<"code", i>>
               /\ loaded' = 2 => \A i \in 1 .. d : memory'[80 + i - 1] = <<"data", i>>
  <2>1. files' \in KernelSizes \X CodeSizes \X DataSizes /\ stage' = "load"
    BY <1>1, <1>4
  <2>2. currentModule' = Read(loaded)'
    BY <1>5, <1>7 DEF Read
  <2>3. Packed'
    <3>1. CodeImage' = e + 2 /\ DataImage' = e + c + 3
      BY <1>5 DEF CodeImage, DataImage
    <3>2. Holds(CodeImage, "code", CodeSize)'
      BY <1>5, <1>7, <3>1 DEF Holds
    <3>3. Holds(DataImage, "data", DataSize)'
      BY <1>5, <1>7, <3>1 DEF Holds
    <3>4. memory'[DataImage' - 1] = TheBoot!Number(DataSize')
      <4>1. DataImage' - 1 = e + c + 2
        BY <1>2, <3>1
      <4>. QED  BY <1>5, <1>7, <4>1, Zenon
    <3>5. memory'[EndOfKernel'] = TheBoot!Number(2)
          /\ memory'[EndOfKernel' + 1] = TheBoot!Number(CodeSize')
      BY <1>5, <1>7
    <3>. QED  BY <3>2, <3>3, <3>4, <3>5 DEF Packed, TheBoot!Number
  <2>4. Holds(16, "kernel", KernelSize)' /\ Holds(64, "code", CodeSize)'
    BY <1>5, <1>7 DEF Holds
  <2>5. loaded' > 1 => Holds(80, "data", DataSize)'
    BY <1>5, <1>7 DEF Holds
  <2>. QED  BY <1>7, <2>1, <2>2, <2>3, <2>4, <2>5 DEF BootInv, Loading, Stages, Late
<1>8. CASE loaded = 0
  <2>1. currentModule = e + 1 /\ memory[currentModule][2] = c
    <3>1. currentModule = e + 1
      BY <1>1, <1>2, <1>8 DEF Read, e
    <3>. QED  BY <1>3, <3>1 DEF TheBoot!Number
  <2>2. memory' = TheBoot!MemCpy(64, e + 2, c) /\ currentModule' = e + c + 2
    <3>1. e + 1 + 1 = e + 2 /\ e + 1 + c + 1 = e + c + 2
      BY <1>2
    <3>. QED  BY <1>4, <1>6, <1>8, <2>1, <3>1
  <2>. DEFINE target == 64
              source == e + 2
  <2>3. target \in Nat /\ source \in Nat /\ c \in Nat /\ target + c <= 101
    BY <1>2
  <2>. HIDE DEF target, source
  <2>4. /\ \A i \in 1 .. c : memory'[target + i - 1] = memory[source + i - 1]
        /\ \A n \in 0 .. 100 : ~(n >= target /\ n < target + c) => memory'[n] = memory[n]
    BY <1>2, <2>2, <2>3, Copied DEF target, source
  <2>5. \A n \in 0 .. 63 : memory'[n] = memory[n]
    BY <2>4 DEF target
  <2>. QED
    <3>1. \A i \in 1 .. c : memory'[64 + i - 1] = <<"code", i>>
      BY <1>3, <2>4 DEF target, source
    <3>2. loaded' = 1 /\ currentModule' = e + 1 + (c + 1) + 0
      BY <1>2, <1>4, <1>8, <2>2
    <3>3. e \in 0 .. 63 /\ e + 1 \in 0 .. 63 /\ e + c + 2 \in 0 .. 63
          /\ (\A i \in 1 .. c : e + 2 + i - 1 \in 0 .. 63)
          /\ (\A i \in 1 .. d : e + c + 3 + i - 1 \in 0 .. 63)
          /\ (\A i \in 1 .. k : 16 + i - 1 \in 0 .. 63)
      BY <1>2
    <3>4. /\ memory'[e] = TheBoot!Number(2) /\ memory'[e + 1] = TheBoot!Number(c)
          /\ memory'[e + c + 2] = TheBoot!Number(d)
      BY <1>3, <2>5, <3>3
    <3>5. \A i \in 1 .. c : memory'[e + 2 + i - 1] = <<"code", i>>
      BY <1>3, <2>5, <3>3
    <3>6. \A i \in 1 .. d : memory'[e + c + 3 + i - 1] = <<"data", i>>
      BY <1>3, <2>5, <3>3
    <3>7. \A i \in 1 .. k : memory'[16 + i - 1] = <<"kernel", i>>
      BY <1>3, <2>5, <3>3
    <3>8. ~(loaded' = 2)
      BY <3>2
    <3>9. /\ loaded' \in 1 .. 2
          /\ currentModule' = e + 1 + (IF loaded' > 0 THEN c + 1 ELSE 0)
                                    + (IF loaded' > 1 THEN d + 1 ELSE 0)
      BY <3>2
    <3>. QED  BY <3>1, <3>4, <3>5, <3>6, <3>7, <3>8, <3>9
<1>9. CASE loaded = 1
  <2>1. currentModule = e + c + 2 /\ memory[currentModule][2] = d
    <3>1. currentModule = e + c + 2
      BY <1>1, <1>2, <1>9 DEF Read, e, c
    <3>. QED  BY <1>3, <3>1 DEF TheBoot!Number
  <2>2. memory' = TheBoot!MemCpy(80, e + c + 3, d) /\ currentModule' = e + c + d + 3
    <3>1. e + c + 2 + 1 = e + c + 3 /\ e + c + 2 + d + 1 = e + c + d + 3
      BY <1>2
    <3>. QED  BY <1>4, <1>6, <1>9, <2>1, <3>1
  <2>. DEFINE target == 80
              source == e + c + 3
  <2>3. target \in Nat /\ source \in Nat /\ d \in Nat /\ target + d <= 101
    BY <1>2
  <2>. HIDE DEF target, source
  <2>4. /\ \A i \in 1 .. d : memory'[target + i - 1] = memory[source + i - 1]
        /\ \A n \in 0 .. 100 : ~(n >= target /\ n < target + d) => memory'[n] = memory[n]
    BY <1>2, <2>2, <2>3, Copied DEF target, source
  <2>5. \A n \in 0 .. 79 : memory'[n] = memory[n]
    BY <2>4 DEF target
  <2>. QED
    <3>1. \A i \in 1 .. d : memory'[80 + i - 1] = <<"data", i>>
      BY <1>3, <2>4 DEF target, source
    <3>2. loaded' = 2 /\ currentModule' = e + 1 + (c + 1) + (d + 1)
      BY <1>2, <1>4, <1>9, <2>2
    <3>3. e \in 0 .. 79 /\ e + 1 \in 0 .. 79 /\ e + c + 2 \in 0 .. 79
          /\ (\A i \in 1 .. c : e + 2 + i - 1 \in 0 .. 79)
          /\ (\A i \in 1 .. d : e + c + 3 + i - 1 \in 0 .. 79)
          /\ (\A i \in 1 .. k : 16 + i - 1 \in 0 .. 79)
          /\ (\A i \in 1 .. c : 64 + i - 1 \in 0 .. 79)
      BY <1>2
    <3>4. /\ memory'[e] = TheBoot!Number(2) /\ memory'[e + 1] = TheBoot!Number(c)
          /\ memory'[e + c + 2] = TheBoot!Number(d)
      BY <1>3, <2>5, <3>3
    <3>5. \A i \in 1 .. c : memory'[e + 2 + i - 1] = <<"code", i>>
      BY <1>3, <2>5, <3>3
    <3>6. \A i \in 1 .. d : memory'[e + c + 3 + i - 1] = <<"data", i>>
      BY <1>3, <2>5, <3>3
    <3>7. \A i \in 1 .. k : memory'[16 + i - 1] = <<"kernel", i>>
      BY <1>3, <2>5, <3>3
    <3>8. \A i \in 1 .. c : memory'[64 + i - 1] = <<"code", i>>
      BY <1>3, <1>9, <2>5, <3>3
    <3>9. /\ loaded' \in 1 .. 2
          /\ currentModule' = e + 1 + (IF loaded' > 0 THEN c + 1 ELSE 0)
                                    + (IF loaded' > 1 THEN d + 1 ELSE 0)
      BY <3>2
    <3>. QED  BY <3>1, <3>4, <3>5, <3>6, <3>7, <3>8, <3>9
<1>. QED  BY <1>1, <1>4, <1>8, <1>9

(* createMemoryManager: the highest power of two below n.                  *)
LEMMA PowerBelowIs ==
  ASSUME NEW n \in Nat, n > 0, n < 2 ^ 17
  PROVE  LET p == TheBoot!PowerBelow(n) IN p \in Nat /\ p <= n /\ n < 2 * p
<1>. DEFINE S == {k \in 0 .. 17 : n < 2 ^ k}
<1>1. 2 ^ 0 = 1 /\ \A k \in 0 .. 16 : 2 ^ k \in Nat /\ 2 ^ (k + 1) = 2 * 2 ^ k
  BY PartsAssumption DEF TheBoot!BootAssumption
<1>2. PICK k \in S : \A m \in S : k <= m
  <2>1. S \subseteq Nat /\ 17 \in S
    OBVIOUS
  <2>. HIDE DEF S
  <2>. QED  BY <2>1, LeastNatural
<1>3. k # 0
  <2>1. n < 2 ^ k
    BY <1>2
  <2>2. k = 0 => n < 1
    BY <1>1, <2>1, Zenon
  <2>. QED  BY <2>2
<1>. DEFINE j == k - 1
<1>4. j \in 0 .. 16 /\ j + 1 = k /\ j \notin S
  BY <1>2, <1>3
<1>5. n < 2 ^ k /\ 2 ^ k = 2 * 2 ^ j /\ 2 ^ j \in Nat
  <2>1. n < 2 ^ k
    BY <1>2
  <2>. HIDE DEF j
  <2>2. 2 ^ (j + 1) = 2 * 2 ^ j /\ 2 ^ j \in Nat
    BY <1>1, <1>4
  <2>. QED  BY <1>4, <2>1, <2>2
<1>6. ~(n < 2 ^ j)
  BY <1>4
<1>. DEFINE P == {2 ^ i : i \in 0 .. 16}
<1>7. \E p \in P : p <= n /\ n < 2 * p
  <2>1. 2 ^ j \in P
    BY <1>4
  <2>. HIDE DEF P, j
  <2>. QED  BY <1>5, <1>6, <2>1
<1>8. P \subseteq Nat
  BY <1>1
<1>9. TheBoot!PowerBelow(n) = CHOOSE p \in P : p <= n /\ n < 2 * p
  BY DEF TheBoot!PowerBelow
<1>. HIDE DEF P
<1>. QED  BY <1>7, <1>8, <1>9

LEMMA BootStep ==
  ASSUME BootInv, TheBoot!Next
  PROVE  BootInv'
<1>1. /\ files \in KernelSizes \X CodeSizes \X DataSizes /\ loaded \in 0 .. 2
      /\ currentModule = Read(loaded) /\ stage \in Stages
      /\ stage # "load" => loaded = 2
  BY DEF BootInv, Loading
<1>2. /\ KernelSize \in Nat \ {0} /\ CodeSize \in Nat \ {0} /\ DataSize \in Nat \ {0}
      /\ KernelBss \in Nat /\ UserBss \in Nat /\ EndOfKernel \in Nat
      /\ EndOfKernel + KernelBss <= 20 /\ 64 + CodeSize + UserBss <= 80
      /\ 80 + DataSize <= 101 /\ TheBoot!endOfKernelBinary = EndOfKernel
  BY <1>1, BootConstants
<1>3. TheBoot!bss = EndOfKernel .. EndOfKernel + KernelBss - 1 /\ TheBoot!Cells = 0 .. 100
  BY <1>1, BootConstants
<1>4. CASE TheBoot!LoadModule
  BY <1>4, LoadModuleKeeps
<1>5. CASE TheBoot!ClearBSS
  <2>1. /\ stage' = "bss" /\ UNCHANGED <<files, currentModule, loaded, heap, rax>>
        /\ memory' = TheBoot!MemSet(TheBoot!bss, TheBoot!Number(0))
        /\ stage = "load" /\ loaded = memory[EndOfKernel][2]
    BY <1>2, <1>5 DEF TheBoot!ClearBSS, TheBoot!ReadUint32
  <2>2. loaded = 2
    BY <2>1 DEF BootInv, Loading, Packed, TheBoot!Number
  <2>3. \A c \in TheBoot!bss : /\ ~(c >= 16 /\ c < EndOfKernel)
                               /\ ~(c >= 64 /\ c < 64 + CodeSize)
                               /\ ~(c >= 80 /\ c < 80 + DataSize)
    BY <1>2, <1>3
  <2>4. Unpacked'
    BY <2>1, <2>2, <2>3, ClearKeeps
  <2>. QED  BY <2>1, <2>4, UnpackedStays DEF Stages, Late
<1>6. CASE TheBoot!CreateMemoryManager
  <2>1. /\ stage = "bss" /\ stage' = "managers"
        /\ UNCHANGED <<files, currentModule, loaded, rax>>
        /\ memory' = TheBoot!MemSet({5}, TheBoot!Data("manager"))
    BY <1>6 DEF TheBoot!CreateMemoryManager, TheBoot!MEMORY_MANAGER_ADDRESS
  <2>2. loaded = 2
    BY <1>1, <2>1
  <2>3. \A c \in {5} : /\ ~(c >= 16 /\ c < EndOfKernel)
                       /\ ~(c >= 64 /\ c < 64 + CodeSize)
                       /\ ~(c >= 80 /\ c < 80 + DataSize) /\ c \notin TheBoot!bss
    BY <1>2, <1>3 DEF EndOfKernel
  <2>4. Unpacked'
    BY <2>1, <2>2, <2>3, ClearKeeps
  <2>. DEFINE from == 80 + (currentModule - EndOfKernel)
  <2>5. from = 83 + CodeSize + DataSize /\ from \in Nat /\ from < 144
    BY <1>1, <1>2, <2>2 DEF Read
  <2>6. PICK amount \in Amounts :
          heap' = [start |-> from, size |-> TheBoot!PowerBelow(TheBoot!Counted(amount) - from),
                   end |-> amount]
    BY <1>2, <1>6 DEF TheBoot!CreateMemoryManager, TheBoot!sampleDataModuleAddress
  <2>. DEFINE counted == TheBoot!Counted(amount)
              top == 2 ^ 16
  <2>7. /\ amount \in Nat /\ counted \in Nat /\ counted > 144
        /\ counted <= amount /\ counted < top
    <3>1. amount \in Nat /\ counted > 144
      BY PartsAssumption DEF TheBoot!BootAssumption, TheBoot!sampleDataModuleAddress
    <3>2. top \in Nat \ {0} /\ counted = amount % top
      BY DEF TheBoot!Counted, TheBoot!AmountRange
    <3>. HIDE DEF counted, top
    <3>. QED  BY <3>1, <3>2
  <2>. DEFINE room == counted - from
              size == TheBoot!PowerBelow(room)
  <2>. HIDE DEF from, counted
  <2>8. room \in Nat /\ room > 0 /\ room < 2 ^ 17 /\ counted = from + room
    <3>1. room \in Nat /\ room > 0 /\ room <= counted /\ counted = from + room
      BY <2>5, <2>7
    <3>2. top \in Int /\ 2 ^ 17 = 2 * top
      OBVIOUS
    <3>. HIDE DEF top, room
    <3>3. room < 2 * top
      BY <2>7, <3>1, <3>2
    <3>. QED  BY <3>1, <3>2, <3>3
  <2>9. size \in Nat /\ size <= room /\ room < 2 * size
    BY <2>8, PowerBelowIs
  <2>10. heap'.start = from /\ heap'.size = size /\ heap'.end = amount
    BY <2>6 DEF counted
  <2>. HIDE DEF room, size
  <2>11. TheBoot!HeapIsFree'
    <3>1. files'[3] = DataSize /\ TheBoot!Counted(heap'.end) = counted
      BY <2>1, <2>10 DEF DataSize, counted
    <3>2. from > 80 + DataSize - 1 /\ from + size <= amount /\ counted < from + 2 * size
      BY <1>2, <2>5, <2>7, <2>8, <2>9
    <3>. QED  BY <2>10, <3>1, <3>2 DEF TheBoot!HeapIsFree, TheBoot!sampleDataModuleAddress
  <2>. QED  BY <2>1, <2>4, <2>11, UnpackedStays DEF Stages, Late
<1>7. CASE TheBoot!CreateManagers
  <2>1. /\ stage = "managers" /\ stage' = "stack" /\ rax' = 53
        /\ UNCHANGED <<files, currentModule, loaded, heap>>
        /\ memory' = TheBoot!MemSet({21, 37, 53}, TheBoot!Data("manager"))
    BY <1>7 DEF TheBoot!CreateManagers, TheBoot!PIPE_MANAGER_ADDRESS,
       TheBoot!SCHEDULER_ADDRESS, TheBoot!SEMAPHORE_MANAGER_ADDRESS
  <2>2. loaded = 2
    BY <1>1, <2>1
  <2>3. \A c \in {21, 37, 53} : /\ ~(c >= 16 /\ c < EndOfKernel)
                                /\ ~(c >= 64 /\ c < 64 + CodeSize)
                                /\ ~(c >= 80 /\ c < 80 + DataSize) /\ c \notin TheBoot!bss
    BY <1>2, <1>3 DEF EndOfKernel
  <2>4. Unpacked'
    BY <2>1, <2>2, <2>3, ClearKeeps
  <2>5. TheBoot!HeapIsFree'
    BY <2>1 DEF BootInv, Late, TheBoot!HeapIsFree
  <2>. QED  BY <2>1, <2>4, <2>5, UnpackedStays DEF Stages, Late
<1>8. CASE TheBoot!SetStack
  <2>1. /\ stage = "stack" /\ stage' = "main" /\ rsp' = rax /\ rax = 53
        /\ UNCHANGED <<files, currentModule, loaded, heap, rax>>
        /\ memory' = TheBoot!MemSet({rsp' - 1}, TheBoot!Data("stack"))
    BY <1>8 DEF TheBoot!SetStack, BootInv
  <2>2. loaded = 2 /\ rsp' - 1 = 52
    BY <1>1, <2>1
  <2>3. \A c \in {52} : /\ ~(c >= 16 /\ c < EndOfKernel)
                        /\ ~(c >= 64 /\ c < 64 + CodeSize)
                        /\ ~(c >= 80 /\ c < 80 + DataSize) /\ c \notin TheBoot!bss
    BY <1>2, <1>3 DEF EndOfKernel
  <2>4. memory' = TheBoot!MemSet({52}, TheBoot!Data("stack"))
    BY <2>1, <2>2
  <2>5. Unpacked'
    BY <2>1, <2>2, <2>3, <2>4, ClearKeeps
  <2>6. TheBoot!HeapIsFree'
    BY <2>1 DEF BootInv, Late, TheBoot!HeapIsFree
  <2>. QED  BY <2>1, <2>5, <2>6, UnpackedStays DEF Stages, Late
<1>9. CASE TheBoot!StartShell
  <2>. DEFINE shells == TheBoot!Area(64 + CodeSize, UserBss)
  <2>1. /\ stage = "main" /\ stage' = "shell" /\ rax = 53
        /\ UNCHANGED <<files, currentModule, loaded, heap, rax>>
        /\ memory' = TheBoot!MemSet(shells, TheBoot!Number(0))
    BY <1>9 DEF TheBoot!StartShell, BootInv, CodeSize, TheBoot!sampleCodeModuleAddress
  <2>2. loaded = 2
    BY <1>1, <2>1
  <2>3. \A c \in shells : /\ ~(c >= 16 /\ c < EndOfKernel)
                          /\ ~(c >= 64 /\ c < 64 + CodeSize)
                          /\ ~(c >= 80 /\ c < 80 + DataSize)
    BY <1>2, <1>3 DEF EndOfKernel, TheBoot!Area
  <2>. HIDE DEF shells
  <2>4. Unpacked'
    BY <2>1, <2>2, <2>3, ClearKeeps
  <2>5. TheBoot!HeapIsFree'
    BY <2>1 DEF BootInv, Late, TheBoot!HeapIsFree
  <2>. QED  BY <2>1, <2>4, <2>5, UnpackedStays DEF Stages, Late
<1>. QED  BY <1>4, <1>5, <1>6, <1>7, <1>8, <1>9 DEF TheBoot!Next

LEMMA BootStarts ==
  ASSUME Init, part = "boot"
  PROVE  BootInv
<1>1. TheBoot!Init
  BY DEF Init
<1>2. /\ files \in KernelSizes \X CodeSizes \X DataSizes /\ stage = "load" /\ loaded = 0
      /\ currentModule = TheBoot!endOfKernelBinary + 1
  BY <1>1 DEF TheBoot!Init
<1>. DEFINE image == TheBoot!BuildImage(TheBoot!File("kernel", files[1]), TheBoot!Modules)
            e == EndOfKernel
            k == KernelSize
            c == CodeSize
            d == DataSize
<1>3. memory = [x \in TheBoot!Cells |-> IF x - 16 + 1 \in DOMAIN image THEN image[x - 16 + 1]
                                        ELSE TheBoot!Data("garbage")]
  BY <1>1 DEF TheBoot!Init, TheBoot!KernelAddress
<1>4. /\ k \in Nat \ {0} /\ c \in Nat \ {0} /\ d \in Nat \ {0} /\ e \in Nat /\ e = 16 + k
      /\ e <= 20 /\ 64 + c <= 80 /\ 80 + d <= 101
      /\ TheBoot!Cells = 0 .. 100 /\ TheBoot!endOfKernelBinary = e
  <2>1. /\ k \in Nat \ {0} /\ c \in Nat \ {0} /\ d \in Nat \ {0} /\ e \in Nat
        /\ KernelBss \in Nat /\ UserBss \in Nat /\ e + KernelBss <= 20
        /\ 64 + c + UserBss <= 80 /\ 80 + d <= 101
        /\ TheBoot!Cells = 0 .. 100 /\ TheBoot!endOfKernelBinary = e
    BY <1>2, BootConstants
  <2>2. e = 16 + k
    BY DEF EndOfKernel
  <2>. HIDE DEF e, k, c, d
  <2>. QED  BY <2>1, <2>2
<1>5. /\ DOMAIN image = 1 .. k + c + d + 3
      /\ \A i \in 1 .. k : image[i] = <<"kernel", i>>
      /\ image[k + 1] = TheBoot!Number(2) /\ image[k + 2] = TheBoot!Number(c)
      /\ \A i \in 1 .. c : image[k + 2 + i] = <<"code", i>>
      /\ image[k + c + 3] = TheBoot!Number(d)
      /\ \A i \in 1 .. d : image[k + c + 3 + i] = <<"data", i>>
  <2>. HIDE DEF image
  <2>. QED  BY <1>2, ImageLies DEF image
<1>. HIDE DEF image, e, k, c, d
<1>6. \A i \in 1 .. k + c + d + 3 : memory[16 + i - 1] = image[i]
  <2>. SUFFICES ASSUME NEW i \in 1 .. k + c + d + 3 PROVE memory[16 + i - 1] = image[i]
    OBVIOUS
  <2>. DEFINE x == 16 + i - 1
  <2>1. x \in TheBoot!Cells /\ x - 16 + 1 = i
    BY <1>4
  <2>. HIDE DEF x
  <2>2. memory[x] = image[i]
    BY <1>3, <1>5, <2>1
  <2>. QED  BY <2>2 DEF x
<1>7. memory[e] = TheBoot!Number(2) /\ memory[e + 1] = TheBoot!Number(c)
      /\ memory[e + c + 2] = TheBoot!Number(d)
  <2>1. /\ 16 + (k + 1) - 1 = e /\ 16 + (k + 2) - 1 = e + 1
        /\ 16 + (k + c + 3) - 1 = e + c + 2
        /\ k + 1 \in 1 .. k + c + d + 3 /\ k + 2 \in 1 .. k + c + d + 3
        /\ k + c + 3 \in 1 .. k + c + d + 3
    BY <1>4
  <2>2. memory[16 + (k + 1) - 1] = image[k + 1] /\ memory[16 + (k + 2) - 1] = image[k + 2]
        /\ memory[16 + (k + c + 3) - 1] = image[k + c + 3]
    BY <1>6, <2>1
  <2>. QED  BY <1>5, <2>1, <2>2
<1>8. \A i \in 1 .. k : memory[16 + i - 1] = <<"kernel", i>>
  <2>1. \A i \in 1 .. k : i \in 1 .. k + c + d + 3
    BY <1>4
  <2>. QED  BY <1>5, <1>6, <2>1
<1>9. \A i \in 1 .. c : memory[e + 2 + i - 1] = <<"code", i>>
  <2>. SUFFICES ASSUME NEW i \in 1 .. c PROVE memory[e + 2 + i - 1] = <<"code", i>>
    OBVIOUS
  <2>1. 16 + (k + 2 + i) - 1 = e + 2 + i - 1 /\ k + 2 + i \in 1 .. k + c + d + 3
    BY <1>4
  <2>2. memory[16 + (k + 2 + i) - 1] = image[k + 2 + i]
    BY <1>6, <2>1
  <2>. QED  BY <1>5, <2>1, <2>2
<1>10. \A i \in 1 .. d : memory[e + c + 3 + i - 1] = <<"data", i>>
  <2>. SUFFICES ASSUME NEW i \in 1 .. d PROVE memory[e + c + 3 + i - 1] = <<"data", i>>
    OBVIOUS
  <2>1. /\ 16 + (k + c + 3 + i) - 1 = e + c + 3 + i - 1
        /\ k + c + 3 + i \in 1 .. k + c + d + 3
    BY <1>4
  <2>2. memory[16 + (k + c + 3 + i) - 1] = image[k + c + 3 + i]
    BY <1>6, <2>1
  <2>. QED  BY <1>5, <2>1, <2>2
<1>11. Packed
  <2>1. CodeImage = e + 2 /\ DataImage = e + c + 3
    BY DEF CodeImage, DataImage, e, c
  <2>2. Holds(CodeImage, "code", c) /\ Holds(DataImage, "data", d)
    BY <1>9, <1>10, <2>1 DEF Holds
  <2>3. memory[DataImage - 1] = TheBoot!Number(d)
    <3>1. DataImage - 1 = e + c + 2
      BY <1>4, <2>1
    <3>. QED  BY <1>7, <3>1, Zenon
  <2>. QED  BY <1>7, <2>2, <2>3 DEF Packed, e, c, d
<1>12. Holds(16, "kernel", KernelSize)
  BY <1>8 DEF Holds, k
<1>13. currentModule = Read(loaded)
  BY <1>2, <1>4 DEF Read, e
<1>. QED  BY <1>2, <1>11, <1>12, <1>13 DEF BootInv, Loading, Stages, Late

(* When the shell starts, kernel and modules lie where they are run from,  *)
(* as they were packed, the kernel's variables are zero, and the heap is   *)
(* free: for every size of the files that fits between the fixed addresses *)
(* and every amount of memory of which the kernel counts more than it has  *)
(* loaded (it counts modulo 4 GB).                                         *)
THEOREM ModulesIntactHolds == Spec => []ModulesIntact
<1>. DEFINE Inv == part = "boot" => BootInv
<1>1. Init => Inv
  BY BootStarts
<1>2. Inv /\ [Next]_vars => Inv'
  <2>. SUFFICES ASSUME Inv, [Next]_vars, part' = "boot" PROVE BootInv'
    OBVIOUS
  <2>1. part = "boot" /\ (TheBoot!Next \/ UNCHANGED bootVars)
    BY DEF Next, Moves, vars
  <2>2. CASE TheBoot!Next
    BY <2>1, <2>2, BootStep
  <2>3. CASE UNCHANGED bootVars
    BY <2>1, <2>3 DEF bootVars, BootInv, Loading, Packed, Holds, CodeImage, DataImage, Read,
       EndOfKernel, KernelSize, CodeSize, DataSize, TheBoot!bss, TheBoot!Area,
       TheBoot!endOfKernelBinary, TheBoot!HeapIsFree
  <2>. QED  BY <2>1, <2>2, <2>3
<1>3. Inv => ModulesIntact
  <2>. SUFFICES ASSUME BootInv PROVE TheBoot!ModulesIntact /\ TheBoot!HeapIsFree
    BY DEF ModulesIntact
  <2>1. TheBoot!HeapIsFree
    BY DEF BootInv, Late, Stages, TheBoot!HeapIsFree
  <2>2. ASSUME stage = "shell" PROVE TheBoot!ModulesIntact
    <3>1. /\ files \in KernelSizes \X CodeSizes \X DataSizes
          /\ \A c \in TheBoot!bss : memory[c] = TheBoot!Number(0)
          /\ Holds(16, "kernel", KernelSize) /\ Holds(64, "code", CodeSize)
          /\ Holds(80, "data", DataSize)
      BY <2>2 DEF BootInv, Loading
    <3>2. /\ TheBoot!InPlace(16, TheBoot!File("kernel", KernelSize))
          /\ TheBoot!InPlace(64, TheBoot!File("code", CodeSize))
          /\ TheBoot!InPlace(80, TheBoot!File("data", DataSize))
      BY <3>1 DEF Holds, TheBoot!InPlace, TheBoot!File
    <3>3. /\ TheBoot!Targets[1] = 64 /\ TheBoot!Targets[2] = 80
          /\ TheBoot!Modules[1] = TheBoot!File("code", CodeSize)
          /\ TheBoot!Modules[2] = TheBoot!File("data", DataSize)
      BY DEF TheBoot!Targets, TheBoot!Modules, CodeSize, DataSize,
         TheBoot!sampleCodeModuleAddress, TheBoot!sampleDataModuleAddress
    <3>4. \A m \in 1 .. 2 : TheBoot!InPlace(TheBoot!Targets[m], TheBoot!Modules[m])
      BY <3>2, <3>3
    <3>. QED  BY <3>1, <3>2, <3>4 DEF TheBoot!ModulesIntact, TheBoot!KernelAddress, KernelSize
  <2>. QED  BY <2>1, <2>2 DEF TheBoot!ModulesIntact
<1>. HIDE DEF Inv, Init, Next, vars, Fairness
<1>. QED  BY <1>1, <1>2, <1>3, PTL DEF Spec
=============================================================================
