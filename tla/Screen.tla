------------------------------- MODULE Screen -------------------------------
(***************************************************************************)
(* The text screen (Kernel/drivers/videoDriver.c).  All lengths are in     *)
(* cells of 8 by 16 pixels, of which the code adds and subtracts only      *)
(* multiples; a character of size s covers s by s of them.  The frame      *)
(* buffer is one run of scan lines: a pixel beyond the end of its scan     *)
(* line is one of the next, that is, of the same row of cells (but for one *)
(* scan line in sixteen, which the model leaves out).                      *)
(***************************************************************************)
EXTENDS Integers

CONSTANTS WIDTH, HEIGHT,   \* of the screen
          PITCH,           \* from one scan line to the next
          MaxSize          \* bound: charSize

(* What the constants must satisfy; assumed where they are given values.  *)
ScreenAssumption ==
  /\ {WIDTH, HEIGHT, MaxSize} \subseteq Nat \ {0} /\ PITCH \in Nat /\ PITCH >= WIDTH
  /\ MaxSize < 256    \* charSize is eight bits: at 256 limit divides by zero

VARIABLES cursorX, cursorY, charSize,
          inked,           \* the cells of the screen something is drawn in
          above            \* history: the cursor left the screen at its top
vars == <<cursorX, cursorY, charSize, inked, above>>

Cells == (0 .. WIDTH - 1) \X (0 .. HEIGHT - 1)
X16(x) == x % 8192    \* uint16_t, in cells of 8 pixels
Y16(y) == y % 4096    \* and of 16

Init == cursorX = 0 /\ cursorY = 0 /\ charSize = 1 /\ inked = {} /\ above = FALSE

-----------------------------------------------------------------------------
(* putPixel, for the square of a character: where its pixels lie.          *)
Covered(x, y) ==
  {<<(x + i) % PITCH, y + j>> : i, j \in 0 .. charSize - 1} \cap Cells
(* The column at which a row is full.                                      *)
Limit == WIDTH - (WIDTH % charSize)

Clear == cursorX' = 0 /\ cursorY' = 0 /\ inked' = {}

(* drawChar at a cursor that is not there yet: the end of the row, and the *)
(* end of the screen, which is cleared.                                    *)
DrawAt(x, y) ==
  LET full == x >= Limit
      row == IF full THEN Y16(y + charSize) ELSE y
      over == row > HEIGHT
      col == IF full \/ over THEN 0 ELSE x
      top == IF over THEN 0 ELSE row
  IN /\ cursorX' = X16(col + charSize) /\ cursorY' = top
     /\ inked' = (IF over THEN {} ELSE inked) \cup Covered(col, top)
     /\ above' = (above /\ ~over)
     /\ UNCHANGED charSize

(* driver_printChar                                                        *)
DrawChar == DrawAt(cursorX, cursorY)
NewLine == DrawAt(0, Y16(cursorY + charSize))    \* the prompt's '>'
Backspace ==
  /\ ~above /\ cursorX <= WIDTH    \* bound: no further out of the screen
  /\ IF cursorX > 0
     THEN cursorX' = X16(cursorX - charSize) /\ UNCHANGED cursorY
     ELSE cursorX' = Limit /\ cursorY' = Y16(cursorY - charSize)
  /\ inked' = inked \ Covered(cursorX', cursorY')
  /\ above' = (above \/ (cursorX = 0 /\ cursorY < charSize))
  /\ UNCHANGED charSize

SysClear == Clear /\ above' = FALSE /\ UNCHANGED charSize
IncrementSize ==
  /\ charSize < MaxSize    \* bound
  /\ charSize' = charSize + 1 /\ UNCHANGED <<cursorX, cursorY, inked, above>>
(* Mutant: the smaller letters go on in the same row.                      *)
SameRow == cursorY' = cursorY
NextRow == cursorY' = Y16(cursorY + charSize)
DecrementSize ==
  /\ cursorY <= HEIGHT    \* bound: not again and again with nothing drawn
  /\ charSize > 1 /\ charSize' = charSize - 1
  /\ cursorX' = 0 /\ NextRow
  /\ UNCHANGED <<inked, above>>

Next ==
  \/ DrawChar \/ NewLine \/ Backspace \/ SysClear
  \/ IncrementSize \/ DecrementSize
Spec == Init /\ [][Next]_vars

-----------------------------------------------------------------------------
(* No character is drawn over another, whatever is printed, erased and     *)
(* resized in whatever order: unless it does not fit in its row, where     *)
(* growing the letters in the middle of a row leaves the cursor, or the    *)
(* cursor went above the first row.                                        *)
OverprintsNothing ==
  [][(DrawChar \/ NewLine) /\ ~above /\ cursorX' <= WIDTH
       => \/ Covered(cursorX' - charSize, cursorY') \cap inked = {}
          \/ cursorY' = 0 /\ cursorY > 0]_vars    \* the screen was cleared
(* "paso al final de la linea anterior": a backspace erases the end of the *)
(* text; at the left edge, that of the line above.                         *)
BackspaceErasesEnd ==
  [][Backspace => \A c \in inked \ inked', d \in inked' :
        d[2] < c[2] \/ (d[2] = c[2] /\ d[1] < c[1])]_vars
=============================================================================
