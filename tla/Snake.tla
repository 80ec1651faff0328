-------------------------------- MODULE Snake -------------------------------
(***************************************************************************)
(* The game (snake.c) for one player or two, as the command says: each     *)
(* plays on a board of his own, and all draw on the same screen, only the  *)
(* squares that changed.  Keys are polled once per frame.  The score that  *)
(* is shown is left out: it is static (20) and set back only when a game   *)
(* ends by itself (233, 275), so it also counts what was eaten in a game   *)
(* that Ctrl+C ended before, or in another snake that runs.                *)
(***************************************************************************)
EXTENDS Integers, Sequences

CONSTANTS WIDTH, HEIGHT,
          INITIAL_SNAKE_LENGTH,
          Keys,            \* the keys the players press
          MaxKeys,         \* bound: keys that wait in the keyboard's buffer
          MaxFood          \* bound: foods eaten

(* What the constants must satisfy; assumed where they are given values.  *)
SnakeAssumption ==
  /\ {WIDTH, HEIGHT} \subseteq Nat \ {0, 1}
  /\ INITIAL_SNAKE_LENGTH \in Nat \ {0, 1} /\ MaxKeys \in Nat /\ MaxFood \in Nat
  /\ INITIAL_SNAKE_LENGTH + MaxFood < WIDTH * HEIGHT - 1    \* MAX_SNAKE_LENGTH

VARIABLES players,         \* how many: snake(int players)
          body, dir, food, gameOver, board,    \* per player: GameState
          screen, keys,
          eaten            \* history: foods eaten in this game

gameVars == <<body, dir, food, gameOver, board>>
vars == <<players, gameVars, screen, keys, eaten>>

Players == 1 .. players
Points == (0 .. WIDTH - 1) \X (0 .. HEIGHT - 1)
NUL == "NUL"

Init ==    \* GameState game = {0}, initGame
  /\ players \in 1 .. 2
  /\ body = [p \in Players |-> [k \in 1 .. INITIAL_SNAKE_LENGTH |-> <<0, 0>>]]
  /\ dir = [p \in Players |-> IF p = 1 THEN "RIGHT" ELSE "DOWN"]
  /\ food = [p \in Players |-> <<WIDTH \div 2, HEIGHT \div 2>>]
  /\ gameOver = [p \in Players |-> FALSE]
  /\ board = [p \in Players |-> [c \in Points |-> IF c = food[p] THEN "food" ELSE "free"]]
  /\ screen = board[1] /\ keys = <<>> /\ eaten = 0

-----------------------------------------------------------------------------
(* changeDirection and changeDirection2                                    *)
Wanted(p, input) ==
  CASE input = (IF p = 1 THEN "w" ELSE "i") -> "UP"
    [] input = (IF p = 1 THEN "s" ELSE "k") -> "DOWN"
    [] input = (IF p = 1 THEN "a" ELSE "j") -> "LEFT"
    [] input = (IF p = 1 THEN "d" ELSE "l") -> "RIGHT"
    [] OTHER -> "none"
Opposite ==
  [d \in {"UP", "DOWN", "LEFT", "RIGHT", "none"} |->
     CASE d = "UP" -> "DOWN" [] d = "DOWN" -> "UP"
       [] d = "LEFT" -> "RIGHT" [] d = "RIGHT" -> "LEFT" [] OTHER -> "none"]
ChangeDirectionFreely(p, input) ==    \* mutant: the snake may turn round
  IF Wanted(p, input) = "none" THEN dir[p] ELSE Wanted(p, input)
ChangeDirection(p, input) ==
  LET d == Wanted(p, input)
  IN IF d = "none" \/ dir[p] = Opposite[d] THEN dir[p] ELSE d
(* The loop: if a key waits it is thrown away, and the next one, or NUL,   *)
(* is the input.                                                           *)
Input == IF Len(keys) > 1 THEN keys[2] ELSE NUL
KeysLeft == IF Len(keys) > 1 THEN Tail(Tail(keys)) ELSE <<>>

(* updateGame                                                              *)
NextHead(p, d) ==
  LET x == body[p][1][1]  y == body[p][1][2]
  IN CASE d = "UP" -> <<x, y - 1>> [] d = "DOWN" -> <<x, y + 1>>
       [] d = "LEFT" -> <<x - 1, y>> [] d = "RIGHT" -> <<x + 1, y>>
Squares(b) == {b[k] : k \in DOMAIN b}
Crash(p, head) == head \notin Points \/ head \in Squares(body[p])
Moved(p, head) ==    \* grows over the square its tail would have left
  <<head>> \o (IF head = food[p] THEN body[p] ELSE SubSeq(body[p], 1, Len(body[p]) - 1))

(* redrawBoard                                                             *)
Square(b, f, c) == IF c \in Squares(b) THEN "snake" ELSE IF c = f THEN "food" ELSE "free"
Redraw(b, f) == [c \in Points |-> Square(b, f, c)]
Draw(shown, p, new) ==
  [c \in Points |-> IF board[p][c] # new[c] THEN new[c] ELSE shown[c]]

Press(key) ==
  /\ Len(keys) < MaxKeys /\ keys' = Append(keys, key)
  /\ UNCHANGED <<players, gameVars, screen, eaten>>
Frame ==
  /\ \A p \in Players : ~gameOver[p]
  /\ keys' = KeysLeft
  /\ dir' = [p \in Players |-> ChangeDirection(p, Input)]
  /\ LET head == [p \in Players |-> NextHead(p, dir'[p])]
         crashed == {p \in Players : Crash(p, head[p])}
         eats == {p \in Players \ crashed : head[p] = food[p]}
     IN /\ gameOver' = [p \in Players |-> p \in crashed]
        /\ body' = [p \in Players |-> IF p \in crashed THEN body[p] ELSE Moved(p, head[p])]
        /\ food' \in [Players -> Points]
        /\ \A p \in Players \ eats : food'[p] = food[p]
        /\ eaten' = eaten + (IF 1 \in eats THEN 1 ELSE 0) + (IF 2 \in eats THEN 1 ELSE 0)
  /\ eaten' <= MaxFood    \* bound
  /\ UNCHANGED players
  /\ board' = [p \in Players |-> Redraw(body'[p], food'[p])]
  /\ screen' = IF 2 \in Players THEN Draw(Draw(screen, 1, board'[1]), 2, board'[2])
               ELSE Draw(screen, 1, board'[1])

Next == Frame \/ \E key \in Keys : Press(key)
Spec == Init /\ [][Next]_vars

-----------------------------------------------------------------------------
(* A snake never ends the game by turning into its own neck, whatever keys *)
(* come between two frames: its direction changes at most once per move.   *)
NeverIntoNeck ==
  \A p \in Players : gameOver[p] => NextHead(p, dir[p]) # body[p][2]
(* The snake is a path: its squares are neighbours and, but for the ones   *)
(* still stacked in the corner where it starts, no two are the same; and   *)
(* all the snakes are longer by is what they have eaten.                   *)
SnakeIsPath ==
  /\ \A p \in Players : \A k \in 2 .. Len(body[p]) :
       LET a == body[p][k - 1]  b == body[p][k]
       IN \/ (a[1] - b[1]) * (a[1] - b[1]) + (a[2] - b[2]) * (a[2] - b[2]) = 1
          \/ a = b /\ a = <<0, 0>>
  /\ \A p \in Players : \A j, k \in DOMAIN body[p] :
       j < k /\ body[p][j] = body[p][k] => body[p][k] = <<0, 0>> /\ body[p][k - 1] = <<0, 0>>
  /\ eaten = Len(body[1]) - INITIAL_SNAKE_LENGTH
             + (IF 2 \in Players THEN Len(body[2]) - INITIAL_SNAKE_LENGTH ELSE 0)
(* One player's screen shows the game, although only the squares whose     *)
(* content changed are painted; food under the snake shows when it leaves. *)
ScreenShowsGame == players = 1 => screen = [c \in Points |-> board[1][c]]
(* "Use WASD to move": a key that waits when the frame begins, and does    *)
(* not point backwards, gives the snake its direction.                     *)
KeySteers ==
  [][Len(keys) = 1 /\ keys' = <<>> /\ Wanted(1, keys[1]) # "none"
       => dir'[1] = ChangeDirection(1, keys[1])]_vars
=============================================================================
