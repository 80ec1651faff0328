--------------------------- MODULE UserPartsProofs --------------------------
(***************************************************************************)
(* Proofs about the programs of the user's side, for every value of the    *)
(* bounds.  What runs is chosen once; a part that does not run keeps what  *)
(* it had, so each part is proved by itself.                               *)
(***************************************************************************)
EXTENDS UserParts, TLAPS, SequenceTheorems, FiniteSetTheorems

(* A step of a part, with the others left alone.                           *)
LEMMA PartStays == ASSUME [PartsNext]_partsVars PROVE UNCHANGED part
BY DEF PartsNext, Moves, partsVars

-----------------------------------------------------------------------------
(* The game, for one player and for two.                                   *)
Dirs == {"UP", "DOWN", "LEFT", "RIGHT"}

(* The square next to c in a direction.                                    *)
Ahead(c, d) ==
  IF d = "UP" THEN <<c[1], c[2] - 1>> ELSE IF d = "DOWN" THEN <<c[1], c[2] + 1>>
  ELSE IF d = "LEFT" THEN <<c[1] - 1, c[2]>> ELSE <<c[1] + 1, c[2]>>
Adjacent(a, b) == (a[1] - b[1]) * (a[1] - b[1]) + (a[2] - b[2]) * (a[2] - b[2]) = 1
Corner == <<0, 0>>

(* A body: a path that does not cross itself, but for the corner.          *)
Path(b) ==
  /\ b \in Seq(Snakes!Points) /\ Len(b) >= 2
  /\ \A k \in 2 .. Len(b) : Adjacent(b[k - 1], b[k]) \/ (b[k - 1] = b[k] /\ b[k - 1] = Corner)
  /\ \A j, k \in DOMAIN b : j < k /\ b[j] = b[k] => b[k] = Corner /\ b[k - 1] = Corner
(* The neck is behind the head, seen in the direction of the last move.    *)
Behind(b, d) == b[1] = b[2] \/ b[1] = Ahead(b[2], d)

LEMMA AheadLemma ==
  ASSUME NEW c \in Snakes!Points, NEW d \in Dirs
  PROVE  /\ Adjacent(Ahead(c, d), c) /\ Ahead(c, d) # c
         /\ Ahead(c, d)[1] \in Int /\ Ahead(c, d)[2] \in Int
         /\ \A e \in Dirs :
              Ahead(Ahead(c, d), e) = c => e = Snakes!Opposite[d] /\ d = Snakes!Opposite[e]
<1>1. PICK x \in Int, y \in Int : c = <<x, y>>
  BY DEF Snakes!Points
<1>2. /\ Snakes!Opposite["UP"] = "DOWN" /\ Snakes!Opposite["DOWN"] = "UP"
      /\ Snakes!Opposite["LEFT"] = "RIGHT" /\ Snakes!Opposite["RIGHT"] = "LEFT"
  BY DEF Snakes!Opposite
<1>3. CASE d = "UP"
  <2>1. Ahead(c, d) = <<x, y - 1>>
    BY <1>1, <1>3 DEF Ahead
  <2>. QED  BY <1>1, <1>2, <1>3, <2>1 DEF Ahead, Adjacent, Dirs
<1>4. CASE d = "DOWN"
  <2>1. Ahead(c, d) = <<x, y + 1>>
    BY <1>1, <1>4 DEF Ahead
  <2>. QED  BY <1>1, <1>2, <1>4, <2>1 DEF Ahead, Adjacent, Dirs
<1>5. CASE d = "LEFT"
  <2>1. Ahead(c, d) = <<x - 1, y>>
    BY <1>1, <1>5 DEF Ahead
  <2>. QED  BY <1>1, <1>2, <1>5, <2>1 DEF Ahead, Adjacent, Dirs
<1>6. CASE d = "RIGHT"
  <2>1. Ahead(c, d) = <<x + 1, y>>
    BY <1>1, <1>6 DEF Ahead
  <2>. QED  BY <1>1, <1>2, <1>6, <2>1 DEF Ahead, Adjacent, Dirs
<1>. QED  BY <1>3, <1>4, <1>5, <1>6 DEF Dirs

(* A turn is never a turn round.                                           *)
LEMMA TurnLemma ==
  ASSUME NEW p, NEW key, dir[p] \in Dirs
  PROVE  /\ Snakes!ChangeDirection(p, key) \in Dirs
         /\ dir[p] # Snakes!Opposite[Snakes!ChangeDirection(p, key)]
<1>1. Snakes!Wanted(p, key) \in Dirs \cup {"none"}
  BY DEF Snakes!Wanted, Dirs
<1>2. dir[p] # Snakes!Opposite[dir[p]]
  BY DEF Dirs, Snakes!Opposite
<1>. HIDE DEF Snakes!Wanted
<1>. QED  BY <1>1, <1>2 DEF Snakes!ChangeDirection

(* A move that does not end the game, with food and without.               *)
Grown(b, head) == <<head>> \o b
Shifted(b, head) == <<head>> \o SubSeq(b, 1, Len(b) - 1)

LEMMA PathLemma ==
  ASSUME NEW b, Path(b), NEW head \in Snakes!Points, head \notin Snakes!Squares(b),
         Adjacent(head, b[1]),
         NEW m \in {Grown(b, head), Shifted(b, head)}
  PROVE  /\ Path(m) /\ m[1] = head /\ m[2] = b[1]
         /\ m = Grown(b, head) => Len(m) = Len(b) + 1
         /\ m = Shifted(b, head) => Len(m) = Len(b)
<1>. USE DEF Grown, Shifted
<1>1. b \in Seq(Snakes!Points) /\ Len(b) \in Nat /\ Len(b) >= 2
  BY DEF Path
<1>. DEFINE front == SubSeq(b, 1, Len(b) - 1)
<1>2. /\ front \in Seq(Snakes!Points) /\ Len(front) = Len(b) - 1
      /\ \A k \in 1 .. Len(b) - 1 : front[k] = b[k]
  BY <1>1
<1>3. /\ <<head>> \o b \in Seq(Snakes!Points) /\ Len(<<head>> \o b) = Len(b) + 1
      /\ \A k \in 1 .. Len(b) + 1 :
           (<<head>> \o b)[k] = IF k = 1 THEN head ELSE b[k - 1]
  BY <1>1
<1>. HIDE DEF front
<1>4. /\ <<head>> \o front \in Seq(Snakes!Points) /\ Len(<<head>> \o front) = Len(b)
      /\ \A k \in 1 .. Len(b) :
           (<<head>> \o front)[k] = IF k = 1 THEN head ELSE front[k - 1]
  BY <1>1, <1>2
<1>5. /\ m \in Seq(Snakes!Points) /\ Len(m) \in {Len(b), Len(b) + 1}
      /\ \A k \in 1 .. Len(m) : m[k] = IF k = 1 THEN head ELSE b[k - 1]
  <2>1. CASE m = <<head>> \o b
    BY <1>1, <1>3, <2>1
  <2>2. CASE m = <<head>> \o front
    BY <1>1, <1>2, <1>4, <2>2
  <2>. QED  BY <2>1, <2>2 DEF front
<1>6. m[1] = head /\ m[2] = b[1] /\ Len(m) >= 2 /\ DOMAIN m = 1 .. Len(m)
  BY <1>1, <1>5
<1>7. \A k \in 1 .. Len(b) : b[k] # head
  BY <1>1 DEF Snakes!Squares
<1>8. ASSUME NEW k \in 2 .. Len(m)
      PROVE  Adjacent(m[k - 1], m[k]) \/ (m[k - 1] = m[k] /\ m[k - 1] = Corner)
  <2>1. CASE k = 2
    <3>1. k - 1 = 1
      BY <2>1
    <3>2. m[k - 1] = m[1] /\ m[k] = m[2]
      BY <2>1, <3>1, Zenon
    <3>3. m[k - 1] = head /\ m[k] = b[1]
      BY <1>6, <3>2, Zenon
    <3>. QED  BY <3>3, Zenon
  <2>2. CASE k # 2
    <3>. DEFINE h == k - 1
    <3>1. h \in 2 .. Len(b) /\ m[k] = b[h] /\ m[h] = b[h - 1]
      BY <1>1, <1>5, <2>2
    <3>. HIDE DEF h
    <3>2. Adjacent(b[h - 1], b[h]) \/ (b[h - 1] = b[h] /\ b[h - 1] = Corner)
      BY <3>1, Zenon DEF Path
    <3>3. Adjacent(m[h], m[k]) \/ (m[h] = m[k] /\ m[h] = Corner)
      BY <3>1, <3>2, Zenon
    <3>. QED  BY <3>3, Zenon DEF h
  <2>. QED  BY <2>1, <2>2
<1>9. ASSUME NEW j \in DOMAIN m, NEW k \in DOMAIN m, j < k, m[j] = m[k]
      PROVE  m[k] = Corner /\ m[k - 1] = Corner
  <2>1. /\ j \in 1 .. Len(m) /\ k \in 1 .. Len(m) /\ Len(m) \in Nat
        /\ Len(m) <= Len(b) + 1 /\ k # 1
    <3>1. Len(m) \in Nat /\ Len(m) <= Len(b) + 1
      BY <1>1, <1>5
    <3>2. j \in 1 .. Len(m) /\ k \in 1 .. Len(m)
      BY <1>6
    <3>3. k # 1
      BY <1>9, <3>1, <3>2
    <3>. QED  BY <3>1, <3>2, <3>3
  <2>2. m[k] = b[k - 1] /\ k - 1 \in 1 .. Len(b)
    BY <1>1, <1>5, <2>1
  <2>3. j # 1
    BY <1>5, <1>7, <1>9, <2>1, <2>2
  <2>4. m[j] = b[j - 1] /\ j - 1 \in 1 .. Len(b) /\ j - 1 < k - 1 /\ k - 1 \in 1 .. Len(m)
        /\ k - 1 # 1
    BY <1>1, <1>5, <1>9, <2>1, <2>3
  <2>5. m[k - 1] = b[k - 1 - 1]
    BY <1>5, <2>4
  <2>6. j - 1 \in DOMAIN b /\ k - 1 \in DOMAIN b
    BY <1>1, <2>2, <2>4
  <2>. QED  BY <1>9, <2>2, <2>4, <2>5, <2>6 DEF Path
<1>10. Path(m)
  BY <1>5, <1>6, <1>8, <1>9 DEF Path
<1>. QED  BY <1>3, <1>4, <1>6, <1>10 DEF front

-----------------------------------------------------------------------------
LengthsTold ==
  eaten = Len(body[1]) - INITIAL_SNAKE_LENGTH
          + (IF 2 \in Snakes!Players THEN Len(body[2]) - INITIAL_SNAKE_LENGTH ELSE 0)
GameInv ==
  /\ players \in 1 .. 2
  /\ body \in [Snakes!Players -> Seq(Snakes!Points)] /\ dir \in [Snakes!Players -> Dirs]
  /\ food \in [Snakes!Players -> Snakes!Points]
  /\ gameOver \in [Snakes!Players -> BOOLEAN] /\ eaten \in Int
  /\ \A p \in Snakes!Players :
       /\ Path(body[p])
       /\ IF gameOver[p] THEN Ahead(body[p][1], dir[p]) # body[p][2]
          ELSE Behind(body[p], dir[p])
  /\ LengthsTold
  /\ Snakes!ScreenShowsGame
  /\ players = 1 => board[1] = [c \in Snakes!Points |-> board[1][c]]

LEMMA GameInit == ASSUME Snakes!SnakeAssumption, Snakes!Init PROVE GameInv
<1>1. /\ 1 \in Snakes!Players /\ Snakes!Players \subseteq {1, 2} /\ Corner \in Snakes!Points
      /\ INITIAL_SNAKE_LENGTH \in Nat /\ INITIAL_SNAKE_LENGTH >= 2
      /\ <<WIDTH \div 2, HEIGHT \div 2>> \in Snakes!Points
  BY DEF Snakes!SnakeAssumption, Snakes!Points, Corner, Snakes!Init, Snakes!Players
<1>. DEFINE b == [k \in 1 .. INITIAL_SNAKE_LENGTH |-> Corner]
<1>2. b \in Seq(Snakes!Points) /\ Len(b) = INITIAL_SNAKE_LENGTH
      /\ DOMAIN b = 1 .. INITIAL_SNAKE_LENGTH
  BY <1>1
<1>3. \A k \in 1 .. INITIAL_SNAKE_LENGTH : b[k] = Corner
  OBVIOUS
<1>. HIDE DEF b
<1>4. Path(b) /\ b[1] = b[2]
  <2>1. /\ \A k \in 2 .. Len(b) : k - 1 \in 1 .. INITIAL_SNAKE_LENGTH
                                /\ k \in 1 .. INITIAL_SNAKE_LENGTH
        /\ \A j, k \in DOMAIN b : j < k => k - 1 \in 1 .. INITIAL_SNAKE_LENGTH
    BY <1>1, <1>2
  <2>2. b[1] = b[2]
    BY <1>1, <1>3
  <2>. QED  BY <1>1, <1>2, <1>3, <2>1, <2>2 DEF Path
<1>5. \A p \in Snakes!Players : body[p] = b
  BY DEF Snakes!Init, b, Corner
<1>6. body \in [Snakes!Players -> Seq(Snakes!Points)]
  BY <1>2 DEF Snakes!Init, b, Corner
<1>7. /\ dir \in [Snakes!Players -> Dirs] /\ food \in [Snakes!Players -> Snakes!Points]
      /\ gameOver \in [Snakes!Players -> BOOLEAN]
  <2>1. dir \in [Snakes!Players -> Dirs]
    BY DEF Snakes!Init, Dirs
  <2>2. food \in [Snakes!Players -> Snakes!Points]
    <3>. DEFINE middle == <<WIDTH \div 2, HEIGHT \div 2>>
    <3>1. food = [p \in Snakes!Players |-> middle] /\ middle \in Snakes!Points
      BY <1>1 DEF Snakes!Init
    <3>. HIDE DEF middle
    <3>. QED  BY <3>1, Zenon
  <2>3. gameOver \in [Snakes!Players -> BOOLEAN]
    BY DEF Snakes!Init
  <2>. QED  BY <2>1, <2>2, <2>3
<1>8. \A p \in Snakes!Players : ~gameOver[p] /\ Behind(body[p], dir[p])
  <2>1. \A p \in Snakes!Players : ~gameOver[p]
    BY DEF Snakes!Init
  <2>. QED  BY <1>4, <1>5, <2>1 DEF Behind
<1>9. eaten = 0 /\ LengthsTold
  BY <1>1, <1>2, <1>5 DEF Snakes!Init, LengthsTold
<1>10. Snakes!ScreenShowsGame /\ board[1] = [c \in Snakes!Points |-> board[1][c]]
  BY <1>1 DEF Snakes!Init, Snakes!ScreenShowsGame
<1>11. players \in 1 .. 2
  BY DEF Snakes!Init
<1>. QED  BY <1>4, <1>5, <1>6, <1>7, <1>8, <1>9, <1>10, <1>11 DEF GameInv

LEMMA NeckLemma ==
  ASSUME NEW b, Path(b), NEW old \in Dirs, NEW d \in Dirs, Behind(b, old),
         old # Snakes!Opposite[d]
  PROVE  /\ Ahead(b[1], d) # b[2] /\ Adjacent(Ahead(b[1], d), b[1])
<1>1. b[1] \in Snakes!Points /\ b[2] \in Snakes!Points
  BY DEF Path
<1>. QED  BY <1>1, AheadLemma DEF Behind

(* One frame, taken apart.                                                 *)
HeadOf(p) == Snakes!NextHead(p, dir'[p])
Crashes(p) == Snakes!Crash(p, HeadOf(p))
Eats(p) == ~Crashes(p) /\ HeadOf(p) = food[p]

LEMMA FrameLemma ==
  ASSUME Snakes!Frame
  PROVE  /\ \A p \in Snakes!Players :
              /\ ~gameOver[p] /\ dir'[p] = Snakes!ChangeDirection(p, Snakes!Input)
              /\ gameOver'[p] <=> Crashes(p)
              /\ Crashes(p) => body'[p] = body[p]
              /\ ~Crashes(p) => body'[p] = Snakes!Moved(p, HeadOf(p))
         /\ gameOver' \in [Snakes!Players -> BOOLEAN]
         /\ food' \in [Snakes!Players -> Snakes!Points]
         /\ DOMAIN dir' = Snakes!Players /\ DOMAIN body' = Snakes!Players
         /\ dir' = [p \in Snakes!Players |-> dir'[p]]
         /\ body' = [p \in Snakes!Players |-> body'[p]]
         /\ eaten' = eaten + (IF 1 \in Snakes!Players /\ Eats(1) THEN 1 ELSE 0)
                            + (IF 2 \in Snakes!Players /\ Eats(2) THEN 1 ELSE 0)
         /\ players' = players /\ Snakes!Players' = Snakes!Players
<1>. DEFINE heads == [p \in Snakes!Players |-> Snakes!NextHead(p, dir'[p])]
            crashed == {p \in Snakes!Players : Snakes!Crash(p, heads[p])}
            eats == {p \in Snakes!Players \ crashed : heads[p] = food[p]}
<1>. HIDE DEF Snakes!NextHead, Snakes!Crash, Snakes!Moved, Snakes!ChangeDirection, Snakes!Draw
<1>1. /\ gameOver' = [p \in Snakes!Players |-> p \in crashed]
      /\ body' = [p \in Snakes!Players |->
                    IF p \in crashed THEN body[p] ELSE Snakes!Moved(p, heads[p])]
      /\ food' \in [Snakes!Players -> Snakes!Points]
      /\ eaten' = eaten + (IF 1 \in eats THEN 1 ELSE 0) + (IF 2 \in eats THEN 1 ELSE 0)
  BY DEF Snakes!Frame
<1>2. /\ \A p \in Snakes!Players :
           ~gameOver[p] /\ dir'[p] = Snakes!ChangeDirection(p, Snakes!Input)
      /\ dir' = [p \in Snakes!Players |-> dir'[p]] /\ DOMAIN dir' = Snakes!Players
  BY DEF Snakes!Frame
<1>3. \A p \in Snakes!Players : heads[p] = HeadOf(p)
  BY DEF HeadOf
<1>4. \A p \in Snakes!Players : p \in crashed <=> Crashes(p)
  BY <1>3 DEF Crashes
<1>5. \A p : p \in eats <=> p \in Snakes!Players /\ Eats(p)
  BY <1>3, <1>4 DEF Eats
<1>. HIDE DEF heads, crashed, eats
<1>6. \A p \in Snakes!Players : gameOver'[p] <=> p \in crashed
  BY <1>1, Zenon
<1>7. gameOver' \in [Snakes!Players -> BOOLEAN]
  <2>1. \A p \in Snakes!Players : (p \in crashed) \in BOOLEAN
    OBVIOUS
  <2>. QED  BY <1>1, <2>1, Zenon
<1>8. \A p \in Snakes!Players : /\ p \in crashed => body'[p] = body[p]
                         /\ p \notin crashed => body'[p] = Snakes!Moved(p, heads[p])
  BY <1>1
<1>9. body' = [p \in Snakes!Players |-> body'[p]] /\ DOMAIN body' = Snakes!Players
  BY <1>1
<1>10. players' = players /\ Snakes!Players' = Snakes!Players
  BY DEF Snakes!Frame, Snakes!Players
<1>. QED  BY <1>1, <1>2, <1>3, <1>4, <1>5, <1>6, <1>7, <1>8, <1>9, <1>10

(* One frame, for one player.                                              *)
LEMMA PlayerMoves ==
  ASSUME GameInv, Snakes!Frame, NEW p \in Snakes!Players
  PROVE  /\ dir'[p] \in Dirs /\ Path(body'[p])
         /\ IF gameOver'[p] THEN Ahead(body'[p][1], dir'[p]) # body'[p][2]
            ELSE Behind(body'[p], dir'[p])
         /\ Len(body'[p]) = Len(body[p]) + (IF Eats(p) THEN 1 ELSE 0)
<1>. DEFINE d == dir'[p]
            head == HeadOf(p)
            b == body[p]
            m == body'[p]
<1>1. dir[p] \in Dirs /\ Path(b) /\ Behind(b, dir[p])
  BY FrameLemma DEF GameInv
<1>2. d \in Dirs /\ dir[p] # Snakes!Opposite[d]
  BY <1>1, FrameLemma, TurnLemma
<1>3. head = Ahead(b[1], d)
  BY <1>2 DEF HeadOf, Snakes!NextHead, Ahead, Dirs
<1>4. head # b[2] /\ Adjacent(head, b[1])
  BY <1>1, <1>2, <1>3, NeckLemma
<1>5. Len(b) \in Nat /\ Len(b) >= 2
  BY <1>1 DEF Path
<1>7. CASE Crashes(p)
  <2>1. gameOver'[p] /\ m = b /\ ~Eats(p)
    BY <1>7, FrameLemma DEF Eats
  <2>2. Path(m) /\ Len(m) = Len(b) + (IF Eats(p) THEN 1 ELSE 0)
    BY <1>1, <1>5, <2>1
  <2>3. Ahead(m[1], d) # m[2]
    BY <1>3, <1>4, <2>1, Zenon
  <2>. QED  BY <1>2, <2>1, <2>2, <2>3, Zenon
<1>8. CASE ~Crashes(p)
  <2>1. head \in Snakes!Points /\ head \notin Snakes!Squares(b)
    BY <1>8 DEF Crashes, Snakes!Crash
  <2>2. /\ ~gameOver'[p]
        /\ Eats(p) <=> head = food[p]
        /\ m = IF head = food[p] THEN <<head>> \o b ELSE <<head>> \o SubSeq(b, 1, Len(b) - 1)
    BY <1>8, FrameLemma DEF Snakes!Moved, Eats
  <2>. HIDE DEF head, b, m
  <2>3. /\ Path(m) /\ m[1] = head /\ m[2] = b[1]
        /\ head = food[p] => Len(m) = Len(b) + 1
        /\ head # food[p] => Len(m) = Len(b)
    <3>1. Path(b) /\ head \in Snakes!Points /\ head \notin Snakes!Squares(b)
          /\ Adjacent(head, b[1])
      BY <1>1, <1>4, <2>1
    <3>2. m = IF head = food[p] THEN Grown(b, head) ELSE Shifted(b, head)
      BY <2>2 DEF Grown, Shifted
    <3>. QED  BY <3>1, <3>2, PathLemma
  <2>4. Behind(m, d)
    BY <1>3, <2>3 DEF Behind
  <2>5. Len(m) = Len(b) + (IF Eats(p) THEN 1 ELSE 0)
    BY <1>5, <2>2, <2>3
  <2>. QED  BY <1>2, <2>2, <2>3, <2>4, <2>5, Zenon DEF b, m
<1>. QED  BY <1>7, <1>8, Zenon

LEMMA ScoreMoves ==
  ASSUME Snakes!SnakeAssumption, GameInv, Snakes!Frame
  PROVE  LengthsTold' /\ eaten' \in Int
<1>1. /\ 1 \in Snakes!Players /\ eaten \in Int /\ INITIAL_SNAKE_LENGTH \in Nat /\ LengthsTold
      /\ \A p \in Snakes!Players : Len(body[p]) \in Nat
  <2>1. eaten \in Int /\ LengthsTold /\ players \in 1 .. 2
    BY DEF GameInv
  <2>2. 1 \in Snakes!Players /\ INITIAL_SNAKE_LENGTH \in Nat
    BY <2>1 DEF Snakes!SnakeAssumption, Snakes!Players
  <2>3. \A p \in Snakes!Players : body[p] \in Seq(Snakes!Points)
    BY DEF GameInv, Path
  <2>. QED  BY <2>1, <2>2, <2>3
<1>2. \A p \in Snakes!Players : Len(body'[p]) = Len(body[p]) + (IF Eats(p) THEN 1 ELSE 0)
  <2>1. ASSUME NEW p \in Snakes!Players
        PROVE  Len(body'[p]) = Len(body[p]) + (IF Eats(p) THEN 1 ELSE 0)
    BY PlayerMoves, Zenon
  <2>. QED  BY <2>1, Zenon
<1>3. eaten' = eaten + (IF Eats(1) THEN 1 ELSE 0)
                     + (IF 2 \in Snakes!Players /\ Eats(2) THEN 1 ELSE 0)
  BY <1>1, FrameLemma
<1>. DEFINE grew1 == IF Eats(1) THEN 1 ELSE 0
            grew2 == IF Eats(2) THEN 1 ELSE 0
<1>4. grew1 \in Int /\ grew2 \in Int
  OBVIOUS
<1>5. Len(body'[1]) = Len(body[1]) + grew1 /\ Len(body[1]) \in Nat
  BY <1>1, <1>2, Zenon
<1>6. 2 \in Snakes!Players => Len(body'[2]) = Len(body[2]) + grew2 /\ Len(body[2]) \in Nat
  BY <1>1, <1>2, Zenon
<1>0. Snakes!Players' = Snakes!Players
  BY FrameLemma
<1>7. CASE 2 \in Snakes!Players
  <2>1. Len(body'[2]) = Len(body[2]) + grew2 /\ eaten' = eaten + grew1 + grew2
        /\ eaten = Len(body[1]) - INITIAL_SNAKE_LENGTH + (Len(body[2]) - INITIAL_SNAKE_LENGTH)
    <3>1. eaten' = eaten + grew1 + grew2
      BY <1>3, <1>7, Zenon
    <3>2. eaten = Len(body[1]) - INITIAL_SNAKE_LENGTH + (Len(body[2]) - INITIAL_SNAKE_LENGTH)
      BY <1>1, <1>7, Zenon DEF LengthsTold
    <3>. QED  BY <1>6, <1>7, <3>1, <3>2, Zenon
  <2>. HIDE DEF grew1, grew2
  <2>2. /\ eaten \in Int /\ INITIAL_SNAKE_LENGTH \in Int /\ grew1 \in Int /\ grew2 \in Int
        /\ Len(body[1]) \in Int /\ Len(body[2]) \in Int
    BY <1>1, <1>4, <1>5, <1>6, <1>7
  <2>3. /\ eaten' = ((Len(body[1]) + grew1) - INITIAL_SNAKE_LENGTH)
                    + ((Len(body[2]) + grew2) - INITIAL_SNAKE_LENGTH)
        /\ eaten' \in Int
    <3>. DEFINE l1 == Len(body[1])
                l2 == Len(body[2])
                k == INITIAL_SNAKE_LENGTH
    <3>1. l1 \in Int /\ l2 \in Int /\ k \in Int /\ eaten = l1 - k + (l2 - k)
      BY <2>1, <2>2
    <3>. HIDE DEF l1, l2, k
    <3>2. (eaten + grew1) + grew2 = ((l1 + grew1) - k) + ((l2 + grew2) - k)
      BY <2>2, <3>1
    <3>3. eaten + grew1 + grew2 \in Int
      BY <2>2
    <3>. QED  BY <2>1, <3>2, <3>3, Zenon DEF l1, l2, k
  <2>4. eaten' = Len(body'[1]) - INITIAL_SNAKE_LENGTH + (Len(body'[2]) - INITIAL_SNAKE_LENGTH)
    <3>1. Len(body[1]) + grew1 = Len(body'[1]) /\ Len(body[2]) + grew2 = Len(body'[2])
      BY <1>5, <2>1, Zenon
    <3>. QED  BY <2>3, <3>1, Zenon
  <2>. QED  BY <1>0, <1>7, <2>3, <2>4, Zenon DEF LengthsTold
<1>8. CASE 2 \notin Snakes!Players
  <2>1. eaten' = eaten + grew1 /\ eaten = Len(body[1]) - INITIAL_SNAKE_LENGTH
    BY <1>1, <1>3, <1>8 DEF LengthsTold
  <2>. HIDE DEF grew1, grew2
  <2>. QED  BY <1>0, <1>1, <1>4, <1>5, <1>8, <2>1 DEF LengthsTold
<1>. QED  BY <1>7, <1>8

(* What is painted is what changed: the rest was there.                    *)
LEMMA ScreenMoves ==
  ASSUME Snakes!SnakeAssumption, GameInv, Snakes!Frame, players = 1
  PROVE  screen' = [c \in Snakes!Points |-> board'[1][c]]
         /\ board'[1] = [c \in Snakes!Points |-> board'[1][c]]
<1>. DEFINE new == Snakes!Redraw(body'[1], food'[1])
<1>1. 1 \in Snakes!Players /\ 2 \notin Snakes!Players
  BY DEF Snakes!Players
<1>2. board'[1] = new /\ screen' = Snakes!Draw(screen, 1, board'[1])
  BY <1>1 DEF Snakes!Frame
<1>3. new = [c \in Snakes!Points |-> new[c]]
  BY DEF Snakes!Redraw
<1>4. screen = [c \in Snakes!Points |-> board[1][c]]
  BY DEF GameInv, Snakes!ScreenShowsGame
<1>. HIDE DEF new
<1>5. screen' = [c \in Snakes!Points |-> new[c]]
  BY <1>2, <1>4 DEF Snakes!Draw
<1>. QED  BY <1>2, <1>3, <1>5

LEMMA GameStep ==
  ASSUME Snakes!SnakeAssumption, GameInv, [Snakes!Next]_(Snakes!vars)
  PROVE  GameInv'
<1>1. CASE UNCHANGED <<players, Snakes!gameVars, screen, eaten>>
  <2>1. /\ players' = players /\ body' = body /\ dir' = dir /\ food' = food
        /\ gameOver' = gameOver /\ board' = board /\ screen' = screen /\ eaten' = eaten
    BY <1>1 DEF Snakes!gameVars
  <2>2. Snakes!Players' = Snakes!Players
    BY <2>1 DEF Snakes!Players
  <2>3. LengthsTold' /\ eaten' \in Int /\ players' \in 1 .. 2
    BY <2>1, <2>2, Zenon DEF GameInv, LengthsTold
  <2>4. Snakes!ScreenShowsGame'
    BY <2>1, Zenon DEF GameInv, Snakes!ScreenShowsGame
  <2>5. players' = 1 => board'[1] = [c \in Snakes!Points |-> board'[1][c]]
    BY <2>1, Zenon DEF GameInv
  <2>6. /\ body' \in [Snakes!Players -> Seq(Snakes!Points)]
        /\ dir' \in [Snakes!Players -> Dirs]
        /\ food' \in [Snakes!Players -> Snakes!Points]
        /\ gameOver' \in [Snakes!Players -> BOOLEAN]
    BY <2>1, Zenon DEF GameInv
  <2>7. ASSUME NEW p \in Snakes!Players
        PROVE  /\ Path(body'[p])
               /\ IF gameOver'[p] THEN Ahead(body'[p][1], dir'[p]) # body'[p][2]
                  ELSE Behind(body'[p], dir'[p])
    <3>1. /\ Path(body[p])
          /\ IF gameOver[p] THEN Ahead(body[p][1], dir[p]) # body[p][2]
             ELSE Behind(body[p], dir[p])
      BY DEF GameInv
    <3>. QED  BY <2>1, <3>1, Zenon
  <2>. QED  BY <2>2, <2>3, <2>4, <2>5, <2>6, <2>7 DEF GameInv
<1>2. CASE Snakes!Frame
  <2>1. /\ \A p \in Snakes!Players :
             /\ dir'[p] \in Dirs /\ Path(body'[p])
             /\ IF gameOver'[p] THEN Ahead(body'[p][1], dir'[p]) # body'[p][2]
                ELSE Behind(body'[p], dir'[p])
    <3>1. ASSUME NEW p \in Snakes!Players
          PROVE  /\ dir'[p] \in Dirs /\ Path(body'[p])
                 /\ IF gameOver'[p] THEN Ahead(body'[p][1], dir'[p]) # body'[p][2]
                    ELSE Behind(body'[p], dir'[p])
      BY <1>2, PlayerMoves, Zenon
    <3>. QED  BY <3>1, Zenon
  <2>2. \A p \in Snakes!Players : body'[p] \in Seq(Snakes!Points)
    BY <2>1 DEF Path
  <2>3. body' \in [Snakes!Players -> Seq(Snakes!Points)] /\ dir' \in [Snakes!Players -> Dirs]
    <3>1. DOMAIN dir' = Snakes!Players /\ DOMAIN body' = Snakes!Players
          /\ dir' = [p \in Snakes!Players |-> dir'[p]]
             /\ body' = [p \in Snakes!Players |-> body'[p]]
      BY <1>2, FrameLemma
    <3>. QED  BY <2>1, <2>2, <3>1
  <2>4. gameOver' \in [Snakes!Players -> BOOLEAN]
        /\ food' \in [Snakes!Players -> Snakes!Points]
    BY <1>2, FrameLemma
  <2>5. players' = players /\ Snakes!Players' = Snakes!Players /\ players \in 1 .. 2
    BY <1>2, FrameLemma DEF GameInv
  <2>6. /\ Snakes!ScreenShowsGame'
        /\ players' = 1 => board'[1] = [c \in Snakes!Points |-> board'[1][c]]
    BY <1>2, <2>5, ScreenMoves DEF Snakes!ScreenShowsGame
  <2>7. LengthsTold' /\ eaten' \in Int
    BY <1>2, ScoreMoves
  <2>. QED  BY <2>1, <2>3, <2>4, <2>5, <2>6, <2>7 DEF GameInv
<1>. QED  BY <1>1, <1>2 DEF Snakes!Next, Snakes!Press, Snakes!vars

LEMMA GameLemma ==
  ASSUME Snakes!SnakeAssumption
  PROVE  GameInv => Snakes!SnakeIsPath /\ Snakes!NeverIntoNeck /\ Snakes!ScreenShowsGame
<1>. SUFFICES ASSUME GameInv
              PROVE  Snakes!SnakeIsPath /\ Snakes!NeverIntoNeck /\ Snakes!ScreenShowsGame
  OBVIOUS
<1>1. ASSUME NEW p \in Snakes!Players, NEW k \in 2 .. Len(body[p])
      PROVE  LET a == body[p][k - 1]  b == body[p][k]
             IN \/ (a[1] - b[1]) * (a[1] - b[1]) + (a[2] - b[2]) * (a[2] - b[2]) = 1
                \/ a = b /\ a = <<0, 0>>
  <2>1. Path(body[p])
    BY DEF GameInv
  <2>2. \/ Adjacent(body[p][k - 1], body[p][k])
        \/ body[p][k - 1] = body[p][k] /\ body[p][k - 1] = Corner
    BY <2>1, Zenon DEF Path
  <2>. QED  BY <2>2, Zenon DEF Adjacent, Corner
<1>2. ASSUME NEW p \in Snakes!Players, NEW j \in DOMAIN body[p], NEW k \in DOMAIN body[p],
             j < k /\ body[p][j] = body[p][k]
      PROVE  body[p][k] = <<0, 0>> /\ body[p][k - 1] = <<0, 0>>
  <2>1. Path(body[p])
    BY DEF GameInv
  <2>2. body[p][k] = Corner /\ body[p][k - 1] = Corner
    BY <1>2, <2>1, Zenon DEF Path
  <2>. QED  BY <2>2, Zenon DEF Corner
<1>3. Snakes!SnakeIsPath
  <2>1. LengthsTold
    BY DEF GameInv
  <2>. QED  BY <1>1, <1>2, <2>1, Zenon DEF Snakes!SnakeIsPath, LengthsTold
<1>4. Snakes!NeverIntoNeck
  <2>1. ASSUME NEW p \in Snakes!Players
        PROVE  Snakes!NextHead(p, dir[p]) = Ahead(body[p][1], dir[p])
    BY DEF GameInv, Snakes!NextHead, Ahead, Dirs
  <2>. QED  BY <2>1, Zenon DEF Snakes!NeverIntoNeck, GameInv
<1>. QED  BY <1>3, <1>4 DEF GameInv

(* A snake never crosses itself, is longer by what was eaten and never     *)
(* ends the game in its own neck, for one player or two, whatever keys     *)
(* come, on boards of every size; and one player's screen shows his board. *)
THEOREM SnakeIsPathHolds == PartsSpec => []SnakeIsPath
<1>. DEFINE Inv == part = "snake" => GameInv
<1>0. Snakes!SnakeAssumption
  BY UserPartsAssumption
<1>1. PartsInit => Inv
  BY <1>0, GameInit DEF PartsInit
<1>2. Inv /\ [PartsNext]_partsVars => Inv'
  <2>. SUFFICES ASSUME Inv, [PartsNext]_partsVars, part' = "snake" PROVE GameInv'
    OBVIOUS
  <2>1. part = "snake"
    BY PartStays
  <2>2. Snakes!Next \/ UNCHANGED snakeVars
    BY <2>1 DEF PartsNext, Moves, partsVars
  <2>3. [Snakes!Next]_(Snakes!vars)
    BY <2>2 DEF snakeVars, Snakes!vars, Snakes!gameVars
  <2>. QED  BY <1>0, <2>1, <2>3, GameStep
<1>3. Inv => SnakeIsPath
  BY <1>0, GameLemma DEF SnakeIsPath
<1>. HIDE DEF Inv, SnakeIsPath, PartsInit, PartsNext, partsVars, PartsFairness
<1>. QED
  BY <1>1, <1>2, <1>3, PTL DEF PartsSpec

-----------------------------------------------------------------------------
(* The command MVar: its cell is exclusive for any number of runs and      *)
(* however the processes are killed.  The strengthening says when the two  *)
(* semaphores exist: the second is opened after the first, and nobody but  *)
(* the run that opens them moves before they do.                           *)
CellTyped ==
  /\ pc = [p \in Procs |-> pc[p]]
  /\ semLector \in {-1, 0, 1} /\ semEscritor \in {-1, 0, 1}
OpenedInOrder ==
  /\ semLector = Closed => semEscritor = Closed /\ pc[Main] \in {"start", "open32"}
  /\ semEscritor = Closed =>
       /\ semLector <= 0 /\ pc[Main] \in {"start", "open32", "open33"}
       /\ \A p \in Procs \ {Main} : pc[p] = "none"
IInv == CellTyped /\ OpenedInOrder /\ CellExclusive

LEMMA CellInit == ASSUME Init PROVE IInv
<1>1. Main \in Procs
  BY DEF Main, Procs
<1>2. /\ pc = [p \in Procs |-> IF p = Main THEN "start" ELSE "none"]
      /\ semLector = -1 /\ semEscritor = -1
  BY DEF Init, Closed
<1>3. \A p \in Procs : ~Inside(p)
  BY <1>2 DEF Inside
<1>4. CellTyped
  BY <1>1, <1>2 DEF CellTyped
<1>5. OpenedInOrder
  BY <1>1, <1>2 DEF OpenedInOrder, Closed
<1>6. CellExclusive
  BY <1>2, <1>3 DEF CellExclusive
<1>. QED
  BY <1>4, <1>5, <1>6 DEF IInv

(* A wait that succeeds finds the cell empty-handed, and fills it.         *)
LEMMA Entering ==
  ASSUME IInv, NEW p \in Procs, NEW to \in {"store", "read"},
         At(p, "put", to) \/ At(p, "take", to),
         \/ semEscritor > 0 /\ semEscritor' = semEscritor - 1 /\ semLector' = semLector
         \/ semLector > 0 /\ semLector' = semLector - 1 /\ semEscritor' = semEscritor
  PROVE  IInv'
<1>1. /\ semLector >= 0 /\ semEscritor >= 0
      /\ semLector' = 0 /\ semEscritor' = 0
      /\ \A q \in Procs : ~Inside(q)
  BY DEF IInv, CellTyped, OpenedInOrder, CellExclusive, Inside, Closed
<1>2. pc' = [pc EXCEPT ![p] = to]
  BY DEF At
<1>3. \A q \in Procs : Inside(q)' => q = p
  BY <1>1, <1>2 DEF IInv, CellTyped, Inside
<1>4. CellTyped'
  BY <1>1, <1>2 DEF IInv, CellTyped
<1>5. OpenedInOrder'
  BY <1>1 DEF OpenedInOrder, Closed
<1>6. CellExclusive'
  BY <1>1, <1>3 DEF CellExclusive, Inside
<1>. QED
  BY <1>4, <1>5, <1>6 DEF IInv

(* A post is made by the one inside, who leaves.                           *)
LEMMA Leaving ==
  ASSUME IInv, NEW p \in Procs, NEW from \in {"stored", "took"},
         NEW to \in {"put", "take", "create"}, At(p, from, to),
         \/ semEscritor' = semEscritor + 1 /\ semLector' = semLector
         \/ semLector' = semLector + 1 /\ semEscritor' = semEscritor
  PROVE  IInv'
<1>1. Inside(p) /\ pc' = [pc EXCEPT ![p] = to]
  BY DEF At, Inside
<1>2. semLector = 0 /\ semEscritor = 0
  BY <1>1 DEF IInv, CellExclusive, Inside
<1>3. \A q \in Procs : ~Inside(q)'
  BY <1>1 DEF IInv, CellTyped, CellExclusive, Inside
<1>. QED
  BY <1>1, <1>2, <1>3 DEF IInv, CellTyped, OpenedInOrder, CellExclusive, Inside, Closed

(* Whoever only moves within the cell, or from outside to outside, while   *)
(* the semaphores stay, disturbs nothing.                                  *)
LEMMA Moving ==
  ASSUME IInv, NEW p \in Procs, NEW to, pc' = [pc EXCEPT ![p] = to],
         UNCHANGED <<semLector, semEscritor>>, Inside(p)' => Inside(p),
         semLector = Closed => p = Main /\ to \in {"start", "open32"},
         semEscritor = Closed => p = Main /\ to \in {"start", "open32", "open33"}
  PROVE  IInv'
<1>1. \A q \in Procs : Inside(q)' => Inside(q)
  BY DEF IInv, CellTyped, Inside
<1>. QED
  BY <1>1 DEF IInv, CellTyped, OpenedInOrder, CellExclusive, Inside, Closed

LEMMA CellStep == ASSUME IInv, [Next]_vars PROVE IInv'
<1>. Main \in Procs
  BY DEF Main, Procs
<1>1. ASSUME NEW p \in Procs, PutWait(p) PROVE IInv'
  BY <1>1, Entering DEF PutWait
<1>2. ASSUME NEW p \in Procs, TakeWait(p) PROVE IInv'
  BY <1>2, Entering DEF TakeWait
<1>3. ASSUME NEW p \in Procs, PutPost(p) PROVE IInv'
  BY <1>3, Leaving DEF PutPost
<1>4. ASSUME NEW p \in Procs, TakePost(p) PROVE IInv'
  BY <1>4, Leaving DEF TakePost
<1>5. ASSUME NEW p \in Procs, Store(p) \/ Read(p) \/ Reset(p) PROVE IInv'
  <2>1. PICK to \in {"stored", "reset", "took"} : pc' = [pc EXCEPT ![p] = to]
    BY <1>5 DEF Store, Read, Reset, At
  <2>2. Inside(p) /\ UNCHANGED <<semLector, semEscritor>>
    BY <1>5 DEF Store, Read, Reset, At, Inside
  <2>3. semLector # Closed /\ semEscritor # Closed
    BY <2>2 DEF IInv, CellExclusive, Inside, Closed
  <2>. QED
    BY <2>1, <2>2, <2>3, Moving
<1>6. ASSUME NEW p \in Procs, Kill(p) PROVE IInv'
  <2>1. PICK to \in {"start", "none"} : /\ pc' = [pc EXCEPT ![p] = to]
                                        /\ p = Main => to = "start"
    BY <1>6 DEF Kill
  <2>2. UNCHANGED <<semLector, semEscritor>> /\ pc[p] # "none"
    BY <1>6 DEF Kill
  <2>3. Inside(p)' => Inside(p)
    BY <2>1 DEF IInv, CellTyped, Inside
  <2>. QED
    BY <2>1, <2>2, <2>3, Moving DEF IInv, OpenedInOrder
<1>7. ASSUME Start PROVE IInv'
  <2>1. /\ pc' = [pc EXCEPT ![Main] = "open32"] /\ UNCHANGED <<semLector, semEscritor>>
        /\ pc[Main] = "start"
    BY <1>7 DEF Start, At
  <2>2. Inside(Main)' => Inside(Main)
    BY <2>1 DEF IInv, CellTyped, Inside
  <2>. QED
    BY <2>1, <2>2, Moving
<1>8. ASSUME Open32 PROVE IInv'
  <2>1. /\ pc' = [pc EXCEPT ![Main] = "open33"] /\ semEscritor' = semEscritor
        /\ semLector' = (IF semLector = Closed THEN 0 ELSE semLector)
    BY <1>8 DEF Open32, At, Opened
  <2>2. \A q \in Procs : Inside(q)' => Inside(q)
    BY <2>1 DEF IInv, CellTyped, Inside
  <2>. QED
    BY <2>1, <2>2 DEF IInv, CellTyped, OpenedInOrder, CellExclusive, Inside, Closed
<1>9. ASSUME Open33 PROVE IInv'
  <2>1. /\ pc' = [pc EXCEPT ![Main] = "put"] /\ semLector' = semLector
        /\ semEscritor' = (IF semEscritor = Closed THEN 1 ELSE semEscritor)
        /\ pc[Main] = "open33"
    BY <1>9 DEF Open33, At, Opened
  <2>2. \A q \in Procs : Inside(q)' => Inside(q)
    BY <2>1 DEF IInv, CellTyped, Inside
  <2>3. semLector # Closed
    BY <2>1 DEF IInv, OpenedInOrder
  <2>4. semEscritor = Closed => \A q \in Procs : ~Inside(q)
    BY <2>1 DEF IInv, OpenedInOrder, Inside
  <2>. QED
    BY <2>1, <2>2, <2>3, <2>4 DEF IInv, CellTyped, OpenedInOrder, CellExclusive, Inside, Closed
<1>10. ASSUME Create PROVE IInv'
  <2>1. UNCHANGED <<semLector, semEscritor>> /\ pc[Main] = "create"
    BY <1>10 DEF Create
  <2>2. pc' = [q \in Procs |-> pc'[q]] /\ \A q \in Procs : Inside(q)' => Inside(q)
    BY <1>10 DEF IInv, CellTyped, Inside, Create
  <2>3. semLector # Closed /\ semEscritor # Closed
    BY <2>1 DEF IInv, OpenedInOrder
  <2>. QED
    BY <2>1, <2>2, <2>3 DEF IInv, CellTyped, OpenedInOrder, CellExclusive, Inside
<1>11. ASSUME Forget \/ UNCHANGED vars PROVE IInv'
  BY <1>11 DEF Forget, vars, IInv, CellTyped, OpenedInOrder, CellExclusive, Inside
<1>12. ASSUME NEW p \in Procs, Step(p) PROVE IInv'
  BY <1>12, <1>1, <1>2, <1>3, <1>4, <1>5 DEF Step
<1>. QED
  BY <1>6, <1>7, <1>8, <1>9, <1>10, <1>11, <1>12 DEF Next, Works

(* The cell of MVar is held by one process at a time and both semaphores   *)
(* are down while it is, whatever is killed and however often the command  *)
(* is run again.                                                           *)
THEOREM CellExclusiveHolds == Spec => []CellExclusive
<1>1. IInv => CellExclusive
  BY DEF IInv
<1>. QED
  BY <1>1, CellInit, CellStep, PTL DEF Spec

-----------------------------------------------------------------------------
(* The first run as a channel.  Who is in the cell, or which semaphore is  *)
(* up, tells whether a value has been put that is not taken yet; the cell  *)
(* then holds it.  A cell that a death leaves locked stays locked until a  *)
(* second run.                                                             *)
Empty == sent = taken
Full == sent = Append(taken, value)
FirstRunInv ==
  /\ value \in {0, 1} /\ runs \in Nat /\ sent \in Seq({0, 1}) /\ taken \in Seq({0, 1})
  /\ runs = 0 => /\ semLector = Closed /\ semEscritor = Closed /\ Empty
                 /\ \A p \in Procs : pc[p] \in {"start", "none"}
  /\ runs <= 1 =>
       /\ semEscritor \in {Closed, 1} => Empty
       /\ semLector = 1 => Full
       /\ \A p \in Procs : /\ pc[p] \in {"store", "reset", "took"} => Empty
                           /\ pc[p] \in {"stored", "read"} => Full

LEMMA FirstRunInit == Init => FirstRunInv
BY RunsAssumption DEF Init, FirstRunInv, Empty, Closed, Procs, Main

(* Appending one value.                                                    *)
LEMMA AppendLemma ==
  ASSUME NEW s \in Seq({0, 1}), NEW v \in {0, 1}
  PROVE  /\ Append(s, v) \in Seq({0, 1}) /\ Len(Append(s, v)) = Len(s) + 1
         /\ Append(s, v) # s
         /\ AsChannel!IsPrefix(s, Append(s, v)) /\ AsChannel!IsPrefix(s, s)
<1>. DEFINE t == Append(s, v)
<1>1. t \in Seq({0, 1}) /\ Len(t) = Len(s) + 1 /\ Len(s) \in Nat
      /\ \A k \in 1 .. Len(s) : t[k] = s[k]
  OBVIOUS
<1>. HIDE DEF t
<1>2. SubSeq(s, 1, Len(s)) = SubSeq(t, 1, Len(s))
  BY <1>1
<1>. QED  BY <1>1, <1>2 DEF AsChannel!IsPrefix, t

(* Nothing is passed; a second run gives the channel up.                   *)
LEMMA CellStays ==
  ASSUME FirstRunInv, runs' \in Nat, runs <= runs', UNCHANGED <<sent, taken>>
  PROVE  AsChannel!Next
<1>1. runs \in Nat
  BY DEF FirstRunInv
<1>2. AsChannel!Stay("mvar") \/ AsChannel!Discard("mvar")
  <2>1. CASE runs > 1
    BY <1>1, <2>1 DEF AsChannel!Stay
  <2>2. CASE runs <= 1 /\ runs' <= 1
    BY <1>1, <2>2 DEF AsChannel!Stay
  <2>3. CASE runs' > 1
    BY <1>1, <2>3 DEF AsChannel!Discard, AsChannel!Fresh
  <2>. QED  BY <1>1, <2>1, <2>2, <2>3
<1>. QED  BY <1>2 DEF AsChannel!Next

(* Whoever is inside is alone there and finds both semaphores down.        *)
LEMMA AloneInside ==
  ASSUME IInv, NEW p \in Procs, Inside(p)
  PROVE  /\ semLector = 0 /\ semEscritor = 0
         /\ \A q \in Procs \ {p} : pc[q] \notin {"store", "stored", "read", "reset", "took"}
BY DEF IInv, CellExclusive, Inside

(* Steps by which no process other than p moves.                           *)
LEMMA FirstRunMoves ==
  ASSUME IInv, FirstRunInv, NEW p \in Procs, NEW to, pc' = [pc EXCEPT ![p] = to],
         UNCHANGED <<runs, value, sent, taken>>,
         runs <= 1 => /\ semEscritor' \in {Closed, 1} => semEscritor' = semEscritor \/ Empty
                      /\ semLector' = 1 => semLector' = semLector \/ Full
                      /\ to \in {"store", "reset", "took"} => Empty
                      /\ to \in {"stored", "read"} => Full,
         runs # 0
  PROVE  FirstRunInv' /\ AsChannel!Next
<1>1. runs \in Nat
  BY DEF FirstRunInv
<1>2. \A q \in Procs : pc'[q] = IF q = p THEN to ELSE pc[q]
  BY DEF IInv, CellTyped
<1>3. (Empty' <=> Empty) /\ (Full' <=> Full)
  BY DEF Empty, Full
<1>4. FirstRunInv'
  BY <1>1, <1>2, <1>3 DEF FirstRunInv
<1>. QED  BY <1>1, <1>4, CellStays

LEMMA FirstRunStep ==
  ASSUME IInv, FirstRunInv, [Next]_vars
  PROVE  FirstRunInv' /\ AsChannel!Next
<1>. Main \in Procs /\ runs \in Nat
  BY DEF Main, Procs, FirstRunInv
<1>1. ASSUME NEW p \in Procs, PutWait(p), UNCHANGED runs PROVE FirstRunInv' /\ AsChannel!Next
  <2>1. /\ pc' = [pc EXCEPT ![p] = "store"] /\ UNCHANGED <<runs, value, sent, taken>>
        /\ semEscritor > 0 /\ semEscritor' = semEscritor - 1 /\ semLector' = semLector
    BY <1>1 DEF PutWait, At
  <2>2. semEscritor = 1 /\ semEscritor' = 0
    BY <2>1 DEF IInv, CellTyped
  <2>3. runs # 0 /\ (runs <= 1 => (Empty \/ semLector = 1) /\ (Full \/ semEscritor = 1))
    BY <1>1, <2>2 DEF FirstRunInv, PutWait, TakeWait, At
  <2>. QED  BY <2>1, <2>2, <2>3, FirstRunMoves DEF FirstRunInv, Closed
<1>2. ASSUME NEW p \in Procs, TakeWait(p), UNCHANGED runs PROVE FirstRunInv' /\ AsChannel!Next
  <2>1. /\ pc' = [pc EXCEPT ![p] = "read"] /\ UNCHANGED <<runs, value, sent, taken>>
        /\ semLector > 0 /\ semLector' = semLector - 1 /\ semEscritor' = semEscritor
    BY <1>2 DEF TakeWait, At
  <2>2. semLector = 1 /\ semLector' = 0
    BY <2>1 DEF IInv, CellTyped
  <2>3. runs # 0 /\ (runs <= 1 => (Empty \/ semLector = 1) /\ (Full \/ semEscritor = 1))
    BY <1>2, <2>2 DEF FirstRunInv, PutWait, TakeWait, At
  <2>. QED  BY <2>1, <2>2, <2>3, FirstRunMoves DEF FirstRunInv, Closed
<1>3. ASSUME NEW p \in Procs, PutPost(p), UNCHANGED runs PROVE FirstRunInv' /\ AsChannel!Next
  <2>1. PICK to \in {"take", "put"} : /\ pc' = [pc EXCEPT ![p] = to]
                                      /\ UNCHANGED <<runs, value, sent, taken>>
                                      /\ semLector' = semLector + 1 /\ semEscritor' = semEscritor
                                      /\ pc[p] = "stored"
    BY <1>3 DEF PutPost, At
  <2>2. semLector = 0 /\ semEscritor = 0
    BY <2>1, AloneInside DEF Inside
  <2>3. runs # 0 /\ (runs <= 1 => Full)
    BY <2>1 DEF FirstRunInv
  <2>. QED  BY <2>1, <2>2, <2>3, FirstRunMoves DEF FirstRunInv, Closed
<1>4. ASSUME NEW p \in Procs, TakePost(p), UNCHANGED runs PROVE FirstRunInv' /\ AsChannel!Next
  <2>1. PICK to \in {"create", "take"} : /\ pc' = [pc EXCEPT ![p] = to]
                                         /\ UNCHANGED <<runs, value, sent, taken>>
                                         /\ semEscritor' = semEscritor + 1
                                         /\ semLector' = semLector /\ pc[p] = "took"
    BY <1>4 DEF TakePost, At
  <2>2. semLector = 0 /\ semEscritor = 0
    BY <2>1, AloneInside DEF Inside
  <2>3. runs # 0 /\ (runs <= 1 => Empty)
    BY <2>1 DEF FirstRunInv
  <2>. QED  BY <2>1, <2>2, <2>3, FirstRunMoves DEF FirstRunInv, Closed
<1>5. ASSUME NEW p \in Procs, Store(p), UNCHANGED runs PROVE FirstRunInv' /\ AsChannel!Next
  <2>. DEFINE v == ValueOf(p)
  <2>1. /\ pc[p] = "store" /\ pc' = [pc EXCEPT ![p] = "stored"] /\ value' = v
        /\ sent' = Append(sent, v) /\ UNCHANGED <<semLector, semEscritor, taken>>
        /\ v \in {0, 1}
    BY <1>5 DEF Store, At, ValueOf
  <2>2. /\ semLector = 0 /\ semEscritor = 0
        /\ \A q \in Procs \ {p} : pc[q] \notin {"store", "stored", "read", "reset", "took"}
    BY <2>1, AloneInside DEF Inside
  <2>. HIDE DEF v
  <2>3. /\ sent' \in Seq({0, 1}) /\ Len(sent') = Len(sent) + 1
        /\ AsChannel!IsPrefix(sent, sent')
    BY <2>1, AppendLemma DEF FirstRunInv
  <2>4. runs <= 1 => sent = taken
    BY <2>1 DEF FirstRunInv, Empty
  <2>5. \A q \in Procs : pc'[q] = IF q = p THEN "stored" ELSE pc[q]
    BY <2>1 DEF IInv, CellTyped
  <2>6. FirstRunInv'
    <3>1. runs # 0
      BY <2>2 DEF FirstRunInv, Closed
    <3>2. runs <= 1 => Full'
      BY <2>1, <2>4 DEF Full
    <3>. QED  BY <1>5, <2>1, <2>2, <2>3, <2>5, <3>1, <3>2 DEF FirstRunInv, Closed
  <2>7. AsChannel!Next
    <3>1. CASE runs <= 1
      <4>1. Len(sent) \in Nat
        BY DEF FirstRunInv
      <4>2. AsChannel!Send("mvar")
        BY <1>5, <2>1, <2>3, <2>4, <3>1, <4>1 DEF AsChannel!Send
      <4>. QED  BY <4>2 DEF AsChannel!Next
    <3>2. CASE runs > 1
      BY <1>5, <3>2 DEF AsChannel!Next, AsChannel!Stay
    <3>. QED  BY <3>1, <3>2
  <2>. QED  BY <2>6, <2>7
<1>6. ASSUME NEW p \in Procs, Read(p), UNCHANGED runs PROVE FirstRunInv' /\ AsChannel!Next
  <2>1. /\ pc[p] = "read" /\ pc' = [pc EXCEPT ![p] = "reset"] /\ taken' = Append(taken, value)
        /\ UNCHANGED <<semLector, semEscritor, value, sent>>
    BY <1>6 DEF Read, At
  <2>2. /\ semLector = 0 /\ semEscritor = 0
        /\ \A q \in Procs \ {p} : pc[q] \notin {"store", "stored", "read", "reset", "took"}
    BY <2>1, AloneInside DEF Inside
  <2>3. /\ taken' \in Seq({0, 1}) /\ AsChannel!IsPrefix(taken, taken')
        /\ AsChannel!IsPrefix(taken', taken')
    BY <2>1, AppendLemma DEF FirstRunInv
  <2>4. runs <= 1 => sent = taken'
    BY <2>1 DEF FirstRunInv, Full
  <2>5. \A q \in Procs : pc'[q] = IF q = p THEN "reset" ELSE pc[q]
    BY <2>1 DEF IInv, CellTyped
  <2>6. FirstRunInv'
    <3>1. runs # 0
      BY <2>2 DEF FirstRunInv, Closed
    <3>2. runs <= 1 => Empty'
      BY <2>1, <2>4 DEF Empty
    <3>. QED  BY <1>6, <2>1, <2>2, <2>3, <2>5, <3>1, <3>2 DEF FirstRunInv, Closed
  <2>7. AsChannel!Next
    <3>1. CASE runs <= 1
      <4>1. ~(runs > 1) /\ runs' = runs /\ sent' = sent
        BY <1>6, <2>1, <3>1
      <4>2. AsChannel!IsPrefix(taken, taken') /\ AsChannel!IsPrefix(taken', sent)
        BY <2>3, <2>4, <3>1
      <4>3. AsChannel!Receive("mvar")
        BY <4>1, <4>2 DEF AsChannel!Receive
      <4>. QED  BY <4>3 DEF AsChannel!Next
    <3>2. CASE runs > 1
      BY <1>6, <3>2 DEF AsChannel!Next, AsChannel!Stay
    <3>. QED  BY <3>1, <3>2
  <2>. QED  BY <2>6, <2>7
<1>7. ASSUME NEW p \in Procs, Reset(p), UNCHANGED runs PROVE FirstRunInv' /\ AsChannel!Next
  <2>1. /\ pc[p] = "reset" /\ pc' = [pc EXCEPT ![p] = "took"] /\ value' = 0
        /\ UNCHANGED <<semLector, semEscritor, sent, taken>>
    BY <1>7 DEF Reset, At
  <2>2. /\ semLector = 0 /\ semEscritor = 0
        /\ \A q \in Procs \ {p} : pc[q] \notin {"store", "stored", "read", "reset", "took"}
    BY <2>1, AloneInside DEF Inside
  <2>3. \A q \in Procs : pc'[q] = IF q = p THEN "took" ELSE pc[q]
    BY <2>1 DEF IInv, CellTyped
  <2>4. FirstRunInv'
    <3>1. runs <= 1 => Empty'
      BY <2>1 DEF FirstRunInv, Empty
    <3>. QED  BY <1>7, <2>1, <2>2, <2>3, <3>1 DEF FirstRunInv, Closed
  <2>. QED  BY <1>7, <2>1, <2>4, CellStays
<1>8. ASSUME NEW p \in Procs, Step(p) PROVE FirstRunInv' /\ AsChannel!Next
  BY <1>8, <1>1, <1>2, <1>3, <1>4, <1>5, <1>6, <1>7 DEF Step
<1>9. ASSUME Start PROVE FirstRunInv' /\ AsChannel!Next
  <2>1. /\ pc' = [pc EXCEPT ![Main] = "open32"] /\ value' = 0 /\ runs' = runs + 1
        /\ UNCHANGED <<semLector, semEscritor, sent, taken>>
    BY <1>9 DEF Start, At
  <2>2. \A q \in Procs : pc'[q] = IF q = Main THEN "open32" ELSE pc[q]
    BY <2>1 DEF IInv, CellTyped
  <2>3. runs = 0 => /\ semLector = Closed /\ semEscritor = Closed /\ Empty
                    /\ \A q \in Procs : ~Inside(q)
    BY DEF FirstRunInv, IInv, CellExclusive, Closed
  <2>4. FirstRunInv'
    BY <2>1, <2>2, <2>3 DEF FirstRunInv, Empty, Inside, Closed
  <2>. QED  BY <2>1, <2>4, CellStays
<1>10. ASSUME Open32 PROVE FirstRunInv' /\ AsChannel!Next
  <2>1. /\ pc' = [pc EXCEPT ![Main] = "open33"] /\ UNCHANGED <<runs, value, sent, taken>>
        /\ semEscritor' = semEscritor /\ pc[Main] = "open32"
        /\ semLector' = (IF semLector = Closed THEN 0 ELSE semLector)
    BY <1>10 DEF Open32, At, Opened
  <2>2. runs # 0
    BY <2>1 DEF FirstRunInv
  <2>3. semLector' = 1 => semLector' = semLector
    BY <2>1 DEF Closed
  <2>4. semEscritor' \in {Closed, 1} => semEscritor' = semEscritor
    BY <2>1
  <2>. QED  BY <2>1, <2>2, <2>3, <2>4, FirstRunMoves
<1>11. ASSUME Open33 PROVE FirstRunInv' /\ AsChannel!Next
  <2>1. /\ pc' = [pc EXCEPT ![Main] = "put"] /\ UNCHANGED <<runs, value, sent, taken>>
        /\ semLector' = semLector /\ pc[Main] = "open33"
        /\ semEscritor' = (IF semEscritor = Closed THEN 1 ELSE semEscritor)
    BY <1>11 DEF Open33, At, Opened
  <2>2. runs # 0 /\ (runs <= 1 /\ semEscritor = Closed => Empty)
    BY <2>1 DEF FirstRunInv
  <2>. QED  BY <2>1, <2>2, FirstRunMoves DEF FirstRunInv
<1>12. ASSUME Create PROVE FirstRunInv' /\ AsChannel!Next
  <2>1. /\ UNCHANGED <<runs, value, sent, taken, semLector, semEscritor>>
        /\ pc[Main] = "create"
        /\ \A q \in Procs : pc'[q] \in {pc[q], "put", "take", "start"}
    BY <1>12 DEF Create, IInv, CellTyped
  <2>2. runs # 0
    BY <2>1 DEF FirstRunInv
  <2>3. FirstRunInv'
    BY <2>1, <2>2 DEF FirstRunInv, Empty, Full
  <2>. QED  BY <2>1, <2>3, CellStays
<1>13. ASSUME NEW p \in Procs, Kill(p) PROVE FirstRunInv' /\ AsChannel!Next
  <2>1. PICK to \in {"start", "none"} :
          /\ pc' = [pc EXCEPT ![p] = to] /\ pc[p] \notin {"none", "start"}
          /\ UNCHANGED <<runs, value, sent, taken, semLector, semEscritor>>
    BY <1>13 DEF Kill
  <2>2. runs # 0
    BY <2>1 DEF FirstRunInv
  <2>. QED  BY <2>1, <2>2, FirstRunMoves DEF FirstRunInv
<1>14. ASSUME Forget PROVE FirstRunInv' /\ AsChannel!Next
  <2>1. /\ UNCHANGED <<value, semLector, semEscritor, pc, runs>>
        /\ taken = sent /\ sent' = <<>> /\ taken' = <<>>
    BY <1>14 DEF Forget
  <2>2. runs <= 1 => ~Full
    BY <2>1, AppendLemma DEF Full, FirstRunInv
  <2>3. FirstRunInv'
    BY <2>1, <2>2 DEF FirstRunInv, Empty
  <2>4. AsChannel!Discard("mvar")
    BY <2>1 DEF AsChannel!Discard, AsChannel!Fresh
  <2>. QED  BY <2>3, <2>4 DEF AsChannel!Next
<1>15. ASSUME UNCHANGED vars PROVE FirstRunInv' /\ AsChannel!Next
  <2>1. FirstRunInv'
    BY <1>15 DEF vars, FirstRunInv, Empty, Full
  <2>. QED  BY <1>15, <2>1, CellStays DEF vars
<1>. QED  BY <1>8, <1>9, <1>10, <1>11, <1>12, <1>13, <1>14, <1>15 DEF Next, Works

(* The first run of MVar is a channel with room for one value, whatever    *)
(* is killed in it: what is put is taken once, in the order it was put.    *)
THEOREM CellIsChannel == Spec => AsChannel!Spec
<1>1. Init => IInv /\ FirstRunInv /\ AsChannel!Init
  <2>1. Init => AsChannel!Init
    BY DEF Init, AsChannel!Init
  <2>. QED  BY <2>1, CellInit, FirstRunInit
<1>2. (IInv /\ FirstRunInv) /\ [Next]_vars => (IInv /\ FirstRunInv)' /\ AsChannel!Next
  BY CellStep, FirstRunStep
<1>. QED
  BY <1>1, <1>2, PTL DEF Spec, AsChannel!Spec

-----------------------------------------------------------------------------
(* The pipelines: a part of its own when they are left alone, and one when *)
(* commands are killed, end early or are woken by others.                  *)
OfPipeline == INSTANCE PipeProofs WITH Calls <- {}, call <- inside, taken <- received
OfKilled ==
  INSTANCE PipeProofs WITH Calls <- {"kill", "early", "unblock"}, call <- inside,
                           taken <- received

(* What PipeProofs proves is about the same machines.                      *)
LEMMA SamePipelines ==
  /\ Pipeline!Next <=> OfPipeline!Next
  /\ Pipeline!vars = OfPipeline!vars
  /\ Pipeline!Init <=> OfPipeline!Init
<1>1. Pipeline!Next <=> OfPipeline!Next
  <2>1. Pipeline!GetPipe(Shell) <=> OfPipeline!GetPipe(Shell)
    BY DEF Pipeline!Blank, Pipeline!Cells, Pipeline!GetPipe, Pipeline!InUser,
       Pipeline!Live, Pipeline!NewPipe, Pipeline!NextFreePipe,
       Pipeline!NoCall, Pipeline!Procs, Pipeline!QtyRange, Pipeline!Slots,
       Pipeline!history, Pipeline!procVars, Pipeline!tableVars,
       OfPipeline!Blank, OfPipeline!Cells, OfPipeline!GetPipe,
       OfPipeline!InUser, OfPipeline!Live, OfPipeline!NewPipe,
       OfPipeline!NextFreePipe, OfPipeline!NoCall, OfPipeline!Procs,
       OfPipeline!QtyRange, OfPipeline!Slots, OfPipeline!history,
       OfPipeline!procVars, OfPipeline!tableVars
  <2>2. ASSUME NEW p PROVE Pipeline!Spawn(Shell, p) <=> OfPipeline!Spawn(Shell, p)
    BY DEF Pipeline!Blank, Pipeline!Cells, Pipeline!Grant, Pipeline!Granted,
       Pipeline!InUser, Pipeline!NewPipe, Pipeline!NoCall, Pipeline!Opened,
       Pipeline!QtyRange, Pipeline!Spawn, Pipeline!history, OfPipeline!Blank,
       OfPipeline!Cells, OfPipeline!Grant, OfPipeline!Granted,
       OfPipeline!InUser, OfPipeline!NewPipe, OfPipeline!NoCall,
       OfPipeline!Opened, OfPipeline!QtyRange, OfPipeline!Spawn,
       OfPipeline!history
  <2>3. ASSUME NEW p, NEW s, NEW bytes PROVE Pipeline!Write(p, s, bytes) <=> OfPipeline!Write(p, s, bytes)
    BY DEF Pipeline!Accepted, Pipeline!AtMost, Pipeline!BeingKilled,
       Pipeline!BufferPosition, Pipeline!Cells, Pipeline!EofStored,
       Pipeline!Finish, Pipeline!Full, Pipeline!InUser, Pipeline!Live,
       Pipeline!NoCall, Pipeline!Procs, Pipeline!Slots,
       Pipeline!StartTransmit, Pipeline!Store, Pipeline!Suspend,
       Pipeline!Transmit, Pipeline!TransmitCall, Pipeline!Without,
       Pipeline!Woken, Pipeline!Write, Pipeline!history, Pipeline!tableVars,
       OfPipeline!Accepted, OfPipeline!AtMost, OfPipeline!BeingKilled,
       OfPipeline!BufferPosition, OfPipeline!Cells, OfPipeline!EofStored,
       OfPipeline!Finish, OfPipeline!Full, OfPipeline!InUser, OfPipeline!Live,
       OfPipeline!NoCall, OfPipeline!Procs, OfPipeline!Slots,
       OfPipeline!StartTransmit, OfPipeline!Store, OfPipeline!Suspend,
       OfPipeline!Transmit, OfPipeline!TransmitCall, OfPipeline!Without,
       OfPipeline!Woken, OfPipeline!Write, OfPipeline!history,
       OfPipeline!tableVars
  <2>4. ASSUME NEW p, NEW s, NEW len PROVE Pipeline!Read(p, s, len) <=> OfPipeline!Read(p, s, len)
    BY DEF Pipeline!AtMost, Pipeline!BufferPosition, Pipeline!Contents,
       Pipeline!Drop, Pipeline!Empty, Pipeline!EofStored, Pipeline!Given,
       Pipeline!InUser, Pipeline!Live, Pipeline!NoCall, Pipeline!Procs,
       Pipeline!Read, Pipeline!Retrieve, Pipeline!Slots, Pipeline!Woken,
       Pipeline!history, Pipeline!tableVars, OfPipeline!AtMost,
       OfPipeline!BufferPosition, OfPipeline!Contents, OfPipeline!Drop,
       OfPipeline!Empty, OfPipeline!EofStored, OfPipeline!Given,
       OfPipeline!InUser, OfPipeline!Live, OfPipeline!NoCall,
       OfPipeline!Procs, OfPipeline!Read, OfPipeline!Retrieve,
       OfPipeline!Slots, OfPipeline!Woken, OfPipeline!history,
       OfPipeline!tableVars
  <2>5. ASSUME NEW p PROVE Pipeline!ResumeTransmit(p) <=> OfPipeline!ResumeTransmit(p)
    BY DEF Pipeline!Accepted, Pipeline!AtMost, Pipeline!BeingKilled,
       Pipeline!BufferPosition, Pipeline!Cells, Pipeline!Finish,
       Pipeline!Live, Pipeline!NoCall, Pipeline!Procs,
       Pipeline!ResumeTransmit, Pipeline!Slots, Pipeline!Store,
       Pipeline!Suspend, Pipeline!Transmit, Pipeline!Without, Pipeline!Woken,
       Pipeline!history, Pipeline!tableVars, OfPipeline!Accepted,
       OfPipeline!AtMost, OfPipeline!BeingKilled, OfPipeline!BufferPosition,
       OfPipeline!Cells, OfPipeline!Finish, OfPipeline!Live,
       OfPipeline!NoCall, OfPipeline!Procs, OfPipeline!ResumeTransmit,
       OfPipeline!Slots, OfPipeline!Store, OfPipeline!Suspend,
       OfPipeline!Transmit, OfPipeline!Without, OfPipeline!Woken,
       OfPipeline!history, OfPipeline!tableVars
  <2>6. ASSUME NEW p PROVE Pipeline!ResumeRetrieve(p) <=> OfPipeline!ResumeRetrieve(p)
    BY DEF Pipeline!AtMost, Pipeline!BufferPosition, Pipeline!Contents,
       Pipeline!Drop, Pipeline!EofStored, Pipeline!Given, Pipeline!NoCall,
       Pipeline!Procs, Pipeline!ResumeRetrieve, Pipeline!Retrieve,
       Pipeline!Woken, Pipeline!history, Pipeline!tableVars,
       OfPipeline!AtMost, OfPipeline!BufferPosition, OfPipeline!Contents,
       OfPipeline!Drop, OfPipeline!EofStored, OfPipeline!Given,
       OfPipeline!NoCall, OfPipeline!Procs, OfPipeline!ResumeRetrieve,
       OfPipeline!Retrieve, OfPipeline!Woken, OfPipeline!history,
       OfPipeline!tableVars
  <2>7. ASSUME NEW p, NEW v PROVE Pipeline!KillProcess(p, v) <=> OfPipeline!KillProcess(p, v)
    BY DEF Pipeline!Accepted, Pipeline!AtMost, Pipeline!BeingKilled,
       Pipeline!BufferPosition, Pipeline!Cells, Pipeline!EofStored,
       Pipeline!Finish, Pipeline!FreePipe, Pipeline!Full, Pipeline!Holds,
       Pipeline!KillProcess, Pipeline!Live, Pipeline!Losing, Pipeline!NoCall,
       Pipeline!Procs, Pipeline!QtyRange, Pipeline!Reads, Pipeline!Slots,
       Pipeline!StartTransmit, Pipeline!Store, Pipeline!Suspend,
       Pipeline!Transmit, Pipeline!TransmitCall, Pipeline!Without,
       Pipeline!Woken, Pipeline!history, OfPipeline!Accepted,
       OfPipeline!AtMost, OfPipeline!BeingKilled, OfPipeline!BufferPosition,
       OfPipeline!Cells, OfPipeline!EofStored, OfPipeline!Finish,
       OfPipeline!FreePipe, OfPipeline!Full, OfPipeline!Holds,
       OfPipeline!KillProcess, OfPipeline!Live, OfPipeline!Losing,
       OfPipeline!NoCall, OfPipeline!Procs, OfPipeline!QtyRange,
       OfPipeline!Reads, OfPipeline!Slots, OfPipeline!StartTransmit,
       OfPipeline!Store, OfPipeline!Suspend, OfPipeline!Transmit,
       OfPipeline!TransmitCall, OfPipeline!Without, OfPipeline!Woken,
       OfPipeline!history
  <2>8. ASSUME NEW p, NEW s PROVE Pipeline!Close(p, s) <=> OfPipeline!Close(p, s)
    BY DEF Pipeline!Accepted, Pipeline!AtMost, Pipeline!BeingKilled,
       Pipeline!BufferPosition, Pipeline!Cells, Pipeline!Close,
       Pipeline!EofStored, Pipeline!Finish, Pipeline!FreePipe, Pipeline!Full,
       Pipeline!Holds, Pipeline!InUser, Pipeline!Live, Pipeline!Losing,
       Pipeline!NoCall, Pipeline!Procs, Pipeline!QtyRange, Pipeline!Reads,
       Pipeline!Slots, Pipeline!StartTransmit, Pipeline!Store,
       Pipeline!Suspend, Pipeline!Transmit, Pipeline!TransmitCall,
       Pipeline!Without, Pipeline!Woken, Pipeline!history,
       OfPipeline!Accepted, OfPipeline!AtMost, OfPipeline!BeingKilled,
       OfPipeline!BufferPosition, OfPipeline!Cells, OfPipeline!Close,
       OfPipeline!EofStored, OfPipeline!Finish, OfPipeline!FreePipe,
       OfPipeline!Full, OfPipeline!Holds, OfPipeline!InUser, OfPipeline!Live,
       OfPipeline!Losing, OfPipeline!NoCall, OfPipeline!Procs,
       OfPipeline!QtyRange, OfPipeline!Reads, OfPipeline!Slots,
       OfPipeline!StartTransmit, OfPipeline!Store, OfPipeline!Suspend,
       OfPipeline!Transmit, OfPipeline!TransmitCall, OfPipeline!Without,
       OfPipeline!Woken, OfPipeline!history
  <2>9. ASSUME NEW p, NEW s, NEW mode PROVE Pipeline!Open(p, s, mode) <=> OfPipeline!Open(p, s, mode)
    BY DEF Pipeline!Blank, Pipeline!Cells, Pipeline!Grant, Pipeline!Granted,
       Pipeline!InUser, Pipeline!NewPipe, Pipeline!NoCall, Pipeline!Open,
       Pipeline!Opened, Pipeline!QtyRange, Pipeline!history,
       Pipeline!procVars, OfPipeline!Blank, OfPipeline!Cells,
       OfPipeline!Grant, OfPipeline!Granted, OfPipeline!InUser,
       OfPipeline!NewPipe, OfPipeline!NoCall, OfPipeline!Open,
       OfPipeline!Opened, OfPipeline!QtyRange, OfPipeline!history,
       OfPipeline!procVars
  <2>10. ASSUME NEW v PROVE Pipeline!Unblock(v) <=> OfPipeline!Unblock(v)
    BY DEF Pipeline!Unblock, Pipeline!history, Pipeline!tableVars,
       OfPipeline!Unblock, OfPipeline!history, OfPipeline!tableVars
  <2>11. /\ Pipeline!Procs = OfPipeline!Procs /\ Pipeline!Slots = OfPipeline!Slots /\ Pipeline!Live = OfPipeline!Live
        /\ Pipeline!Messages = OfPipeline!Messages /\ Pipeline!NoCall = OfPipeline!NoCall
    BY DEF Pipeline!Live, Pipeline!Messages, Pipeline!NoCall, Pipeline!Procs,
       Pipeline!Slots, OfPipeline!Live, OfPipeline!Messages,
       OfPipeline!NoCall, OfPipeline!Procs, OfPipeline!Slots
  <2>12. ASSUME NEW p, NEW v
        PROVE  /\ Pipeline!Kill(p, v) <=> OfPipeline!Kill(p, v)
               /\ Pipeline!Exit(p) <=> OfPipeline!Exit(p)
    BY <2>7, <2>11 DEF Pipeline!Kill, Pipeline!Exit, Pipeline!InUser,
       Pipeline!NoCall, OfPipeline!Kill, OfPipeline!Exit, OfPipeline!InUser,
       OfPipeline!NoCall
  <2>13. ASSUME NEW p PROVE Pipeline!Step(p) <=> OfPipeline!Step(p)
    BY <2>3, <2>4, <2>5, <2>6, <2>8, <2>9, <2>11, <2>12, Zenon DEF Pipeline!Step, OfPipeline!Step
  <2>. QED
    BY <2>1, <2>2, <2>10, <2>11, <2>13, Zenon DEF Pipeline!Next, OfPipeline!Next
<1>2. Pipeline!vars = OfPipeline!vars
  BY DEF Pipeline!vars, Pipeline!procVars, Pipeline!tableVars, Pipeline!history,
     OfPipeline!vars, OfPipeline!procVars, OfPipeline!tableVars,
     OfPipeline!history
<1>3. Pipeline!Init <=> OfPipeline!Init
  BY DEF Pipeline!Init, Pipeline!Procs, Pipeline!NoCall, Pipeline!Slots,
     OfPipeline!Init, OfPipeline!Procs, OfPipeline!NoCall, OfPipeline!Slots
<1>. QED  BY <1>1, <1>2, <1>3

LEMMA SameKilled ==
  /\ Killed!Next <=> OfKilled!Next
  /\ Killed!vars = OfKilled!vars
  /\ Pipeline!Init <=> OfKilled!Init
<1>1. Killed!Next <=> OfKilled!Next
  <2>1. Killed!GetPipe(Shell) <=> OfKilled!GetPipe(Shell)
    BY DEF Killed!Blank, Killed!Cells, Killed!GetPipe, Killed!InUser,
       Killed!Live, Killed!NewPipe, Killed!NextFreePipe, Killed!NoCall,
       Killed!Procs, Killed!QtyRange, Killed!Slots, Killed!history,
       Killed!procVars, Killed!tableVars, OfKilled!Blank, OfKilled!Cells,
       OfKilled!GetPipe, OfKilled!InUser, OfKilled!Live, OfKilled!NewPipe,
       OfKilled!NextFreePipe, OfKilled!NoCall, OfKilled!Procs,
       OfKilled!QtyRange, OfKilled!Slots, OfKilled!history, OfKilled!procVars,
       OfKilled!tableVars
  <2>2. ASSUME NEW p PROVE Killed!Spawn(Shell, p) <=> OfKilled!Spawn(Shell, p)
    BY DEF Killed!Blank, Killed!Cells, Killed!Grant, Killed!Granted,
       Killed!InUser, Killed!NewPipe, Killed!NoCall, Killed!Opened,
       Killed!QtyRange, Killed!Spawn, Killed!history, OfKilled!Blank,
       OfKilled!Cells, OfKilled!Grant, OfKilled!Granted, OfKilled!InUser,
       OfKilled!NewPipe, OfKilled!NoCall, OfKilled!Opened, OfKilled!QtyRange,
       OfKilled!Spawn, OfKilled!history
  <2>3. ASSUME NEW p, NEW s, NEW bytes PROVE Killed!Write(p, s, bytes) <=> OfKilled!Write(p, s, bytes)
    BY DEF Killed!Accepted, Killed!AtMost, Killed!BeingKilled,
       Killed!BufferPosition, Killed!Cells, Killed!EofStored, Killed!Finish,
       Killed!Full, Killed!InUser, Killed!Live, Killed!NoCall, Killed!Procs,
       Killed!Slots, Killed!StartTransmit, Killed!Store, Killed!Suspend,
       Killed!Transmit, Killed!TransmitCall, Killed!Without, Killed!Woken,
       Killed!Write, Killed!history, Killed!tableVars, OfKilled!Accepted,
       OfKilled!AtMost, OfKilled!BeingKilled, OfKilled!BufferPosition,
       OfKilled!Cells, OfKilled!EofStored, OfKilled!Finish, OfKilled!Full,
       OfKilled!InUser, OfKilled!Live, OfKilled!NoCall, OfKilled!Procs,
       OfKilled!Slots, OfKilled!StartTransmit, OfKilled!Store,
       OfKilled!Suspend, OfKilled!Transmit, OfKilled!TransmitCall,
       OfKilled!Without, OfKilled!Woken, OfKilled!Write, OfKilled!history,
       OfKilled!tableVars
  <2>4. ASSUME NEW p, NEW s, NEW len PROVE Killed!Read(p, s, len) <=> OfKilled!Read(p, s, len)
    BY DEF Killed!AtMost, Killed!BufferPosition, Killed!Contents, Killed!Drop,
       Killed!Empty, Killed!EofStored, Killed!Given, Killed!InUser,
       Killed!Live, Killed!NoCall, Killed!Procs, Killed!Read, Killed!Retrieve,
       Killed!Slots, Killed!Woken, Killed!history, Killed!tableVars,
       OfKilled!AtMost, OfKilled!BufferPosition, OfKilled!Contents,
       OfKilled!Drop, OfKilled!Empty, OfKilled!EofStored, OfKilled!Given,
       OfKilled!InUser, OfKilled!Live, OfKilled!NoCall, OfKilled!Procs,
       OfKilled!Read, OfKilled!Retrieve, OfKilled!Slots, OfKilled!Woken,
       OfKilled!history, OfKilled!tableVars
  <2>5. ASSUME NEW p PROVE Killed!ResumeTransmit(p) <=> OfKilled!ResumeTransmit(p)
    BY DEF Killed!Accepted, Killed!AtMost, Killed!BeingKilled,
       Killed!BufferPosition, Killed!Cells, Killed!Finish, Killed!Live,
       Killed!NoCall, Killed!Procs, Killed!ResumeTransmit, Killed!Slots,
       Killed!Store, Killed!Suspend, Killed!Transmit, Killed!Without,
       Killed!Woken, Killed!history, Killed!tableVars, OfKilled!Accepted,
       OfKilled!AtMost, OfKilled!BeingKilled, OfKilled!BufferPosition,
       OfKilled!Cells, OfKilled!Finish, OfKilled!Live, OfKilled!NoCall,
       OfKilled!Procs, OfKilled!ResumeTransmit, OfKilled!Slots,
       OfKilled!Store, OfKilled!Suspend, OfKilled!Transmit, OfKilled!Without,
       OfKilled!Woken, OfKilled!history, OfKilled!tableVars
  <2>6. ASSUME NEW p PROVE Killed!ResumeRetrieve(p) <=> OfKilled!ResumeRetrieve(p)
    BY DEF Killed!AtMost, Killed!BufferPosition, Killed!Contents, Killed!Drop,
       Killed!EofStored, Killed!Given, Killed!NoCall, Killed!Procs,
       Killed!ResumeRetrieve, Killed!Retrieve, Killed!Woken, Killed!history,
       Killed!tableVars, OfKilled!AtMost, OfKilled!BufferPosition,
       OfKilled!Contents, OfKilled!Drop, OfKilled!EofStored, OfKilled!Given,
       OfKilled!NoCall, OfKilled!Procs, OfKilled!ResumeRetrieve,
       OfKilled!Retrieve, OfKilled!Woken, OfKilled!history, OfKilled!tableVars
  <2>7. ASSUME NEW p, NEW v PROVE Killed!KillProcess(p, v) <=> OfKilled!KillProcess(p, v)
    BY DEF Killed!Accepted, Killed!AtMost, Killed!BeingKilled,
       Killed!BufferPosition, Killed!Cells, Killed!EofStored, Killed!Finish,
       Killed!FreePipe, Killed!Full, Killed!Holds, Killed!KillProcess,
       Killed!Live, Killed!Losing, Killed!NoCall, Killed!Procs,
       Killed!QtyRange, Killed!Reads, Killed!Slots, Killed!StartTransmit,
       Killed!Store, Killed!Suspend, Killed!Transmit, Killed!TransmitCall,
       Killed!Without, Killed!Woken, Killed!history, OfKilled!Accepted,
       OfKilled!AtMost, OfKilled!BeingKilled, OfKilled!BufferPosition,
       OfKilled!Cells, OfKilled!EofStored, OfKilled!Finish, OfKilled!FreePipe,
       OfKilled!Full, OfKilled!Holds, OfKilled!KillProcess, OfKilled!Live,
       OfKilled!Losing, OfKilled!NoCall, OfKilled!Procs, OfKilled!QtyRange,
       OfKilled!Reads, OfKilled!Slots, OfKilled!StartTransmit, OfKilled!Store,
       OfKilled!Suspend, OfKilled!Transmit, OfKilled!TransmitCall,
       OfKilled!Without, OfKilled!Woken, OfKilled!history
  <2>8. ASSUME NEW p, NEW s PROVE Killed!Close(p, s) <=> OfKilled!Close(p, s)
    BY DEF Killed!Accepted, Killed!AtMost, Killed!BeingKilled,
       Killed!BufferPosition, Killed!Cells, Killed!Close, Killed!EofStored,
       Killed!Finish, Killed!FreePipe, Killed!Full, Killed!Holds,
       Killed!InUser, Killed!Live, Killed!Losing, Killed!NoCall, Killed!Procs,
       Killed!QtyRange, Killed!Reads, Killed!Slots, Killed!StartTransmit,
       Killed!Store, Killed!Suspend, Killed!Transmit, Killed!TransmitCall,
       Killed!Without, Killed!Woken, Killed!history, OfKilled!Accepted,
       OfKilled!AtMost, OfKilled!BeingKilled, OfKilled!BufferPosition,
       OfKilled!Cells, OfKilled!Close, OfKilled!EofStored, OfKilled!Finish,
       OfKilled!FreePipe, OfKilled!Full, OfKilled!Holds, OfKilled!InUser,
       OfKilled!Live, OfKilled!Losing, OfKilled!NoCall, OfKilled!Procs,
       OfKilled!QtyRange, OfKilled!Reads, OfKilled!Slots,
       OfKilled!StartTransmit, OfKilled!Store, OfKilled!Suspend,
       OfKilled!Transmit, OfKilled!TransmitCall, OfKilled!Without,
       OfKilled!Woken, OfKilled!history
  <2>9. ASSUME NEW p, NEW s, NEW mode PROVE Killed!Open(p, s, mode) <=> OfKilled!Open(p, s, mode)
    BY DEF Killed!Blank, Killed!Cells, Killed!Grant, Killed!Granted,
       Killed!InUser, Killed!NewPipe, Killed!NoCall, Killed!Open,
       Killed!Opened, Killed!QtyRange, Killed!history, Killed!procVars,
       OfKilled!Blank, OfKilled!Cells, OfKilled!Grant, OfKilled!Granted,
       OfKilled!InUser, OfKilled!NewPipe, OfKilled!NoCall, OfKilled!Open,
       OfKilled!Opened, OfKilled!QtyRange, OfKilled!history, OfKilled!procVars
  <2>10. ASSUME NEW v PROVE Killed!Unblock(v) <=> OfKilled!Unblock(v)
    BY DEF Killed!Unblock, Killed!history, Killed!tableVars, OfKilled!Unblock,
       OfKilled!history, OfKilled!tableVars
  <2>11. /\ Killed!Procs = OfKilled!Procs /\ Killed!Slots = OfKilled!Slots /\ Killed!Live = OfKilled!Live
        /\ Killed!Messages = OfKilled!Messages /\ Killed!NoCall = OfKilled!NoCall
    BY DEF Killed!Live, Killed!Messages, Killed!NoCall, Killed!Procs,
       Killed!Slots, OfKilled!Live, OfKilled!Messages, OfKilled!NoCall,
       OfKilled!Procs, OfKilled!Slots
  <2>12. ASSUME NEW p, NEW v
        PROVE  /\ Killed!Kill(p, v) <=> OfKilled!Kill(p, v)
               /\ Killed!Exit(p) <=> OfKilled!Exit(p)
    BY <2>7, <2>11 DEF Killed!Kill, Killed!Exit, Killed!InUser, Killed!NoCall,
       OfKilled!Kill, OfKilled!Exit, OfKilled!InUser, OfKilled!NoCall
  <2>13. ASSUME NEW p PROVE Killed!Step(p) <=> OfKilled!Step(p)
    BY <2>3, <2>4, <2>5, <2>6, <2>8, <2>9, <2>11, <2>12, Zenon DEF Killed!Step, OfKilled!Step
  <2>. QED
    BY <2>1, <2>2, <2>10, <2>11, <2>13, Zenon DEF Killed!Next, OfKilled!Next
<1>2. Killed!vars = OfKilled!vars
  BY DEF Killed!vars, Killed!procVars, Killed!tableVars, Killed!history,
     OfKilled!vars, OfKilled!procVars, OfKilled!tableVars, OfKilled!history
<1>3. Pipeline!Init <=> OfKilled!Init
  BY DEF Pipeline!Init, Pipeline!Procs, Pipeline!NoCall, Pipeline!Slots,
     OfKilled!Init, OfKilled!Procs, OfKilled!NoCall, OfKilled!Slots
<1>. QED  BY <1>1, <1>2, <1>3

LEMMA SameSleepers ==
  /\ OfPipeline!PipeTypeOK /\ OfPipeline!SleepersWait /\ OfPipeline!ReaderKeepsPipe
       => Pipeline!PipeTypeOK /\ Pipeline!SleepersWait /\ Pipeline!ReaderKeepsPipe
  /\ OfKilled!PipeTypeOK /\ OfKilled!SleepersWait /\ OfKilled!ReaderKeepsPipe
       => Pipeline!PipeTypeOK /\ Pipeline!SleepersWait /\ Pipeline!ReaderKeepsPipe
<1>1. /\ OfPipeline!PipeTypeOK /\ OfPipeline!SleepersWait /\ OfPipeline!ReaderKeepsPipe
           => Pipeline!PipeTypeOK /\ Pipeline!SleepersWait /\ Pipeline!ReaderKeepsPipe
  BY DEF Pipeline!PipeTypeOK, Pipeline!Procs, Pipeline!Slots, Pipeline!PipeRecord,
     Pipeline!NoCall, Pipeline!Cells, Pipeline!SleepersWait, Pipeline!Empty,
     Pipeline!Full, Pipeline!EofStored, Pipeline!BufferPosition,
     Pipeline!ReaderKeepsPipe, Pipeline!Live,
     OfPipeline!PipeTypeOK, OfPipeline!Procs, OfPipeline!Slots,
     OfPipeline!PipeRecord, OfPipeline!NoCall, OfPipeline!Cells,
     OfPipeline!SleepersWait, OfPipeline!Empty, OfPipeline!Full,
     OfPipeline!EofStored, OfPipeline!BufferPosition,
     OfPipeline!ReaderKeepsPipe, OfPipeline!Live
<1>2. /\ OfKilled!PipeTypeOK /\ OfKilled!SleepersWait /\ OfKilled!ReaderKeepsPipe
           => Pipeline!PipeTypeOK /\ Pipeline!SleepersWait /\ Pipeline!ReaderKeepsPipe
  BY DEF Pipeline!PipeTypeOK, Pipeline!Procs, Pipeline!Slots, Pipeline!PipeRecord,
     Pipeline!NoCall, Pipeline!Cells, Pipeline!SleepersWait, Pipeline!Empty,
     Pipeline!Full, Pipeline!EofStored, Pipeline!BufferPosition,
     Pipeline!ReaderKeepsPipe, Pipeline!Live,
     OfKilled!PipeTypeOK, OfKilled!Procs, OfKilled!Slots, OfKilled!PipeRecord,
     OfKilled!NoCall, OfKilled!Cells, OfKilled!SleepersWait, OfKilled!Empty,
     OfKilled!Full, OfKilled!EofStored, OfKilled!BufferPosition,
     OfKilled!ReaderKeepsPipe, OfKilled!Live
<1>. QED  BY <1>1, <1>2

PipesInv ==
  /\ part = "pipeline" => OfPipeline!ShellInv /\ OfPipeline!LeftAloneInv
  /\ part = "killed" => OfKilled!ShellInv

(* The assumptions of PipeProofs, for the constants of this module.        *)
LEMMA PipeAssumptions ==
  /\ OfPipeline!SizeAssumption /\ OfPipeline!BytesAssumption /\ OfPipeline!NamesAssumption
  /\ OfKilled!SizeAssumption /\ OfKilled!BytesAssumption /\ OfKilled!NamesAssumption
BY UserPartsAssumption
   DEF Pipeline!SizeAssumption, Pipeline!BytesAssumption, Pipeline!NamesAssumption,
       Pipeline!Procs, Pipeline!Slots, Pipeline!PipeRecord, Pipeline!Cells,
       OfPipeline!CallNames, OfPipeline!Procs, OfPipeline!Slots, OfPipeline!PipeRecord,
       OfPipeline!Cells, OfKilled!CallNames, OfKilled!Procs, OfKilled!Slots,
       OfKilled!PipeRecord, OfKilled!Cells

LEMMA PipesInit == PartsInit => PipesInv
<1>. SUFFICES ASSUME PartsInit PROVE PipesInv
  OBVIOUS
<1>1. OfPipeline!Init /\ OfKilled!Init
  BY SamePipelines, SameKilled DEF PartsInit
<1>2. OfPipeline!ShellInv /\ OfPipeline!LeftAloneInv
  BY <1>1, PipeAssumptions, OfPipeline!ShellPipelines, OfPipeline!PipelineLeftAlone
     DEF OfPipeline!ShellOnly
<1>3. OfKilled!ShellInv
  BY <1>1, PipeAssumptions, OfKilled!ShellPipelines DEF OfKilled!ShellOnly
<1>. QED  BY <1>2, <1>3 DEF PipesInv

LEMMA PipesStep ==
  ASSUME PipesInv, [PartsNext]_partsVars
  PROVE  /\ PipesInv'
         /\ part = "pipeline" => OfPipeline!AsChannel!Next
         /\ part = "killed" => OfKilled!AsChannel!Next
<1>1. UNCHANGED part
  BY PartStays
<1>2. ASSUME part = "pipeline"
      PROVE  OfPipeline!ShellInv' /\ OfPipeline!LeftAloneInv' /\ OfPipeline!AsChannel!Next
  <2>1. Pipeline!Next \/ UNCHANGED pipeVars
    BY <1>2 DEF PartsNext, Moves, partsVars
  <2>2. [OfPipeline!Next]_(OfPipeline!vars)
    <3>1. UNCHANGED pipeVars => UNCHANGED OfPipeline!vars
      BY DEF pipeVars, OfPipeline!vars, OfPipeline!procVars, OfPipeline!tableVars, OfPipeline!history
    <3>. QED  BY <2>1, <3>1, SamePipelines
  <2>3. OfPipeline!ShellInv /\ OfPipeline!LeftAloneInv
    BY <1>2 DEF PipesInv
  <2>4. OfPipeline!ShellOnly
    BY DEF OfPipeline!ShellOnly
  <2>5. OfPipeline!ShellInv' /\ OfPipeline!AsChannel!Next
    BY <2>2, <2>3, <2>4, PipeAssumptions, OfPipeline!ShellPipelines
  <2>6. OfPipeline!LeftAloneInv'
    BY <2>2, <2>3, PipeAssumptions, OfPipeline!PipelineLeftAlone
  <2>. QED  BY <2>5, <2>6
<1>3. ASSUME part = "killed"
      PROVE  OfKilled!ShellInv' /\ OfKilled!AsChannel!Next
  <2>1. Killed!Next \/ UNCHANGED pipeVars
    BY <1>3 DEF PartsNext, Moves, partsVars
  <2>2. [OfKilled!Next]_(OfKilled!vars)
    <3>1. UNCHANGED pipeVars => UNCHANGED OfKilled!vars
      BY DEF pipeVars, OfKilled!vars, OfKilled!procVars, OfKilled!tableVars, OfKilled!history
    <3>. QED  BY <2>1, <3>1, SameKilled
  <2>3. OfKilled!ShellInv
    BY <1>3 DEF PipesInv
  <2>4. OfKilled!ShellOnly
    BY DEF OfKilled!ShellOnly
  <2>. QED
    BY <2>2, <2>3, <2>4, PipeAssumptions, OfKilled!ShellPipelines
<1>. QED  BY <1>1, <1>2, <1>3 DEF PipesInv

(* Whoever sleeps in a call on a pipe that exists has a reason to, in      *)
(* every pipeline the shell builds, of any number of processes, pipes and  *)
(* bytes; and in one that is left alone nobody reaches for an end that     *)
(* nobody has, nor is left in a call on a pipe its reader has freed.       *)
THEOREM SleepersWaitInPipelines == PartsSpec => []SleepersWait
<1>1. PipesInv => SleepersWait
  <2>1. ASSUME PipesInv, part = "pipeline"
        PROVE  /\ Pipeline!PipeTypeOK /\ Pipeline!SleepersWait /\ Pipeline!ReaderKeepsPipe
               /\ Pipeline!NoFault /\ Pipeline!NobodyStranded
    <3>1. OfPipeline!ShellInv /\ OfPipeline!LeftAloneInv /\ OfPipeline!ShellOnly
      BY <2>1 DEF PipesInv, OfPipeline!ShellOnly
    <3>2. /\ OfPipeline!PipeTypeOK /\ OfPipeline!SleepersWait
          /\ OfPipeline!ReaderKeepsPipe /\ OfPipeline!NoFault /\ OfPipeline!NobodyStranded
      BY <3>1, PipeAssumptions, OfPipeline!ShellPipelines, OfPipeline!PipelineLeftAlone
    <3>3. Pipeline!NoFault /\ Pipeline!NobodyStranded
      BY <3>2 DEF OfPipeline!NoFault, Pipeline!NoFault, OfPipeline!NobodyStranded,
                  Pipeline!NobodyStranded, OfPipeline!Procs, Pipeline!Procs,
                  OfPipeline!NoCall, Pipeline!NoCall
    <3>. QED  BY <3>2, <3>3, SameSleepers
  <2>2. ASSUME PipesInv, part = "killed"
        PROVE  Pipeline!PipeTypeOK /\ Pipeline!SleepersWait /\ Pipeline!ReaderKeepsPipe
    <3>1. OfKilled!ShellInv /\ OfKilled!ShellOnly
      BY <2>2 DEF PipesInv, OfKilled!ShellOnly
    <3>2. OfKilled!PipeTypeOK /\ OfKilled!SleepersWait /\ OfKilled!ReaderKeepsPipe
      BY <3>1, PipeAssumptions, OfKilled!ShellPipelines
    <3>. QED  BY <3>2, SameSleepers
  <2>. QED  BY <2>1, <2>2 DEF SleepersWait
<1>2. PipesInv /\ [PartsNext]_partsVars => PipesInv'
  BY PipesStep
<1>. HIDE DEF PipesInv, SleepersWait, PartsInit, PartsNext, partsVars, PartsFairness
<1>. QED
  BY <1>1, <1>2, PipesInit, PTL DEF PartsSpec

-----------------------------------------------------------------------------
(* The cell of the command MVar, whichever way the command is run.         *)
CellInv == part \in {"mvar", "quiet"} => IInv /\ FirstRunInv

LEMMA CellMoves ==
  ASSUME CellInv, [PartsNext]_partsVars
  PROVE  /\ CellInv'
         /\ part \in {"mvar", "quiet"} => AsChannel!Next
<1>1. UNCHANGED part
  BY PartStays
<1>2. ASSUME part \in {"mvar", "quiet"} PROVE (IInv /\ FirstRunInv)' /\ AsChannel!Next
  <2>1. IInv /\ FirstRunInv
    BY <1>2 DEF CellInv
  <2>2. Next \/ UNCHANGED mvarVars
    BY <1>2 DEF PartsNext, Moves, partsVars, OneRun, Next
  <2>3. [Next]_vars
    BY <2>2 DEF mvarVars, vars
  <2>. QED  BY <2>1, <2>3, CellStep, FirstRunStep
<1>. QED  BY <1>1, <1>2 DEF CellInv

(* Neither MVar's cell nor its semaphores let two in, among the other      *)
(* programs too.                                                           *)
THEOREM CellExclusiveInParts == PartsSpec => [](part \in {"mvar", "quiet"} => CellExclusive)
<1>1. PartsInit => CellInv
  BY CellInit, FirstRunInit DEF PartsInit, CellInv
<1>2. CellInv /\ [PartsNext]_partsVars => CellInv'
  BY CellMoves
<1>3. CellInv => (part \in {"mvar", "quiet"} => CellExclusive)
  BY DEF CellInv, IInv
<1>. HIDE DEF CellInv, PartsInit, PartsNext, partsVars, PartsFairness
<1>. QED
  BY <1>1, <1>2, <1>3, PTL DEF PartsSpec

(* The channels of the two pipelines are the ones of their proofs.         *)
LEMMA SameChannels ==
  /\ OfKilled!AsChannel!Next => Killed!AsChannel!Next
  /\ OfPipeline!AsChannel!Next => Killed!AsChannel!Next
  /\ OfKilled!AsChannel!Init => Killed!AsChannel!Init
<1>1. OfKilled!AsChannel!Next => Killed!AsChannel!Next
  BY Zenon DEF OfKilled!AsChannel!Next, OfKilled!AsChannel!Stay, OfKilled!AsChannel!Send,
     OfKilled!AsChannel!Receive, OfKilled!AsChannel!Discard, OfKilled!AsChannel!Fresh,
     OfKilled!AsChannel!IsPrefix, OfKilled!Slots, OfKilled!Live, OfKilled!Contents,
     OfKilled!EofStored, OfKilled!BufferPosition,
     Killed!AsChannel!Next, Killed!AsChannel!Stay, Killed!AsChannel!Send,
     Killed!AsChannel!Receive, Killed!AsChannel!Discard, Killed!AsChannel!Fresh,
     Killed!AsChannel!IsPrefix, Killed!Slots, Killed!Live, Killed!Contents, Killed!EofStored,
     Killed!BufferPosition
<1>2. OfPipeline!AsChannel!Next => Killed!AsChannel!Next
  BY Zenon DEF OfPipeline!AsChannel!Next, OfPipeline!AsChannel!Stay, OfPipeline!AsChannel!Send,
     OfPipeline!AsChannel!Receive, OfPipeline!AsChannel!Discard, OfPipeline!AsChannel!Fresh,
     OfPipeline!AsChannel!IsPrefix, OfPipeline!Slots, OfPipeline!Live, OfPipeline!Contents,
     OfPipeline!EofStored, OfPipeline!BufferPosition,
     Killed!AsChannel!Next, Killed!AsChannel!Stay, Killed!AsChannel!Send,
     Killed!AsChannel!Receive, Killed!AsChannel!Discard, Killed!AsChannel!Fresh,
     Killed!AsChannel!IsPrefix, Killed!Slots, Killed!Live, Killed!Contents, Killed!EofStored,
     Killed!BufferPosition
<1>3. OfKilled!AsChannel!Init => Killed!AsChannel!Init
  BY Zenon DEF OfKilled!AsChannel!Init, OfKilled!Slots, OfKilled!Live, OfKilled!Contents,
     OfKilled!EofStored, OfKilled!BufferPosition, Killed!AsChannel!Init, Killed!Slots,
     Killed!Live, Killed!Contents, Killed!EofStored, Killed!BufferPosition
<1>. QED  BY <1>1, <1>2, <1>3

(* Both ways of passing data implement Channel, for any number of runs,    *)
(* processes, pipes and bytes: what is sent is taken once and in order.    *)
THEOREM ChannelsHold == PartsSpec => ChannelsImplemented
<1>1. PartsInit => CellInv /\ PipesInv
  BY CellInit, FirstRunInit, PipesInit DEF PartsInit, CellInv
<1>2. PartsInit => AsChannel!Init /\ Killed!AsChannel!Init
  <2>1. PartsInit => OfKilled!AsChannel!Init
    BY SameKilled, PipeAssumptions, OfKilled!ShellPipelines DEF PartsInit, OfKilled!ShellOnly
  <2>. QED  BY <2>1, SameChannels DEF PartsInit, Init, AsChannel!Init
<1>3. CellInv /\ PipesInv /\ [PartsNext]_partsVars =>
        /\ CellInv' /\ PipesInv'
        /\ (part \in {"mvar", "quiet"}) => AsChannel!Next
        /\ (part \in {"pipeline", "killed"}) => Killed!AsChannel!Next
  BY CellMoves, PipesStep, SameChannels
<1>4. CellInv /\ PipesInv /\ [PartsNext]_partsVars =>
        [/\ (part \in {"mvar", "quiet"}) => [AsChannel!Next]_(AsChannel!channelVars)
         /\ (part \in {"pipeline", "killed"})
              => [Killed!AsChannel!Next]_(Killed!AsChannel!channelVars)]_partsVars
  BY <1>3
<1>. HIDE DEF CellInv, PipesInv, PartsInit, PartsNext, partsVars, PartsFairness
<1>. QED
  BY <1>1, <1>2, <1>3, <1>4, PTL DEF PartsSpec, ChannelsImplemented

-----------------------------------------------------------------------------
(* The shell's line.                                                       *)
Typeable == LineKeys \cup Others
LineInv ==
  /\ keyboard \in Seq(Typeable) /\ line \in Seq(LineKeys) /\ last_command \in Seq(LineKeys)
  /\ echo \in Seq(Typeable \cup {">"}) /\ unkept \in Nat
  /\ Line!EchoMatchesBuffer /\ Line!RecallRepeats

LEMMA LineInit == Line!Init => LineInv
<1>. SUFFICES ASSUME Line!Init
              PROVE  LineInv
  OBVIOUS
<1>1. /\ keyboard = <<>> /\ line = <<>> /\ last_command = <<>> /\ spilled = FALSE
      /\ echo = Line!Prompt /\ unkept = 0 /\ ran.kind = "nothing"
  BY DEF Line!Init
<1>2. Line!Prompt \in Seq(Typeable \cup {">"}) /\ Len(Line!Prompt) = 1
  BY DEF Line!Prompt
<1>3. Line!Prompt \o <<>> = Line!Prompt
  BY DEF Line!Prompt
<1>4. Len(<<>>) = 0
  OBVIOUS
<1>5. Line!EchoMatchesBuffer
  BY <1>1, <1>2, <1>3, <1>4 DEF Line!EchoMatchesBuffer
<1>6. Line!RecallRepeats
  BY <1>1 DEF Line!RecallRepeats
<1>7. <<>> \in Seq(Typeable) /\ <<>> \in Seq(LineKeys) /\ 0 \in Nat
  OBVIOUS
<1>. QED  BY <1>1, <1>2, <1>5, <1>6, <1>7, Zenon DEF LineInv

(* The first keys of a line: all of it when they are fewer than asked for. *)
LEMMA FirstOfLemma ==
  ASSUME NEW S, NEW s \in Seq(S), NEW n \in Nat
  PROVE  /\ Line!FirstOf(n, s) \in Seq(S)
         /\ Len(Line!FirstOf(n, s)) = IF n <= Len(s) THEN n ELSE Len(s)
         /\ Len(s) < n => Line!FirstOf(n, s) = s
<1>. DEFINE m == IF n <= Len(s) THEN n ELSE Len(s)
<1>1. Len(s) \in Nat
  OBVIOUS
<1>2. Line!Min({n, Len(s)}) = m
  BY <1>1 DEF Line!Min
<1>3. Line!FirstOf(n, s) = SubSeq(s, 1, m)
  BY <1>2 DEF Line!FirstOf
<1>4. m \in Nat /\ m <= Len(s)
  BY <1>1
<1>. HIDE DEF m
<1>5. SubSeq(s, 1, m) \in Seq(S) /\ Len(SubSeq(s, 1, m)) = m
  BY <1>1, <1>4
<1>6. m = Len(s) => SubSeq(s, 1, m) = s
  BY <1>1
<1>. QED  BY <1>1, <1>3, <1>5, <1>6 DEF m

(* All but the last of a line, and of a line behind the prompt.            *)
LEMMA FirstLemma ==
  ASSUME NEW S, NEW s \in Seq(S)
  PROVE  /\ Line!FirstOf(Len(s) - 1, s) = SubSeq(s, 1, Len(s) - 1)
         /\ Line!FirstOf(Len(s) - 1, s) \in Seq(S)
         /\ s = <<>> => Line!FirstOf(Len(s) - 1, s) = <<>>
         /\ s # <<>> => Len(Line!FirstOf(Len(s) - 1, s)) = Len(s) - 1
<1>1. Line!Min({Len(s) - 1, Len(s)}) = Len(s) - 1
  <2>1. Len(s) \in Nat
    OBVIOUS
  <2>. HIDE DEF Line!FirstOf
  <2>. QED  BY <2>1 DEF Line!Min
<1>2. SubSeq(s, 1, Len(s) - 1) \in Seq(S) /\ (s = <<>> => SubSeq(s, 1, Len(s) - 1) = <<>>)
  OBVIOUS
<1>3. s # <<>> => Len(SubSeq(s, 1, Len(s) - 1)) = Len(s) - 1
  <2>. DEFINE n == Len(s) - 1
  <2>1. s # <<>> => Len(s) \in Nat \ {0}
    BY EmptySeq
  <2>2. s # <<>> => n \in Nat /\ n <= Len(s)
    BY <2>1
  <2>. HIDE DEF n
  <2>3. s # <<>> => Len(SubSeq(s, 1, n)) = n
    BY <2>2
  <2>. QED  BY <2>3 DEF n
<1>. QED  BY <1>1, <1>2, <1>3 DEF Line!FirstOf

LEMMA EraseLemma ==
  ASSUME NEW s \in Seq(LineKeys), s # <<>>
  PROVE  Line!FirstOf(Len(Line!Prompt \o s) - 1, Line!Prompt \o s)
           = Line!Prompt \o Line!FirstOf(Len(s) - 1, s)
<1>. DEFINE S == LineKeys \cup {">"}
<1>1. Line!Prompt \in Seq(S) /\ s \in Seq(S) /\ Len(Line!Prompt) = 1
  BY DEF Line!Prompt
<1>2. Line!Prompt \o s \in Seq(S) /\ Len(Line!Prompt \o s) = 1 + Len(s)
  BY <1>1, ConcatProperties
<1>3. Len(s) \in Nat \ {0}
  BY EmptySeq
<1>. DEFINE whole == Line!Prompt \o s
            rest == SubSeq(s, 1, Len(s) - 1)
<1>4. SubSeq(whole, 1, Len(whole) - 1) = Line!Prompt \o rest
  BY <1>1, <1>2, <1>3 DEF Line!Prompt
<1>. QED  BY <1>1, <1>2, <1>4, FirstLemma

(* A key stored or erased past the end of buffer.                          *)
LEMMA SpillLemma ==
  ASSUME last_command \in Seq(LineKeys), NEW cell \in Int,
         NEW text, cell > 0 => text \in Seq(LineKeys), Line!Spill(cell, text)
  PROVE  /\ last_command' \in Seq(LineKeys)
         /\ ~spilled' => ~spilled /\ last_command' = last_command
<1>1. CASE cell <= 0
  <2>1. last_command' = last_command /\ spilled' = spilled
    BY <1>1 DEF Line!Spill
  <2>. QED  BY <2>1, Zenon
<1>2. CASE ~(cell <= 0)
  <2>1. last_command' = text /\ spilled' = TRUE
    BY <1>2, Zenon DEF Line!Spill
  <2>2. text \in Seq(LineKeys)
    BY <1>2
  <2>. QED  BY <2>1, <2>2, Zenon
<1>. QED  BY <1>1, <1>2, Zenon

(* A step between two lines the user sees, or one of a command he waits    *)
(* for; in both the last line that ran is remembered as it was.            *)
LEMMA LineKept ==
  ASSUME LineInv, keyboard' \in Seq(Typeable), line' \in Seq(LineKeys),
         last_command' \in Seq(LineKeys), echo' \in Seq(Typeable \cup {">"}), unkept' \in Nat,
         ran' = ran, ~spilled' => ~spilled /\ last_command' = last_command,
         waiting' \/ ((unkept' = 0 => echo' = Line!Prompt \o line')
                      /\ Len(echo') = 1 + Len(line') + unkept')
  PROVE  LineInv'
<1>1. Len(Line!Prompt) = 1 /\ Line!Prompt' = Line!Prompt
  BY DEF Line!Prompt
<1>2. Line!EchoMatchesBuffer'
  BY <1>1, Zenon DEF Line!EchoMatchesBuffer
<1>3. Line!RecallRepeats'
  <2>1. Line!RecallRepeats
    BY DEF LineInv
  <2>2. CASE spilled'
    BY <2>2, Zenon DEF Line!RecallRepeats
  <2>3. CASE ~spilled'
    <3>1. ~spilled /\ last_command' = last_command /\ ran' = ran
      BY <2>3
    <3>. QED  BY <2>1, <3>1, Zenon DEF Line!RecallRepeats
  <2>. QED  BY <2>2, <2>3, Zenon
<1>4. Typeable' = Typeable
  BY DEF Typeable
<1>. QED  BY <1>2, <1>3, <1>4, Zenon DEF LineInv

LEMMA LineStep ==
  ASSUME LineInv, Line!Next \/ UNCHANGED lineVars
  PROVE  LineInv'
<1>. DEFINE Shows == Typeable \cup {">"}
<1>1. /\ keyboard \in Seq(Typeable) /\ line \in Seq(LineKeys) /\ last_command \in Seq(LineKeys)
      /\ echo \in Seq(Shows) /\ unkept \in Nat
      /\ Line!EchoMatchesBuffer /\ Line!RecallRepeats
  BY Zenon DEF LineInv
<1>2. /\ Line!Prompt \in Seq(Shows) /\ Len(Line!Prompt) = 1 /\ MAX_BUFFER \in Nat
      /\ Line!Prompt \o <<>> = Line!Prompt
      /\ LineKeys \subseteq Typeable /\ Others \subseteq Typeable /\ Typeable \subseteq Shows
  <2>1. Line!Prompt \in Seq(Shows) /\ Len(Line!Prompt) = 1
    BY DEF Line!Prompt
  <2>2. Line!Prompt \o <<>> = Line!Prompt
    BY DEF Line!Prompt
  <2>3. MAX_BUFFER \in Nat
    BY UserPartsAssumption DEF Line!ShellAssumption
  <2>. QED  BY <2>1, <2>2, <2>3 DEF Typeable
<1>3. waiting \/ ((unkept = 0 => echo = Line!Prompt \o line)
                  /\ Len(echo) = 1 + Len(line) + unkept)
  BY <1>1, <1>2, Zenon DEF Line!EchoMatchesBuffer
<1>4. keyboard # <<>> => Tail(keyboard) \in Seq(Typeable)
  BY <1>1, EmptySeq
<1>. HIDE DEF Shows
<1>5. CASE UNCHANGED lineVars
  BY <1>5, Zenon DEF lineVars, LineInv, Line!EchoMatchesBuffer, Line!RecallRepeats, Typeable,
     Line!Prompt
<1>6. ASSUME NEW key \in Typeable, Line!Press(key) PROVE LineInv'
  <2>1. /\ keyboard' = <<key>>
        /\ UNCHANGED <<line, last_command, spilled, echo, unkept, waiting, ran>>
    BY <1>6, Zenon DEF Line!Press, Line!lineVars, Line!shown
  <2>2. keyboard' \in Seq(Typeable)
    BY <2>1
  <2>. QED  BY <1>1, <1>3, <2>1, <2>2, LineKept, Zenon DEF Shows
<1>7. ASSUME NEW key \in LineKeys, Line!Store(key) PROVE LineInv'
  <2>. DEFINE cell == Len(line) + 1 - MAX_BUFFER
              text == Line!Overlaid(cell, key)
  <2>1. /\ ~waiting /\ keyboard' = Tail(keyboard) /\ keyboard # <<>>
        /\ line' = Append(line, key) /\ echo' = Append(echo, key)
        /\ unkept' = unkept /\ ran' = ran /\ Line!Spill(cell, text)
    BY <1>7, Zenon DEF Line!Store, Line!Reads
  <2>2. cell \in Int /\ text \in Seq(LineKeys)
    BY <1>1, <1>2 DEF Line!Overlaid
  <2>. HIDE DEF cell, text
  <2>3. /\ last_command' \in Seq(LineKeys)
        /\ ~spilled' => ~spilled /\ last_command' = last_command
    BY <1>1, <2>1, <2>2, SpillLemma, Zenon
  <2>4. line' \in Seq(LineKeys) /\ Len(line') = Len(line) + 1
    BY <1>1, <2>1
  <2>5. key \in Shows
    BY <1>2
  <2>6. echo' \in Seq(Shows) /\ Len(echo') = Len(echo) + 1
    BY <1>1, <2>1, <2>5
  <2>7. Line!Prompt \o Append(line, key) = Append(Line!Prompt \o line, key)
    BY <1>1 DEF Line!Prompt
  <2>8. unkept' = 0 => echo' = Line!Prompt \o line'
    BY <1>3, <2>1, <2>7, Zenon
  <2>9. Len(echo) = 1 + Len(line) + unkept
    BY <1>3, <2>1, Zenon
  <2>10. Len(echo') = 1 + Len(line') + unkept'
    <3>1. Len(line) \in Nat /\ unkept \in Nat /\ unkept' = unkept
      BY <1>1, <2>1
    <3>. QED  BY <2>4, <2>6, <2>9, <3>1
  <2>. QED  BY <1>1, <1>4, <2>1, <2>3, <2>4, <2>6, <2>8, <2>10, LineKept, Zenon DEF Shows
<1>8. ASSUME NEW key \in Others, Line!Show(key) PROVE LineInv'
  <2>1. /\ ~waiting /\ keyboard' = Tail(keyboard) /\ keyboard # <<>>
        /\ UNCHANGED <<line, last_command, spilled, ran>>
        /\ echo' = Append(echo, key) /\ unkept' = unkept + 1
    BY <1>8, Zenon DEF Line!Show, Line!Reads
  <2>2. key \in Shows
    BY <1>2
  <2>3. echo' \in Seq(Shows) /\ Len(echo') = Len(echo) + 1
    BY <1>1, <2>1, <2>2
  <2>4. Len(echo) = 1 + Len(line) + unkept
    BY <1>3, <2>1, Zenon
  <2>5. unkept' \in Nat /\ unkept' # 0 /\ Len(echo') = 1 + Len(line') + unkept'
    <3>1. Len(line) \in Nat /\ unkept \in Nat /\ unkept' = unkept + 1 /\ line' = line
      BY <1>1, <2>1
    <3>. QED  BY <2>3, <2>4, <3>1
  <2>. QED  BY <1>1, <1>4, <2>1, <2>3, <2>5, LineKept, Zenon DEF Shows
<1>9. CASE Line!Poll \/ Line!Repeated \/ Line!Taken
  <2>1. /\ keyboard' = keyboard \/ (keyboard # <<>> /\ keyboard' = Tail(keyboard))
        /\ UNCHANGED <<line, last_command, spilled, echo, unkept, waiting, ran>>
    BY <1>9, Zenon
       DEF Line!Poll, Line!Repeated, Line!Taken, Line!Reads, Line!lineVars, Line!shown
  <2>. QED  BY <1>1, <1>3, <1>4, <2>1, LineKept, Zenon DEF Shows
<1>10. CASE Line!Recall
  <2>1. /\ line = <<>> /\ ~waiting /\ keyboard' = Tail(keyboard) /\ keyboard # <<>>
        /\ line' = last_command /\ echo' = echo \o last_command
        /\ UNCHANGED <<last_command, spilled, unkept, ran>>
    BY <1>10, Zenon DEF Line!Recall, Line!Reads
  <2>2. last_command \in Seq(Shows)
    BY <1>1, <1>2
  <2>3. echo' \in Seq(Shows) /\ Len(echo') = Len(echo) + Len(last_command)
    BY <1>1, <2>1, <2>2, ConcatProperties, Zenon
  <2>4. (unkept = 0 => echo = Line!Prompt) /\ Len(echo) = 1 + Len(<<>>) + unkept
    BY <1>2, <1>3, <2>1, Zenon
  <2>5. Len(echo') = 1 + Len(line') + unkept'
    <3>1. Len(last_command) \in Nat /\ unkept \in Nat /\ unkept' = unkept /\ line' = last_command
      BY <1>1, <2>1
    <3>. QED  BY <2>3, <2>4, <3>1
  <2>6. unkept' = 0 => echo' = Line!Prompt \o line'
    BY <2>1, <2>4, Zenon
  <2>. QED  BY <1>1, <1>4, <2>1, <2>3, <2>5, <2>6, LineKept, Zenon DEF Shows
<1>11. CASE Line!Backspace
  <2>. DEFINE cell == Len(line) - MAX_BUFFER
              text == Line!FirstOf(cell - 1, last_command)
              rest == Line!FirstOf(Len(line) - 1, line)
  <2>1. /\ ~waiting /\ keyboard' = Tail(keyboard) /\ keyboard # <<>>
        /\ line' = rest /\ echo' = Line!Erased(echo)
        /\ unkept' = unkept /\ ran' = ran /\ Line!Spill(cell, text)
    BY <1>11, Zenon DEF Line!Backspace, Line!Reads
  <2>2. cell \in Int /\ (cell > 0 => cell - 1 \in Nat)
    BY <1>1, <1>2
  <2>3. cell > 0 => text \in Seq(LineKeys)
    <3>. HIDE DEF cell
    <3>. DEFINE before == cell - 1
    <3>1. cell > 0 => before \in Nat
      BY <2>2
    <3>. HIDE DEF before
    <3>2. cell > 0 => Line!FirstOf(before, last_command) \in Seq(LineKeys)
      BY <1>1, <3>1, FirstOfLemma, Zenon
    <3>. QED  BY <3>2 DEF before
  <2>4. /\ rest \in Seq(LineKeys) /\ (line = <<>> => rest = <<>>)
        /\ line # <<>> => Len(rest) = Len(line) - 1
    BY <1>1, FirstLemma
  <2>. HIDE DEF cell, text
  <2>5. /\ last_command' \in Seq(LineKeys)
        /\ ~spilled' => ~spilled /\ last_command' = last_command
    BY <1>1, <2>1, <2>2, <2>3, SpillLemma, Zenon
  <2>6. (unkept = 0 => echo = Line!Prompt \o line) /\ Len(echo) = 1 + Len(line) + unkept
    BY <1>3, <2>1, Zenon
  <2>7. /\ echo' \in Seq(Shows) /\ (unkept' = 0 => echo' = Line!Prompt \o line')
        /\ Len(echo') = 1 + Len(line') + unkept'
    <3>1. CASE line = <<>>
      <4>1. echo' = echo /\ line' = line
        BY <2>1, <2>4, <3>1, Zenon DEF Line!Erased
      <4>. QED  BY <1>1, <2>1, <2>6, <4>1, Zenon
    <3>2. CASE line # <<>>
      <4>1. echo' = Line!FirstOf(Len(echo) - 1, echo)
        BY <2>1, <3>2, Zenon DEF Line!Erased
      <4>2. Len(line) \in Nat \ {0} /\ unkept \in Nat /\ unkept' = unkept
        BY <1>1, <2>1, <3>2, EmptySeq
      <4>3. echo # <<>>
        <5>1. Len(echo) # 0
          BY <2>6, <4>2
        <5>. QED  BY <5>1, EmptySeq
      <4>4. echo' \in Seq(Shows) /\ Len(echo') = Len(echo) - 1
        BY <1>1, <4>1, <4>3, FirstLemma, Zenon
      <4>5. unkept = 0 => echo' = Line!Prompt \o rest
        BY <1>1, <2>6, <3>2, <4>1, EraseLemma, Zenon
      <4>. HIDE DEF rest
      <4>6. Len(line') = Len(line) - 1
        BY <2>1, <2>4, <3>2, Zenon
      <4>7. Len(echo') = 1 + Len(line') + unkept'
        BY <2>6, <4>2, <4>4, <4>6
      <4>. QED  BY <2>1, <4>2, <4>4, <4>5, <4>7, Zenon
    <3>. QED  BY <3>1, <3>2, Zenon
  <2>. QED  BY <1>1, <1>4, <2>1, <2>4, <2>5, <2>7, LineKept, Zenon DEF Shows
<1>12. CASE Line!Enter
  <2>. DEFINE cut == Line!FirstOf(MAX_BUFFER, line)
  <2>1. /\ last_command' = (IF line = <<>> THEN last_command ELSE cut)
        /\ spilled' = (spilled /\ line = <<>>) /\ waiting' = TRUE
        /\ keyboard' = Tail(keyboard) /\ keyboard # <<>>
        /\ UNCHANGED <<line, echo, unkept>>
        /\ ran' = IF line = <<>> THEN ran ELSE Line!Command(Line!Parsed)
    BY <1>12, Zenon DEF Line!Enter, Line!Reads, Line!Remembered, Line!shown
  <2>2. CASE line = <<>>
    <3>1. /\ last_command' = last_command /\ ran' = ran
          /\ ~spilled' => ~spilled
      BY <2>1, <2>2, Zenon
    <3>. QED  BY <1>1, <1>4, <2>1, <3>1, LineKept, Zenon DEF Shows
  <2>3. CASE line # <<>>
    <3>1. last_command' = cut /\ ran' = Line!Command(Line!Parsed)
      BY <2>1, <2>3, Zenon
    <3>2. /\ cut \in Seq(LineKeys) /\ (Len(line) < MAX_BUFFER => cut = line)
          /\ Len(cut) = IF MAX_BUFFER <= Len(line) THEN MAX_BUFFER ELSE Len(line)
      BY <1>1, <1>2, FirstOfLemma
    <3>. HIDE DEF cut
    <3>3. Len(cut) < MAX_BUFFER => Len(line) < MAX_BUFFER /\ Len(line) <= MAX_BUFFER
      BY <1>1, <1>2, <3>2
    <3>4. Len(cut) < MAX_BUFFER => cut = line /\ Line!Parsed = line
      BY <3>2, <3>3, Zenon DEF Line!Parsed
    <3>5. Line!RecallRepeats'
      BY <3>1, <3>4, Zenon DEF Line!RecallRepeats
    <3>6. Line!EchoMatchesBuffer'
      BY <2>1, Zenon DEF Line!EchoMatchesBuffer
    <3>7. Typeable' = Typeable
      BY DEF Typeable
    <3>. QED  BY <1>1, <1>4, <2>1, <3>1, <3>2, <3>5, <3>6, <3>7, Zenon DEF LineInv, Shows
  <2>. QED  BY <2>2, <2>3, Zenon
<1>13. CASE Line!Return
  <2>1. /\ line' = <<>> /\ echo' = Line!Prompt /\ unkept' = 0
        /\ UNCHANGED <<keyboard, last_command, spilled, ran>>
    BY <1>13, Zenon DEF Line!Return
  <2>2. /\ line' \in Seq(LineKeys) /\ unkept' \in Nat
        /\ Len(echo') = 1 + Len(line') + unkept'
    BY <1>2, <2>1
  <2>3. echo' = Line!Prompt \o line'
    BY <1>2, <2>1, Zenon
  <2>. QED  BY <1>1, <1>2, <2>1, <2>2, <2>3, LineKept, Zenon DEF Shows
<1>. QED
  BY <1>2, <1>5, <1>6, <1>7, <1>8, <1>9, <1>10, <1>11, <1>12, <1>13 DEF Line!Next

(* What the shell shows is its line, as long as every key shown is one it  *)
(* keeps, and one key more for each that it does not; what = brings back   *)
(* does what it did before, unless it filled the buffer or was typed over; *)
(* whatever keys are pressed, in a line of any length.                     *)
THEOREM EchoMatches == PartsSpec => []EchoMatchesBuffer
<1>. DEFINE Inv == part = "line" => LineInv
<1>1. PartsInit => Inv
  BY LineInit DEF PartsInit
<1>2. Inv /\ [PartsNext]_partsVars => Inv'
  <2>1. part = "line" /\ [PartsNext]_partsVars => Line!Next \/ UNCHANGED lineVars
    BY DEF PartsNext, Moves, partsVars
  <2>. QED  BY <2>1, PartStays, LineStep
<1>3. Inv => EchoMatchesBuffer
  BY DEF LineInv, EchoMatchesBuffer
<1>. HIDE DEF Inv, PartsInit, PartsNext, partsVars, PartsFairness
<1>. QED
  BY <1>1, <1>2, <1>3, PTL DEF PartsSpec

-----------------------------------------------------------------------------
(* The dining philosophers: a table that only grows, and one where the     *)
(* user presses every key.                                                 *)
OfGrowing ==
  INSTANCE PhilosophersProofs WITH InitialPhilosophers <- MAX_PHILOSOPHERS - 1,
    Inputs <- {"a"}, MaxRuns <- 1, pc <- place, runs <- dinners
OfChanging ==
  INSTANCE PhilosophersProofs WITH InitialPhilosophers <- MIN_PHILOSOPHERS,
    MAX_PHILOSOPHERS <- MAX_PHILOSOPHERS - 1, Pids <- 1 .. MAX_PHILOSOPHERS - 1,
    Inputs <- {"a", "r", "q"}, MaxRuns <- 1, pc <- place, runs <- dinners

LEMMA SameTable ==
  /\ Growing!Init <=> OfGrowing!Init
  /\ Growing!Next <=> OfGrowing!Next
  /\ UNCHANGED dinnerVars => UNCHANGED OfGrowing!vars
  /\ Growing!PhilosophersTypeOK <=> OfGrowing!PhilosophersTypeOK
  /\ Growing!NeighboursExclusive <=> OfGrowing!NeighboursExclusive
  /\ Growing!NoForgottenHunger <=> OfGrowing!NoForgottenHunger
  /\ Growing!NotAllWait <=> OfGrowing!NotAllWait
  /\ Growing!MutexExclusive <=> OfGrowing!MutexExclusive
  /\ Growing!TableAssumption <=> OfGrowing!TableAssumption
<1>1. Growing!Init <=> OfGrowing!Init
  BY DEF
     Growing!Init, Growing!Ids, Growing!MUTEX, Growing!Closed, OfGrowing!Init,
     OfGrowing!Ids, OfGrowing!MUTEX, OfGrowing!Closed
<1>2. Growing!Next <=> OfGrowing!Next
  <2>1. \A p : Growing!Begin(p) <=> OfGrowing!Begin(p)
    BY DEF
       Growing!Begin, Growing!tableVars, Growing!Goto, OfGrowing!Begin,
       OfGrowing!tableVars, OfGrowing!Goto
  <2>2. \A p, from, to : Growing!Enter(p, from, to) <=> OfGrowing!Enter(p, from, to)
    BY DEF
       Growing!Enter, Growing!tableVars, Growing!MUTEX, Growing!SemWait,
       Growing!Goto, Growing!Closed, OfGrowing!Enter, OfGrowing!tableVars,
       OfGrowing!MUTEX, OfGrowing!SemWait, OfGrowing!Goto, OfGrowing!Closed
  <2>test. \A t, j, left, right :
           Growing!Test(t, j, left, right) = OfGrowing!Test(t, j, left, right)
    BY DEF Growing!Test, Growing!AtMost, OfGrowing!Test, OfGrowing!AtMost,
           Growing!SemPost, Growing!MayEat, Growing!Closed, OfGrowing!SemPost, OfGrowing!MayEat, OfGrowing!Closed
  <2>testAt. \A t, j : Growing!TestAt(t, j) = OfGrowing!TestAt(t, j)
    BY <2>test DEF Growing!TestAt, Growing!LEFT, Growing!RIGHT, OfGrowing!TestAt, OfGrowing!LEFT, OfGrowing!RIGHT
  <2>leave. \A t : Growing!Leave(t) <=> OfGrowing!Leave(t)
    BY DEF Growing!Leave, OfGrowing!Leave, Growing!MUTEX, Growing!SemPost, OfGrowing!MUTEX, OfGrowing!SemPost,
           Growing!Closed, OfGrowing!Closed
  <2>table. Growing!Table = OfGrowing!Table
    BY DEF Growing!Table, OfGrowing!Table
  <2>3. \A p : Growing!Take(p) <=> OfGrowing!Take(p)
    BY <2>testAt, <2>leave, <2>table DEF Growing!Take, Growing!Goto, OfGrowing!Take, OfGrowing!Goto
  <2>4. \A p : Growing!AwaitForks(p) <=> OfGrowing!AwaitForks(p)
    BY DEF
       Growing!AwaitForks, Growing!tableVars, Growing!SemWait, Growing!Goto,
       Growing!Closed, OfGrowing!AwaitForks, OfGrowing!tableVars,
       OfGrowing!SemWait, OfGrowing!Goto, OfGrowing!Closed
  <2>5. \A p : Growing!PrintTable(p) <=> OfGrowing!PrintTable(p)
    BY DEF
       Growing!PrintTable, Growing!Goto, Growing!Table, Growing!Leave,
       Growing!MUTEX, Growing!SemPost, Growing!Closed, OfGrowing!PrintTable,
       OfGrowing!Goto, OfGrowing!Table, OfGrowing!Leave, OfGrowing!MUTEX,
       OfGrowing!SemPost, OfGrowing!Closed
  <2>6. \A p : Growing!Put(p) <=> OfGrowing!Put(p)
    BY <2>testAt, <2>leave, <2>table DEF Growing!Put, Growing!Goto, OfGrowing!Put, OfGrowing!Goto, Growing!LEFT, Growing!RIGHT, OfGrowing!LEFT, OfGrowing!RIGHT
  <2>7. \A p : Growing!Count(p) <=> OfGrowing!Count(p)
    BY DEF
       Growing!Count, Growing!Ids, Growing!AtMost, Growing!Goto,
       Growing!Table, Growing!Leave, Growing!MUTEX, Growing!SemPost,
       Growing!Closed, OfGrowing!Count, OfGrowing!Ids, OfGrowing!AtMost,
       OfGrowing!Goto, OfGrowing!Table, OfGrowing!Leave, OfGrowing!MUTEX,
       OfGrowing!SemPost, OfGrowing!Closed
  <2>8. \A p : Growing!Philosopher(p) <=> OfGrowing!Philosopher(p)
    BY <2>1, <2>2, <2>3, <2>4, <2>5, <2>6, <2>7 DEF
       Growing!Philosopher, Growing!pidVars, Growing!mainVars,
       OfGrowing!Philosopher, OfGrowing!pidVars, OfGrowing!mainVars
  <2>9. Growing!InitPhilosophers <=> OfGrowing!InitPhilosophers
    BY DEF
       Growing!InitPhilosophers, Growing!MUTEX, Growing!SemOpen,
       Growing!Reset, Growing!Closed, OfGrowing!InitPhilosophers,
       OfGrowing!MUTEX, OfGrowing!SemOpen, OfGrowing!Reset, OfGrowing!Closed
  <2>put. \A pid, next, over : Growing!PutPid(pid, next, over) <=> OfGrowing!PutPid(pid, next, over)
    BY DEF Growing!PutPid, OfGrowing!PutPid, Growing!Ids, OfGrowing!Ids
  <2>read. Growing!PidRead = OfGrowing!PidRead
    BY DEF Growing!PidRead, OfGrowing!PidRead, Growing!Ids, OfGrowing!Ids
  <2>spawn. \A j : Growing!Spawn(j) <=> OfGrowing!Spawn(j)
    BY <2>put, Zenon DEF Growing!Spawn, OfGrowing!Spawn
  <2>10. Growing!SpawnNext <=> OfGrowing!SpawnNext
    BY <2>spawn, Zenon DEF Growing!SpawnNext, Growing!tableVars, OfGrowing!SpawnNext, OfGrowing!tableVars
  <2>11. Growing!Refuse <=> OfGrowing!Refuse
    BY DEF
       Growing!Refuse, Growing!pidVars, Growing!Table, Growing!Leave,
       Growing!MUTEX, Growing!SemPost, Growing!Closed, OfGrowing!Refuse,
       OfGrowing!pidVars, OfGrowing!Table, OfGrowing!Leave, OfGrowing!MUTEX,
       OfGrowing!SemPost, OfGrowing!Closed
  <2>12. Growing!Add <=> OfGrowing!Add
    <3>1. \A t, j, v : Growing!SemOpen(t, j, v) = OfGrowing!SemOpen(t, j, v)
      BY DEF Growing!SemOpen, OfGrowing!SemOpen, Growing!Closed, OfGrowing!Closed
    <3>. QED  BY <2>spawn, <2>leave, <3>1, Zenon DEF Growing!Add, OfGrowing!Add
  <2>13. Growing!Remove <=> OfGrowing!Remove
    <3>1. \A j : Growing!SemClose(j) = OfGrowing!SemClose(j)
      BY Zenon DEF Growing!SemClose, OfGrowing!SemClose, Growing!Closed, OfGrowing!Closed
    <3>2. \A pcs, pid : Growing!Killed(pcs, pid) = OfGrowing!Killed(pcs, pid)
      BY Zenon DEF Growing!Killed, OfGrowing!Killed
    <3>3. Growing!Closed = OfGrowing!Closed
      BY DEF Growing!Closed, OfGrowing!Closed
    <3>. QED
      BY <2>test, <2>leave, <2>put, <2>read, <3>1, <3>2, <3>3 DEF Growing!Remove, OfGrowing!Remove
  <2>14. Growing!QuitClose <=> OfGrowing!QuitClose
    BY DEF
       Growing!QuitClose, Growing!tableVars, Growing!pidVars, Growing!Closed,
       Growing!SemClose, OfGrowing!QuitClose, OfGrowing!tableVars,
       OfGrowing!pidVars, OfGrowing!Closed, OfGrowing!SemClose
  <2>15. Growing!QuitKill <=> OfGrowing!QuitKill
    BY DEF
       Growing!QuitKill, Growing!tableVars, Growing!pidVars, Growing!Killed,
       OfGrowing!QuitKill, OfGrowing!tableVars, OfGrowing!pidVars,
       OfGrowing!Killed
  <2>16. \A key : Growing!GetChar(key) <=> OfGrowing!GetChar(key)
    BY DEF
       Growing!GetChar, Growing!tableVars, Growing!pidVars, Growing!MUTEX,
       Growing!SemWait, Growing!Closed, OfGrowing!GetChar,
       OfGrowing!tableVars, OfGrowing!pidVars, OfGrowing!MUTEX,
       OfGrowing!SemWait, OfGrowing!Closed
  <2>. QED  BY <2>8, <2>9, <2>10, <2>11, <2>12, <2>13, <2>14, <2>15, <2>16 DEF Growing!Next, OfGrowing!Next
<1>3. UNCHANGED dinnerVars => UNCHANGED OfGrowing!vars
  BY DEF dinnerVars,
     OfGrowing!vars, OfGrowing!tableVars, OfGrowing!pidVars,
     OfGrowing!mainVars
<1>4. Growing!PhilosophersTypeOK <=> OfGrowing!PhilosophersTypeOK
  BY DEF
     Growing!PhilosophersTypeOK, Growing!Ids, Growing!MUTEX, Growing!Closed,
     OfGrowing!PhilosophersTypeOK, OfGrowing!Ids, OfGrowing!MUTEX,
     OfGrowing!Closed
<1>5. Growing!NeighboursExclusive <=> OfGrowing!NeighboursExclusive
  BY DEF
     Growing!NeighboursExclusive, Growing!LEFT, Growing!RIGHT, Growing!Eating,
     OfGrowing!NeighboursExclusive, OfGrowing!LEFT, OfGrowing!RIGHT,
     OfGrowing!Eating
<1>6. Growing!NoForgottenHunger <=> OfGrowing!NoForgottenHunger
  BY DEF
     Growing!NoForgottenHunger, Growing!LEFT, Growing!RIGHT,
     OfGrowing!NoForgottenHunger, OfGrowing!LEFT, OfGrowing!RIGHT
<1>7. Growing!NotAllWait <=> OfGrowing!NotAllWait
  BY DEF
     Growing!NotAllWait, OfGrowing!NotAllWait
<1>8. Growing!MutexExclusive <=> OfGrowing!MutexExclusive
  <2>1. \A S : Growing!Cardinality(S) = OfGrowing!Cardinality(S)
    BY DEF Growing!Cardinality, OfGrowing!Cardinality
  <2>. QED  BY <2>1 DEF Growing!MutexExclusive, Growing!MUTEX,
              OfGrowing!MutexExclusive, OfGrowing!MUTEX
<1>9. Growing!TableAssumption <=> OfGrowing!TableAssumption
  <2>1. \A S : Growing!IsFiniteSet(S) <=> OfGrowing!IsFiniteSet(S)
    BY DEF Growing!IsFiniteSet, OfGrowing!IsFiniteSet
  <2>. QED  BY <2>1 DEF Growing!TableAssumption, OfGrowing!TableAssumption
<1>. QED  BY <1>1, <1>2, <1>3, <1>4, <1>5, <1>6, <1>7, <1>8, <1>9

LEMMA SameChangingTable ==
  /\ Changing!Init <=> OfChanging!Init
  /\ Changing!Next <=> OfChanging!Next
  /\ UNCHANGED dinnerVars => UNCHANGED OfChanging!vars
  /\ Changing!NotAllWait <=> OfChanging!NotAllWait
  /\ Changing!MutexExclusive <=> OfChanging!MutexExclusive
  /\ Changing!TableAssumption <=> OfChanging!TableAssumption
<1>1. Changing!Init <=> OfChanging!Init
  BY DEF
     Changing!Init, Changing!Ids, Changing!MUTEX, Changing!Closed,
     OfChanging!Init, OfChanging!Ids, OfChanging!MUTEX, OfChanging!Closed
<1>2. Changing!Next <=> OfChanging!Next
  <2>1. \A p : Changing!Begin(p) <=> OfChanging!Begin(p)
    BY DEF
       Changing!Begin, Changing!tableVars, Changing!Goto, OfChanging!Begin,
       OfChanging!tableVars, OfChanging!Goto
  <2>2. \A p, from, to : Changing!Enter(p, from, to) <=> OfChanging!Enter(p, from, to)
    BY DEF
       Changing!Enter, Changing!tableVars, Changing!MUTEX, Changing!SemWait,
       Changing!Goto, Changing!Closed, OfChanging!Enter, OfChanging!tableVars,
       OfChanging!MUTEX, OfChanging!SemWait, OfChanging!Goto,
       OfChanging!Closed
  <2>test. \A t, j, left, right :
           Changing!Test(t, j, left, right) = OfChanging!Test(t, j, left, right)
    BY DEF Changing!Test, Changing!AtMost, OfChanging!Test, OfChanging!AtMost,
           Changing!SemPost, Changing!MayEat, Changing!Closed, OfChanging!SemPost, OfChanging!MayEat, OfChanging!Closed
  <2>testAt. \A t, j : Changing!TestAt(t, j) = OfChanging!TestAt(t, j)
    BY <2>test DEF Changing!TestAt, Changing!LEFT, Changing!RIGHT, OfChanging!TestAt, OfChanging!LEFT, OfChanging!RIGHT
  <2>leave. \A t : Changing!Leave(t) <=> OfChanging!Leave(t)
    BY DEF Changing!Leave, OfChanging!Leave, Changing!MUTEX, Changing!SemPost, OfChanging!MUTEX, OfChanging!SemPost,
           Changing!Closed, OfChanging!Closed
  <2>table. Changing!Table = OfChanging!Table
    BY DEF Changing!Table, OfChanging!Table
  <2>3. \A p : Changing!Take(p) <=> OfChanging!Take(p)
    BY <2>testAt, <2>leave, <2>table DEF Changing!Take, Changing!Goto, OfChanging!Take, OfChanging!Goto
  <2>4. \A p : Changing!AwaitForks(p) <=> OfChanging!AwaitForks(p)
    BY DEF
       Changing!AwaitForks, Changing!tableVars, Changing!SemWait,
       Changing!Goto, Changing!Closed, OfChanging!AwaitForks,
       OfChanging!tableVars, OfChanging!SemWait, OfChanging!Goto,
       OfChanging!Closed
  <2>5. \A p : Changing!PrintTable(p) <=> OfChanging!PrintTable(p)
    BY DEF
       Changing!PrintTable, Changing!Goto, Changing!Table, Changing!Leave,
       Changing!MUTEX, Changing!SemPost, Changing!Closed,
       OfChanging!PrintTable, OfChanging!Goto, OfChanging!Table,
       OfChanging!Leave, OfChanging!MUTEX, OfChanging!SemPost,
       OfChanging!Closed
  <2>6. \A p : Changing!Put(p) <=> OfChanging!Put(p)
    BY <2>testAt, <2>leave, <2>table DEF Changing!Put, Changing!Goto, OfChanging!Put, OfChanging!Goto, Changing!LEFT, Changing!RIGHT, OfChanging!LEFT, OfChanging!RIGHT
  <2>7. \A p : Changing!Count(p) <=> OfChanging!Count(p)
    BY DEF
       Changing!Count, Changing!Ids, Changing!AtMost, Changing!Goto,
       Changing!Table, Changing!Leave, Changing!MUTEX, Changing!SemPost,
       Changing!Closed, OfChanging!Count, OfChanging!Ids, OfChanging!AtMost,
       OfChanging!Goto, OfChanging!Table, OfChanging!Leave, OfChanging!MUTEX,
       OfChanging!SemPost, OfChanging!Closed
  <2>8. \A p : Changing!Philosopher(p) <=> OfChanging!Philosopher(p)
    BY <2>1, <2>2, <2>3, <2>4, <2>5, <2>6, <2>7 DEF
       Changing!Philosopher, Changing!pidVars, Changing!mainVars,
       OfChanging!Philosopher, OfChanging!pidVars, OfChanging!mainVars
  <2>9. Changing!InitPhilosophers <=> OfChanging!InitPhilosophers
    BY DEF
       Changing!InitPhilosophers, Changing!MUTEX, Changing!SemOpen,
       Changing!Reset, Changing!Closed, OfChanging!InitPhilosophers,
       OfChanging!MUTEX, OfChanging!SemOpen, OfChanging!Reset,
       OfChanging!Closed
  <2>put. \A pid, next, over : Changing!PutPid(pid, next, over) <=> OfChanging!PutPid(pid, next, over)
    BY DEF Changing!PutPid, OfChanging!PutPid, Changing!Ids, OfChanging!Ids
  <2>read. Changing!PidRead = OfChanging!PidRead
    BY DEF Changing!PidRead, OfChanging!PidRead, Changing!Ids, OfChanging!Ids
  <2>spawn. \A j : Changing!Spawn(j) <=> OfChanging!Spawn(j)
    BY <2>put, Zenon DEF Changing!Spawn, OfChanging!Spawn
  <2>10. Changing!SpawnNext <=> OfChanging!SpawnNext
    BY <2>spawn, Zenon DEF Changing!SpawnNext, Changing!tableVars, OfChanging!SpawnNext, OfChanging!tableVars
  <2>11. Changing!Refuse <=> OfChanging!Refuse
    BY DEF
       Changing!Refuse, Changing!pidVars, Changing!Table, Changing!Leave,
       Changing!MUTEX, Changing!SemPost, Changing!Closed, OfChanging!Refuse,
       OfChanging!pidVars, OfChanging!Table, OfChanging!Leave,
       OfChanging!MUTEX, OfChanging!SemPost, OfChanging!Closed
  <2>12. Changing!Add <=> OfChanging!Add
    <3>1. \A t, j, v : Changing!SemOpen(t, j, v) = OfChanging!SemOpen(t, j, v)
      BY DEF Changing!SemOpen, OfChanging!SemOpen, Changing!Closed, OfChanging!Closed
    <3>. QED  BY <2>spawn, <2>leave, <3>1, Zenon DEF Changing!Add, OfChanging!Add
  <2>13. Changing!Remove <=> OfChanging!Remove
    <3>1. \A j : Changing!SemClose(j) = OfChanging!SemClose(j)
      BY Zenon DEF Changing!SemClose, OfChanging!SemClose, Changing!Closed, OfChanging!Closed
    <3>2. \A pcs, pid : Changing!Killed(pcs, pid) = OfChanging!Killed(pcs, pid)
      BY Zenon DEF Changing!Killed, OfChanging!Killed
    <3>3. Changing!Closed = OfChanging!Closed
      BY DEF Changing!Closed, OfChanging!Closed
    <3>. QED
      BY <2>test, <2>leave, <2>put, <2>read, <3>1, <3>2, <3>3 DEF Changing!Remove, OfChanging!Remove
  <2>14. Changing!QuitClose <=> OfChanging!QuitClose
    BY DEF
       Changing!QuitClose, Changing!tableVars, Changing!pidVars,
       Changing!Closed, Changing!SemClose, OfChanging!QuitClose,
       OfChanging!tableVars, OfChanging!pidVars, OfChanging!Closed,
       OfChanging!SemClose
  <2>15. Changing!QuitKill <=> OfChanging!QuitKill
    BY DEF
       Changing!QuitKill, Changing!tableVars, Changing!pidVars,
       Changing!Killed, OfChanging!QuitKill, OfChanging!tableVars,
       OfChanging!pidVars, OfChanging!Killed
  <2>16. \A key : Changing!GetChar(key) <=> OfChanging!GetChar(key)
    BY DEF
       Changing!GetChar, Changing!tableVars, Changing!pidVars, Changing!MUTEX,
       Changing!SemWait, Changing!Closed, OfChanging!GetChar,
       OfChanging!tableVars, OfChanging!pidVars, OfChanging!MUTEX,
       OfChanging!SemWait, OfChanging!Closed
  <2>. QED  BY <2>8, <2>9, <2>10, <2>11, <2>12, <2>13, <2>14, <2>15, <2>16 DEF Changing!Next, OfChanging!Next
<1>3. UNCHANGED dinnerVars => UNCHANGED OfChanging!vars
  BY DEF dinnerVars,
     OfChanging!vars, OfChanging!tableVars, OfChanging!pidVars,
     OfChanging!mainVars
<1>4. Changing!NotAllWait <=> OfChanging!NotAllWait
  BY DEF
     Changing!NotAllWait, OfChanging!NotAllWait
<1>5. Changing!MutexExclusive <=> OfChanging!MutexExclusive
  <2>1. \A S : Changing!Cardinality(S) = OfChanging!Cardinality(S)
    BY DEF Changing!Cardinality, OfChanging!Cardinality
  <2>. QED  BY <2>1 DEF Changing!MutexExclusive, Changing!MUTEX,
              OfChanging!MutexExclusive, OfChanging!MUTEX
<1>6. Changing!TableAssumption <=> OfChanging!TableAssumption
  <2>1. \A S : Changing!IsFiniteSet(S) <=> OfChanging!IsFiniteSet(S)
    BY DEF Changing!IsFiniteSet, OfChanging!IsFiniteSet
  <2>. QED  BY <2>1 DEF Changing!TableAssumption, OfChanging!TableAssumption
<1>. QED  BY <1>1, <1>2, <1>3, <1>4, <1>5, <1>6

LEMMA TableAssumptions == OfGrowing!TableAssumption /\ OfChanging!TableAssumption
BY UserPartsAssumption, SameTable, SameChangingTable

DinnersInv ==
  /\ part = "growing" => OfGrowing!GrowingInv
  /\ part = "changing" => OfChanging!ChangingInv

LEMMA DinnersInit == PartsInit => DinnersInv
<1>1. PartsInit => (part = "changing" => OfChanging!Init) /\ (part # "changing" => OfGrowing!Init)
  BY SameTable, SameChangingTable DEF PartsInit
<1>2. (OfGrowing!Init => OfGrowing!GrowingInv) /\ (OfChanging!Init => OfChanging!ChangingInv)
  BY TableAssumptions, OfGrowing!GrowingInit, OfChanging!ChangingInit
<1>. QED  BY <1>1, <1>2 DEF DinnersInv

LEMMA DinnersStep == ASSUME DinnersInv, [PartsNext]_partsVars PROVE DinnersInv'
<1>1. ASSUME part = "growing" PROVE OfGrowing!GrowingInv'
  <2>1. Growing!Next \/ UNCHANGED dinnerVars
    BY <1>1 DEF PartsNext, Moves, partsVars
  <2>2. [OfGrowing!Next]_(OfGrowing!vars)
    BY <2>1, SameTable
  <2>. QED  BY <1>1, <2>2, TableAssumptions, OfGrowing!GrowingStep DEF DinnersInv
<1>2. ASSUME part = "changing" PROVE OfChanging!ChangingInv'
  <2>1. Changing!Next \/ UNCHANGED dinnerVars
    BY <1>2 DEF PartsNext, Moves, partsVars
  <2>2. [OfChanging!Next]_(OfChanging!vars)
    BY <2>1, SameChangingTable
  <2>. QED  BY <1>2, <2>2, TableAssumptions, OfChanging!ChangingStep DEF DinnersInv
<1>. QED  BY <1>1, <1>2, PartStays DEF DinnersInv

LEMMA DinnersSafe == DinnersInv => TableExclusive /\ NoForgottenHunger
<1>1. OfGrowing!GrowingInv =>
        /\ OfGrowing!PhilosophersTypeOK /\ OfGrowing!NeighboursExclusive
        /\ OfGrowing!NoForgottenHunger /\ OfGrowing!NotAllWait /\ OfGrowing!MutexExclusive
  BY TableAssumptions, OfGrowing!GrowingSafe
<1>2. OfChanging!ChangingInv => OfChanging!NotAllWait /\ OfChanging!MutexExclusive
  BY TableAssumptions, OfChanging!AloneCounts DEF OfChanging!ChangingInv
<1>. QED
  BY <1>1, <1>2, SameTable, SameChangingTable DEF DinnersInv, TableExclusive, NoForgottenHunger

(* However many seats there are and however the philosophers, phylo and    *)
(* the user's keys interleave: nobody eats next to somebody who eats while *)
(* the table grows, and at no time are two inside MUTEX, also while        *)
(* philosophers are removed and phylo is quit.                             *)
THEOREM TableExclusiveHolds == PartsSpec => []TableExclusive
<1>1. PartsInit => DinnersInv
  BY DinnersInit
<1>2. DinnersInv /\ [PartsNext]_partsVars => DinnersInv'
  BY DinnersStep
<1>3. DinnersInv => TableExclusive
  BY DinnersSafe
<1>. HIDE DEF DinnersInv, TableExclusive, PartsInit, PartsNext, partsVars, PartsFairness
<1>. QED
  BY <1>1, <1>2, <1>3, PTL DEF PartsSpec

(* Only who sits beside somebody new can be hungry, entitled to eat and    *)
(* between two that do not eat; and never do all wait with meals left to   *)
(* each of them, whatever the user presses.                                *)
THEOREM HungerInParts == PartsSpec => []NoForgottenHunger
<1>1. PartsInit => DinnersInv
  BY DinnersInit
<1>2. DinnersInv /\ [PartsNext]_partsVars => DinnersInv'
  BY DinnersStep
<1>3. DinnersInv => NoForgottenHunger
  BY DinnersSafe
<1>. HIDE DEF DinnersInv, NoForgottenHunger, PartsInit, PartsNext, partsVars, PartsFairness
<1>. QED
  BY <1>1, <1>2, <1>3, PTL DEF PartsSpec
=============================================================================
