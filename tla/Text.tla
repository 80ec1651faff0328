-------------------------------- MODULE Text --------------------------------
(***************************************************************************)
(* Numbers and arguments on their way between the user, the shell and a    *)
(* process: what prints a number (printInteger, intToChar, uint64ToHex),   *)
(* what reads it (atoi, satoi), what copies a process's arguments          *)
(* (allocArguments), and the commands that pass text on.  Each call is one *)
(* step from its input to its result.  Characters are their codes; an int  *)
(* has Bits bits.                                                          *)
(***************************************************************************)
EXTENDS Integers, Sequences, SequencesExt, FiniteSetsExt

CONSTANTS Bits,            \* of an int
          HexDigits,       \* of a register, 16
          PTR,             \* bytes of a pointer, 8
          MaxArgs, MaxLen, \* bounds: arguments, and their characters
          MaxText          \* bound: characters of a text

(* What the constants must satisfy; assumed where they are given values.  *)
TextAssumption ==
  {Bits, HexDigits, PTR} \subseteq Nat \ {0, 1} /\ {MaxArgs, MaxLen, MaxText} \subseteq Nat

VARIABLES call, input, done, result
vars == <<call, input, done, result>>

NUL == 0
Vowels == {97, 65, 101, 69, 105, 73, 111, 79, 117, 85}
IntMax == 2 ^ (Bits - 1) - 1
IntMin == -(2 ^ (Bits - 1))
Wrapped(n, bits) == ((n + 2 ^ (bits - 1)) % 2 ^ bits) - 2 ^ (bits - 1)
AsInt(n) == Wrapped(n, Bits)
(* C's % and / round towards zero.                                         *)
Rem(n, d) == IF n < 0 THEN -((-n) % d) ELSE n % d
Quo(n, d) == IF n < 0 THEN -((-n) \div d) ELSE n \div d
Digit == 48 .. 57
Minus == 45

-----------------------------------------------------------------------------
(* Numbers to text                                                         *)
(* buf, filled from the last digit on: do ... while ((n /= 10) > 0).       *)
LastDigits[n \in IntMin .. IntMax] ==
  <<Rem(n, 10) + 48>> \o (IF Quo(n, 10) > 0 THEN LastDigits[Quo(n, 10)] ELSE <<>>)
PrintInteger(n) ==    \* -IntMin is IntMin again
  IF n < 0 THEN <<Minus>> \o Reverse(LastDigits[AsInt(-n)]) ELSE Reverse(LastDigits[n])
IntToChar(n) ==    \* the sign is reversed with the digits
  IF n < 0 THEN Reverse(<<Minus>> \o (IF AsInt(-n) > 0 THEN LastDigits[AsInt(-n)] ELSE <<>>))
  ELSE Reverse(LastDigits[n])
HexDigit(d) == IF d < 10 THEN 48 + d ELSE 65 - 10 + d
Uint64ToHex(n) == [i \in 1 .. HexDigits |-> HexDigit((n \div 16 ^ (HexDigits - i)) % 16)]

(* Text to numbers                                                         *)
Sign(str) == IF str # <<>> /\ str[1] = Minus THEN -1 ELSE 1
Body(str) == IF Sign(str) = -1 THEN Tail(str) ELSE str
Value(digits, bits) ==
  FoldLeft(LAMBDA res, c : Wrapped(res * 10 + c - 48, bits), 0, digits)
Leading(str) ==    \* the digits before anything else
  LET others == {i \in DOMAIN str : str[i] \notin Digit}
  IN IF others = {} THEN str ELSE SubSeq(str, 1, Min(others) - 1)
Atoi(str) == AsInt(Sign(str) * Value(Leading(Body(str)), Bits))
Satoi(str) ==    \* anything that is not a digit makes it 0; it has 64 bits
  IF \E i \in DOMAIN Body(str) : Body(str)[i] \notin Digit THEN 0
  ELSE Sign(str) * Value(Body(str), 2 * Bits)

(* allocArguments: one block with the array of pointers, its NULL and the  *)
(* strings, each with its NUL.                                             *)
LengthsBare(args) == [i \in DOMAIN args |-> Len(args[i])]    \* mutant: no room for the NUL
Lengths(args) == [i \in DOMAIN args |-> Len(args[i]) + 1]
Before(lengths, i) == FoldLeft(LAMBDA m, n : m + n, 0, SubSeq(lengths, 1, i - 1))
AllocArguments(args) ==
  LET strings == PTR * (Len(args) + 1)
      lengths == Lengths(args)
      position == [i \in DOMAIN args |-> strings + Before(lengths, i)]
      Source(i, k) == IF k < Len(args[i]) THEN args[i][k + 1] ELSE NUL
  IN [pointers |-> position,
      bytes |-> [x \in strings .. strings + Before(lengths, Len(args) + 1) - 1 |->
                   LET i == CHOOSE j \in DOMAIN args :
                              position[j] <= x /\ x < position[j] + lengths[j]
                   IN Source(i, x - position[i])]]
(* What argv[i] is to the process: the bytes up to the first NUL.          *)
Argument(block, i) ==
  LET from == block.pointers[i]
      ends == {x \in DOMAIN block.bytes : x >= from /\ block.bytes[x] = NUL}
  IN IF ends = {} THEN <<"past the block">>
     ELSE [k \in 1 .. Min(ends) - from |-> block.bytes[from + k - 1]]

(* filter: vowels, and what repeats the last character printed, are left   *)
(* out.                                                                    *)
Filter(text) ==
  FoldLeft(LAMBDA out, c : IF c \in Vowels \/ (out # <<>> /\ Last(out) = c) THEN out
                           ELSE Append(out, c), <<>>, text)

-----------------------------------------------------------------------------
Strings(chars, n) == UNION {[1 .. k -> chars] : k \in 0 .. n}
Init ==
  /\ \/ call = "print" /\ input \in IntMin .. IntMax
     \/ call = "toChar" /\ input \in 0 .. IntMax    \* what its callers pass
     \/ call = "hex" /\ input \in 0 .. 16 ^ HexDigits - 1
     \/ call = "parse" /\ input \in Strings({45, 48, 57, 97}, MaxText)
     \/ call = "args" /\ input \in Strings(Strings({97, 98}, MaxLen), MaxArgs)
     \/ call = "filter" /\ input \in Strings({97, 98, 99, 10}, MaxText)
  /\ done = FALSE /\ result = <<>>

Call(name, value) ==
  /\ call = name /\ ~done /\ done' = TRUE
  /\ result' = value /\ UNCHANGED <<call, input>>
Next ==
  \/ Call("print", PrintInteger(input)) \/ Call("toChar", IntToChar(input))
  \/ Call("hex", Uint64ToHex(input))
  \/ Call("parse", [atoi |-> Atoi(input), satoi |-> Satoi(input)])
  \/ Call("args", AllocArguments(input))
  \/ Call("filter", Filter(input))
Spec == Init /\ [][Next]_vars

-----------------------------------------------------------------------------
(* A number that was printed is read back as it was, by both readers and   *)
(* from both printers: the pids that ps shows are the ones kill gets, and  *)
(* the numbers a test passes to its processes the ones they get.  The      *)
(* least int, whose digits come out below '0', is the exception.           *)
NumbersRoundTrip ==
  /\ done /\ call \in {"print", "toChar"} /\ input # IntMin
       => Atoi(result) = input /\ Satoi(result) = input
  /\ done /\ call = "hex" =>
       input = FoldLeft(LAMBDA n, c : n * 16 + (IF c \in Digit THEN c - 48 ELSE c - 55), 0, result)
(* The two readers disagree only about text that is not a number, and      *)
(* about what an int cannot hold.                                          *)
ReadersAgree ==
  done /\ call = "parse" =>
    \/ result.atoi = AsInt(result.satoi)
    \/ result.satoi = 0 /\ \E i \in DOMAIN input : input[i] \notin Digit
(* A process gets the arguments it was given, and nothing is written       *)
(* outside the block that holds them.                                      *)
ArgumentsArrive ==
  done /\ call = "args" =>
    /\ \A i \in DOMAIN input : Argument(result, i) = input[i]
    /\ Cardinality(DOMAIN result.bytes) = FoldLeft(LAMBDA n, s : n + Len(s) + 1, 0, input)
(* "filter   filter vowels from input": everything else passes.            *)
FiltersOnlyVowels ==
  done /\ call = "filter" => result = SelectSeq(input, LAMBDA c : c \notin Vowels)
=============================================================================
