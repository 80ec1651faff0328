-------------------------------- MODULE Shell -------------------------------
(***************************************************************************)
(* The shell (programs/shell.c): the line editor, which reads one key at a *)
(* time and echoes it, and readCommand, which splits the line and starts   *)
(* what it names.  Keys typed while a command runs wait in the keyboard's  *)
(* buffer, where the command may take them.  A line is a sequence of keys; *)
(* a command's name is one too.                                            *)
(***************************************************************************)
EXTENDS Integers, Sequences, FiniteSetsExt, SequencesExt

CONSTANTS Builtins,        \* the commands that run inside the shell
          Programs,        \* the ones that run as processes
          Players,         \* the snakes, whose names are two words
          Keys,            \* the keys pressed, enter, backspace and the kept ones
          Others,          \* keys that are shown and not kept in the line
          MAX_BUFFER,      \* the cells of buffer
          MaxLine          \* bound: keys shown when one more is pressed

(* What the constants must satisfy; assumed where they are given values.  *)
ShellAssumption ==
  /\ MaxLine \in Nat /\ MAX_BUFFER \in Nat \ {0}
  /\ Builtins \cap Programs = {} /\ Others \cap Keys = {}
  /\ Others \cap {"enter", "backspace", "="} = {}
  /\ (Builtins \cup Programs \cup Players) \cap {" ", "|", "&", "=", "enter", "backspace"} = {}

VARIABLES keyboard,        \* the keys that wait
          lastc,
          line,            \* buffer, up to lastEnter, and what follows it
          last_command,
          spilled,         \* history: keys stored past buffer reached last_command
          echo,            \* what the screen shows since the last new line
          unkept,          \* history: how many of those keys were not kept
          waiting,         \* the shell is inside readCommand
          ran              \* history: what the last line that was not empty did

lineVars == <<lastc, line, last_command, spilled>>
shown == <<echo, unkept>>
vars == <<keyboard, lineVars, shown, waiting, ran>>

NUL == "NUL"
MaxUnkept == 1             \* bound: keys of Others in a line
Prompt == <<">">>
InShell == {<<name>> : name \in Builtins}
CommandNames ==
  InShell \cup {<<name>> : name \in Programs} \cup {<<"snake", " ", n>> : n \in Players}

Init ==
  /\ keyboard = <<>> /\ lastc = NUL /\ line = <<>> /\ last_command = <<>> /\ spilled = FALSE
  /\ echo = Prompt /\ unkept = 0 /\ waiting = FALSE /\ ran = [kind |-> "nothing"]

-----------------------------------------------------------------------------
(* readCommand                                                             *)
(* strtok over the whole string: its fields, the empty ones left out.      *)
Fields(s) ==
  SelectSeq(FoldLeft(LAMBDA fields, k : IF k = " " THEN Append(fields, <<>>)
                       ELSE Front(fields) \o <<Append(Last(fields), k)>>, << <<>> >>, s),
            LAMBDA field : field # <<>>)
FirstOf(n, s) == SubSeq(s, 1, Min({n, Len(s)}))
(* strcmp_shell: the name, and then a space or the end.                    *)
Matching(s) ==
  {name \in CommandNames :
     IsPrefix(name, s) /\ (Len(s) > Len(name) => s[Len(name) + 1] = " ")}

Single(s, background) ==
  IF Matching(s) = {} THEN [kind |-> "notFound"]
  ELSE LET name == CHOOSE n \in Matching(s) : TRUE    \* names share no first word and space
       IN IF name \in InShell THEN [kind |-> "inShell", command |-> name]
          ELSE [kind |-> IF background THEN "background" ELSE "foreground",
                command |-> name, argv |-> FirstOf(3, Fields(s))]
Pipeline(left, right) ==
  LET argv1 == FirstOf(4, Fields(left))
      argv2 == FirstOf(4, Fields(right))
      Found(argv) == IF argv = <<>> THEN {} ELSE Matching(argv[1])
  IN IF Found(argv1) = {} \/ Found(argv2) = {} THEN [kind |-> "notFound"]
     ELSE [kind |-> "pipeline", argv |-> <<argv1, argv2>>]
Command(s) ==
  LET background == s # <<>> /\ s[1] = "&"
      body == IF background THEN Tail(s) ELSE s
      bars == {k \in DOMAIN body : body[k] = "|"}
  IN IF bars = {} THEN Single(body, background)
     ELSE Pipeline(SubSeq(body, 1, Min(bars) - 1), SubSeq(body, Min(bars) + 1, Len(body)))

(* copy_command takes the MAX_BUFFER keys it has room for; what the line   *)
(* has past the end of buffer lies where it copies them.                   *)
Remembered == IF line = <<>> THEN last_command ELSE FirstOf(MAX_BUFFER, line)
Parsed == IF Len(line) <= MAX_BUFFER THEN line ELSE Remembered \o Remembered

-----------------------------------------------------------------------------
Press(key) ==
  /\ keyboard = <<>>    \* bound: one key waits
  /\ waiting \/ Len(echo) <= MaxLine \/ key \in {"enter", "backspace"}
  /\ key \in Others => unkept < MaxUnkept
  /\ keyboard' = <<key>>
  /\ UNCHANGED <<lineVars, shown, waiting, ran>>

(* shell: getChar answers NUL when no key waits; a key that repeats the    *)
(* one before is dropped.                                                  *)
Reads(key) == ~waiting /\ keyboard # <<>> /\ keyboard[1] = key /\ keyboard' = Tail(keyboard)
Poll ==
  /\ ~waiting /\ keyboard = <<>> /\ lastc # NUL /\ lastc' = NUL
  /\ UNCHANGED <<keyboard, line, last_command, spilled, shown, waiting, ran>>
Repeated == Reads(lastc) /\ UNCHANGED <<lineVars, shown, waiting, ran>>

(* printLine: a key of its list goes to the buffer, whose end it does not  *)
(* look at (170).  The build puts last_command there (after two bytes of   *)
(* padding, left out): what is stored past the end or erased there         *)
(* replaces keys of last_command until the next line is copied to it.      *)
(* A key outside the list is shown all the same (192).                     *)
Spill(cell, text) ==
  IF cell <= 0 THEN UNCHANGED <<last_command, spilled>>
  ELSE last_command' = text /\ spilled' = TRUE
Overlaid(cell, key) ==
  IF cell \in DOMAIN last_command THEN [last_command EXCEPT ![cell] = key]
  ELSE Append(last_command, key)
Recall ==
  /\ lastc # "=" /\ line = <<>> /\ last_command # <<>> /\ Reads("=")
  /\ line' = last_command /\ echo' = echo \o last_command /\ lastc' = "="
  /\ UNCHANGED <<last_command, spilled, unkept, waiting, ran>>
Store(key) ==
  /\ key \notin {lastc, "enter", "backspace"} /\ Reads(key)
  /\ ~(key = "=" /\ line = <<>> /\ last_command # <<>>)
  /\ line' = Append(line, key)
  /\ LET cell == Len(line) + 1 - MAX_BUFFER IN Spill(cell, Overlaid(cell, key))
  /\ echo' = Append(echo, key) /\ lastc' = key
  /\ UNCHANGED <<unkept, waiting, ran>>
Show(key) ==
  /\ key # lastc /\ Reads(key)
  /\ echo' = Append(echo, key) /\ unkept' = unkept + 1 /\ lastc' = key
  /\ UNCHANGED <<line, last_command, spilled, waiting, ran>>
ErasedAlways(text) == FirstOf(Len(text) - 1, text)    \* mutant: the prompt goes too
Erased(text) == IF line = <<>> THEN text ELSE FirstOf(Len(text) - 1, text)
Backspace ==
  /\ lastc # "backspace" /\ Reads("backspace") /\ lastc' = "backspace"
  /\ line' = FirstOf(Len(line) - 1, line) /\ echo' = Erased(echo)
  /\ LET cell == Len(line) - MAX_BUFFER IN Spill(cell, FirstOf(cell - 1, last_command))
  /\ UNCHANGED <<unkept, waiting, ran>>
Enter ==
  /\ lastc # "enter" /\ Reads("enter")
  /\ last_command' = Remembered /\ spilled' = (spilled /\ line = <<>>)
  /\ waiting' = TRUE
  /\ ran' = IF line = <<>> THEN ran ELSE Command(Parsed)
  /\ UNCHANGED <<lastc, line, shown>>
(* A command that has the keyboard reads from it.                          *)
Taken ==
  /\ waiting /\ ran.kind \in {"foreground", "pipeline"} /\ keyboard # <<>>
  /\ keyboard' = Tail(keyboard)
  /\ UNCHANGED <<lineVars, shown, waiting, ran>>
(* The command has been started, or has ended.                             *)
Return ==
  /\ waiting /\ waiting' = FALSE
  /\ line' = <<>> /\ echo' = Prompt /\ unkept' = 0 /\ lastc' = "enter"
  /\ UNCHANGED <<keyboard, last_command, spilled, ran>>

Next ==
  \/ \E key \in Keys : Press(key) \/ Store(key)
  \/ \E key \in Others : Press(key) \/ Show(key)
  \/ Poll \/ Repeated \/ Recall \/ Backspace \/ Enter \/ Taken \/ Return
Spec == Init /\ [][Next]_vars

-----------------------------------------------------------------------------
(* What the screen shows of the line is the line, which Enter runs if it   *)
(* fits in buffer, through recalls, erasures and keys typed ahead, as long *)
(* as all keys shown are kept.  A key outside printLine's list is shown    *)
(* and not kept: the screen then shows one key more than the line has, and *)
(* never another number of them (an erasure takes one from each).          *)
EchoMatchesBuffer ==
  ~waiting => /\ unkept = 0 => echo = Prompt \o line
              /\ Len(echo) = Len(Prompt) + Len(line) + unkept
(* "= press to repeat last command": the line that = brings back does what *)
(* it did before, in the background if it ran there, unless it filled the  *)
(* buffer (copy_command cuts it) or a longer line was typed over it since. *)
RecallRepeats ==
  ran.kind # "nothing" /\ Len(last_command) < MAX_BUFFER /\ ~spilled
    => ran = Command(last_command)
(* "[process] | [process] for piping 2 processes": any two commands that   *)
(* run as processes of their own can be the sides of a pipe.               *)
AnyTwoPipe ==
  LET bars == {k \in DOMAIN line : line[k] = "|"}
      Process(s) == s # <<>> /\ Single(s, FALSE).kind = "foreground"
  IN ran.kind = "notFound" /\ waiting /\ Cardinality(bars) = 1
       => ~ \A k \in bars : Process(SubSeq(line, 1, k - 1)) /\ Process(SubSeq(line, k + 1, Len(line)))
(* "&[process] for background process": the prompt comes back while what   *)
(* such a line started still runs.                                         *)
AmpersandDoesNotWait ==
  waiting /\ line # <<>> /\ line[1] = "&" => ran.kind \in {"background", "notFound"}
=============================================================================
