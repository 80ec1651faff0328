-------------------------------- MODULE Clock -------------------------------
(***************************************************************************)
(* The command time: it asks for the hours, the minutes and the seconds in *)
(* three system calls (user_time), each of which reads one register of the *)
(* clock chip, that goes on meanwhile.  The registers are in BCD and the   *)
(* time shown is three hours behind them.                                  *)
(***************************************************************************)
EXTENDS Integers

CONSTANTS Starts,    \* the seconds since midnight at which it is called
          MaxTicks   \* bound: seconds that pass during the command

VARIABLES chip,      \* seconds since midnight, as the chip counts them
          began,     \* history: chip when the command began
          pc, hours, minutes, seconds
vars == <<chip, began, pc, hours, minutes, seconds>>

DAY == 86400
(* What the constants must satisfy; assumed where they are given values.   *)
ClockAssumption == Starts \subseteq 0 .. DAY - 1 /\ MaxTicks \in Nat
Fields(t) == <<t \div 3600, (t \div 60) % 60, t % 60>>
LocalTime(t) == Fields((t + 21 * 3600) % DAY)    \* "transform to -3 GMT"

Init ==
  /\ chip \in Starts /\ began = chip /\ pc = "hours"
  /\ hours = 0 /\ minutes = 0 /\ seconds = 0

Tick ==
  /\ (chip - began) % DAY < MaxTicks
  /\ chip' = (chip + 1) % DAY
  /\ UNCHANGED <<began, pc, hours, minutes, seconds>>

(* getHours, getMinutes, getSeconds of libasm.asm: a register's eight bits *)
Register(field) == (Fields(chip)[field] \div 10) * 16 + (Fields(chip)[field] % 10)
DecodedPlain(bcd) == bcd    \* mutant: the register is taken as it is
Decoded(bcd) == (bcd \div 16) * 10 + (bcd % 16)
AdvanceTo(from, to) == pc = from /\ pc' = to
GetHours ==
  /\ AdvanceTo("hours", "minutes") /\ hours' = (Decoded(Register(1)) + 21) % 24
  /\ UNCHANGED <<chip, began, minutes, seconds>>
GetMinutes ==
  /\ AdvanceTo("minutes", "seconds") /\ minutes' = Decoded(Register(2))
  /\ UNCHANGED <<chip, began, hours, seconds>>
GetSeconds ==
  /\ AdvanceTo("seconds", "shown") /\ seconds' = Decoded(Register(3))
  /\ UNCHANGED <<chip, began, hours, minutes>>

Next == Tick \/ GetHours \/ GetMinutes \/ GetSeconds
Spec == Init /\ [][Next]_vars

-----------------------------------------------------------------------------
Shown == <<hours, minutes, seconds>>
During == {LocalTime((began + t) % DAY) : t \in 0 .. (chip - began) % DAY}
(* Unless a minute ends while the command runs, it shows a time the clock  *)
(* had meanwhile, at any time of the day and on both sides of midnight.    *)
ShowsTheTime ==
  pc = "shown" /\ began \div 60 = chip \div 60 => Shown \in During
(* "time   shows actual time".                                             *)
ShowsActualTime == pc = "shown" => Shown \in During
=============================================================================
