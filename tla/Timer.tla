-------------------------------- MODULE Timer -------------------------------
(***************************************************************************)
(* The tick counter (drivers/time.c), sys_sleep and the speaker            *)
(* (drivers/sound.c).  sys_sleep runs inside a system call, but its hlt    *)
(* lets interrupts in: other processes run, sleep and beep meanwhile.      *)
(* Every yield is an int 0x20 and counts as a tick too.                    *)
(*                                                                         *)
(* ms_elapsed is an int: it wraps while processes sleep.  Ticks are kept   *)
(* modulo the period after which it repeats.                               *)
(***************************************************************************)
EXTENDS Integers, FiniteSets

CONSTANTS Procs,
          Killable,         \* processes that may be killed
          Beepers,          \* processes that play sounds
          Delays,           \* the ms asked for
          MsNum, MsDen,     \* ms per tick: 5000 / 91 in the code
          Half,             \* 2^31, half the range of an int
          MaxLate           \* bound: the ticks after which a sleeper that is
                            \* due has looked at the clock; 2^32 ms later the
                            \* code would take it for a new one

(* What the constants must satisfy; assumed where they are given values.  *)
TimerAssumption ==
  /\ {MsNum, MsDen, Half} \subseteq Nat \ {0} /\ MsNum > MsDen
  /\ Delays \subseteq Nat /\ MaxLate \in Nat \ {0}
  /\ \A d \in Delays : d * MsDen <= MaxLate * MsNum
  /\ (MaxLate + 3) * MsNum < 2 * Half * MsDen

VARIABLES ticks,        \* modulo Period
          phase,        \* per process: awake, halted in sys_sleep, or to check
          start, ms,    \* locals of sys_sleep
          slept,        \* history: the ticks since sys_sleep was entered
          speaker, beeping

sleepVars == <<start, ms>>
soundVars == <<speaker, beeping>>
vars == <<ticks, phase, sleepVars, slept, soundVars>>

Period == MsDen * 2 * Half
AsInt(n) == ((n + Half) % (2 * Half)) - Half
ms_elapsed == AsInt((ticks * MsNum) \div MsDen)

Init ==
  /\ ticks \in {0, Period \div 2 - 1} /\ phase = [p \in Procs |-> "awake"]
  /\ start = [p \in Procs |-> 0] /\ ms = [p \in Procs |-> 0]
  /\ slept = [p \in Procs |-> 0] /\ speaker = FALSE /\ beeping = {}

(* Nobody is halted but the process that has the processor.                *)
Halted == {p \in Procs : phase[p] = "halted"}
Late == {p \in Procs : phase[p] = "check" /\ slept[p] >= MaxLate}
(* int 0x20, from the timer (of whoever runs or halts) or from a yield     *)
(* (of a process that is neither): whoever was halted goes on some time.   *)
Count ==
  /\ ticks' = (ticks + 1) % Period
  /\ slept' = [p \in Procs |-> IF phase[p] \in {"awake", "dead"} THEN 0
                               ELSE IF slept[p] < MaxLate + 3 THEN slept[p] + 1 ELSE slept[p]]
TimerMaster ==
  /\ Halted # {} \/ Late = {}
  /\ Count /\ phase' = [p \in Procs |-> IF p \in Halted THEN "check" ELSE phase[p]]
  /\ UNCHANGED <<sleepVars, soundVars>>
Yield(p) ==
  /\ phase[p] = "awake" /\ Halted \cup Late = {} /\ Count
  /\ UNCHANGED <<phase, sleepVars, soundVars>>
(* Any other interrupt ends the hlt as well.                               *)
Keyboard(p) ==
  /\ phase[p] = "halted" /\ phase' = [phase EXCEPT ![p] = "check"]
  /\ UNCHANGED <<ticks, slept, sleepVars, soundVars>>

EnterSleep(p, delay) ==
  /\ phase[p] = "awake" /\ Halted \cup Late = {} /\ phase' = [phase EXCEPT ![p] = "halted"]
  /\ start' = [start EXCEPT ![p] = ms_elapsed] /\ ms' = [ms EXCEPT ![p] = delay]
  /\ slept' = [slept EXCEPT ![p] = 0] /\ UNCHANGED ticks
SysSleep(p, delay) == EnterSleep(p, delay) /\ UNCHANGED soundVars
(* beep: the speaker sounds as long as its process sleeps; a frequency of  *)
(* 0 stops it, and the process sleeps all the same.                        *)
Beep(p, delay) ==
  /\ p \in Beepers /\ EnterSleep(p, delay)
  /\ speaker' \in BOOLEAN /\ beeping' = beeping \cup {p}
StopSound(p) ==
  /\ phase[p] = "awake" /\ Halted = {} /\ speaker' = FALSE
  /\ UNCHANGED <<ticks, phase, sleepVars, slept, beeping>>

(* The int difference becomes a uint64_t: a negative one is large.         *)
TooEarlyBySum(p) == ms_elapsed < AsInt(start[p] + ms[p])    \* mutants of TooEarly
TooEarlyExact(p) == AsInt(ms_elapsed - start[p]) # ms[p]
TooEarly(p) == AsInt(ms_elapsed - start[p]) \in 0 .. ms[p] - 1
Again(p) ==
  /\ phase[p] = "check" /\ Halted = {} /\ Late \subseteq {p} /\ TooEarly(p)
  /\ phase' = [phase EXCEPT ![p] = "halted"]
  /\ UNCHANGED <<ticks, sleepVars, slept, soundVars>>
WakeLoud(p) ==       \* mutant of Wake: the speaker is left on
  /\ phase[p] = "check" /\ Halted = {} /\ ~TooEarly(p)
  /\ phase' = [phase EXCEPT ![p] = "awake"] /\ beeping' = beeping \ {p}
  /\ UNCHANGED <<ticks, sleepVars, slept, speaker>>
Wake(p) ==
  /\ phase[p] = "check" /\ Halted = {} /\ ~TooEarly(p)
  /\ phase' = [phase EXCEPT ![p] = "awake"] /\ beeping' = beeping \ {p}
  /\ speaker' = (speaker /\ p \notin beeping)
  /\ UNCHANGED <<ticks, sleepVars, slept>>
(* Killed by another process, or by Ctrl+C: it never stops its own sound.  *)
Kill(p) ==
  /\ p \in Killable /\ phase[p] \in {"awake", "check"} /\ Halted = {}
  /\ phase' = [phase EXCEPT ![p] = "dead"] /\ beeping' = beeping \ {p}
  /\ UNCHANGED <<ticks, sleepVars, slept, speaker>>

Run(p) == Again(p) \/ Wake(p)
Next ==
  \/ TimerMaster
  \/ \E p \in Procs :
       \/ Run(p) \/ Yield(p) \/ Keyboard(p) \/ Kill(p) \/ StopSound(p)
       \/ \E delay \in Delays : SysSleep(p, delay) \/ Beep(p, delay)
Spec == Init /\ [][Next]_vars

-----------------------------------------------------------------------------
(* A sleeper comes back only after the ms it asked for, to the tick: the   *)
(* wrap of ms_elapsed, in the middle of a sleep, does not cut it short.    *)
SleepsLongEnough ==
  [][\A p \in Procs : phase[p] = "check" /\ phase'[p] = "awake"
       => slept[p] * MsNum >= (ms[p] - 1) * MsDen]_vars
(* Whoever sleeps comes back, however often others sleep, beep and yield.  *)
SleepEnds ==
  \A p \in Procs : phase[p] = "halted" ~> phase[p] \in {"awake", "dead"}
(* The speaker does not sound on when every process that beeped is back    *)
(* from it, although they cut each other off.                              *)
SpeakerOwned == speaker => beeping # {}
=============================================================================
