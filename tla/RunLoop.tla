------------------------------ MODULE RunLoop -------------------------------
(***************************************************************************)
(* The run loop of src/run.c: ppcemu_step fetches and executes one         *)
(* instruction, advances the timebase and the decrementer, looks at the    *)
(* external interrupt line and at the decrementer, and enters the          *)
(* low-power modes; a step in a low-power mode only lets time pass and     *)
(* looks for a wake event.                                                 *)
(*                                                                         *)
(* The line is an atomic that any thread of the embedder may change at any *)
(* time (ppcemu_external_interrupt).  A step that executes an instruction  *)
(* reads it twice, so it is two actions here, one for each read; all else  *)
(* a step touches belongs to the thread that calls ppcemu_step.            *)
(***************************************************************************)
EXTENDS Integers

CONSTANTS
  C2BMult,      \* state->c2b_mult, core cycles in a bus cycle
  Half,         \* 2 ^ 31: DEC is negative from here on
  MsrValues,    \* the values the program puts into MSR and SRR1
  Hid0Values,   \* the DOZE, NAP, SLEEP bits the program puts into HID0
  TimeValues,   \* the values the program puts into DEC and TBL
  Setters       \* whether the embedder calls set_msr, set_spr and reset

CORE_CYCLES_PER_INSTR == 3
TicksPerTb == 4 * C2BMult         \* core cycles in a timebase tick
M == 2 * Half                     \* DEC and TBL are counted modulo M

Modes == {"DOZE", "NAP", "SLEEP"}
Msr   == [EE : BOOLEAN, POW : BOOLEAN, IR : BOOLEAN]
NoMsr == [EE |-> FALSE, POW |-> FALSE, IR |-> FALSE]

ASSUME TimeAssumption ==
  /\ C2BMult \in Nat \ {0} /\ Half \in Nat \ {0}
  /\ TimeValues \subseteq 0 .. M - 1

ASSUME RegisterAssumption ==
  /\ MsrValues \subseteq Msr
  /\ Hid0Values \subseteq SUBSET Modes
  /\ Setters \in BOOLEAN

VARIABLES
  cpu,    \* the registers a step works on, struct _ppcemu_state
  line,   \* state->external_interrupt_pending
  phase,  \* "step", or "interrupts" between the two reads of the line
  \* History variables:
  asked,  \* the program set MSR[POW] and has not been interrupted since
  held,   \* the MSR of the context in SRR1 that the program still needs, if any
  due,    \* DEC has gone below zero since its last exception
  base,   \* DEC + TB when the program last wrote either
  cycles  \* core cycles of all steps, from TB's last write

history == <<asked, held, due, base, cycles>>
vars == <<cpu, line, phase, history>>

Cpu == [msr : Msr, srr1 : Msr, hid0 : SUBSET Modes, power : {"RUN"} \cup Modes,
        tb : 0 .. M - 1, rem : 0 .. TicksPerTb - 1, dec : 0 .. M - 1,
        dec_pending : BOOLEAN]

TypeOK ==
  /\ cpu \in Cpu
  /\ line \in BOOLEAN
  /\ phase \in {"step", "interrupts"}
  /\ asked \in BOOLEAN /\ held \in SUBSET Msr /\ due \in BOOLEAN
  /\ base \in 0 .. M - 1
  /\ cycles \in 0 .. M * TicksPerTb - 1

-----------------------------------------------------------------------------
\* exception_fire, without the PC and the caches
Fire(c) == [c EXCEPT !.srr1 = c.msr, !.msr = NoMsr]

Negative(d) == d >= Half

\* Mutant of AdvanceTime: DEC stops while its exception waits.
AdvanceTimeStalled(c) ==
  LET rem == c.rem + CORE_CYCLES_PER_INSTR
      delta == rem \div TicksPerTb
      dec == (c.dec - delta) % M
  IN IF rem < TicksPerTb THEN [c EXCEPT !.rem = rem]
     ELSE [c EXCEPT !.rem = rem - delta * TicksPerTb, !.tb = (@ + delta) % M,
                    !.dec = IF c.dec_pending THEN @ ELSE dec,
                    !.dec_pending = @ \/ (~Negative(c.dec) /\ Negative(dec))]

\* advance_time: the cycles of one step, and what they make of TB and DEC
AdvanceTime(c) ==
  LET rem == c.rem + CORE_CYCLES_PER_INSTR
      delta == rem \div TicksPerTb
      dec == (c.dec - delta) % M
  IN IF rem < TicksPerTb THEN [c EXCEPT !.rem = rem]
     ELSE [c EXCEPT !.rem = rem - delta * TicksPerTb, !.tb = (@ + delta) % M,
                    !.dec = dec,
                    !.dec_pending = @ \/ (~Negative(c.dec) /\ Negative(dec))]

\* check_power_state: no mode is entered unless exactly one is selected
CheckPowerState(c) ==
  IF c.msr.POW /\ \E m \in Modes : c.hid0 = {m}
  THEN [c EXCEPT !.power = CHOOSE m \in Modes : c.hid0 = {m}]
  ELSE c

-----------------------------------------------------------------------------
Init ==
  /\ cpu = [msr |-> NoMsr, srr1 |-> NoMsr, hid0 |-> {}, power |-> "RUN",
            tb |-> 0, rem |-> 0, dec |-> 0, dec_pending |-> FALSE]
  /\ line = FALSE
  /\ phase = "step"
  /\ asked = FALSE /\ held = {} /\ due = FALSE
  /\ base = 0 /\ cycles = 0

(***************************************************************************)
(* History of the context in SRR1, which must last from the exception that *)
(* put it there, or from the mtspr that did with interrupts disabled,      *)
(* until an rfi resumes it or the program enables interrupts, having saved *)
(* it.  An exception of an instruction replaces it: that is the program's  *)
(* doing.  An interrupt is not, and may only put its own where none is.    *)
(***************************************************************************)
Raises == held' = {cpu.msr}
Interrupts(taken) == held' = IF taken /\ held = {} THEN {cpu.msr} ELSE held
PutsMsr(v) == held' = IF v.EE THEN {} ELSE held
PutsSrr1(v) == held' = IF cpu.msr.EE THEN {} ELSE {v}

Spend(t) == (t + CORE_CYCLES_PER_INSTR) % (M * TicksPerTb)

\* Mutant of After: only the line is looked at.
AfterLineOnly(c) ==
  LET t == AdvanceTime(c)
      tick == c.rem + CORE_CYCLES_PER_INSTR >= TicksPerTb
  IN /\ phase = "step" /\ cpu.power = "RUN"
     /\ IF line THEN cpu' = t /\ phase' = "interrupts"
        ELSE cpu' = CheckPowerState(t) /\ UNCHANGED phase
     /\ due' = (due \/ (tick /\ c.dec = 0))
     /\ UNCHANGED line

(***************************************************************************)
(* The part of ppcemu_step after an instruction that leaves the registers  *)
(* c, up to the first read of the line.                                    *)
(***************************************************************************)
After(c) ==
  LET t == AdvanceTime(c)
      tick == c.rem + CORE_CYCLES_PER_INSTR >= TicksPerTb
  IN /\ phase = "step" /\ cpu.power = "RUN"
     /\ IF line \/ t.dec_pending
        THEN cpu' = t /\ phase' = "interrupts"
        ELSE cpu' = CheckPowerState(t) /\ UNCHANGED phase
     /\ due' = (due \/ (tick /\ c.dec = 0))
     /\ UNCHANGED line

\* An instruction that touches none of the registers modelled here.
Plain == After(cpu) /\ cycles' = Spend(cycles) /\ UNCHANGED <<asked, held, base>>

\* do_mtmsr
Mtmsr(v) ==
  /\ After([cpu EXCEPT !.msr = v])
  /\ asked' = v.POW
  /\ PutsMsr(v)
  /\ cycles' = Spend(cycles)
  /\ UNCHANGED base

\* do_mtspr, for the registers modelled here
MtsprHid0(v) ==
  After([cpu EXCEPT !.hid0 = v]) /\ cycles' = Spend(cycles) /\ UNCHANGED <<asked, held, base>>
MtsprSrr1(v) ==
  /\ After([cpu EXCEPT !.srr1 = v])
  /\ PutsSrr1(v)
  /\ cycles' = Spend(cycles)
  /\ UNCHANGED <<asked, base>>
MtsprDec(v) ==
  /\ After([cpu EXCEPT !.dec = v])
  /\ base' = (v + cpu.tb) % M
  /\ cycles' = Spend(cycles)
  /\ UNCHANGED <<asked, held>>
MtsprTbl(v) ==
  /\ After([cpu EXCEPT !.tb = v])
  /\ base' = (cpu.dec + v) % M
  /\ cycles' = Spend(v * TicksPerTb + cpu.rem)
  /\ UNCHANGED <<asked, held>>

\* Mutant of Rfi: MSR[POW] comes back from SRR1.
RfiPow ==
  /\ After([cpu EXCEPT !.msr = cpu.srr1])
  /\ asked' = FALSE /\ held' = {}
  /\ cycles' = Spend(cycles)
  /\ UNCHANGED base

\* do_rfi
Rfi ==
  /\ After([cpu EXCEPT !.msr = [cpu.srr1 EXCEPT !.POW = FALSE]])
  /\ asked' = FALSE /\ held' = {}
  /\ cycles' = Spend(cycles)
  /\ UNCHANGED base

\* An instruction that ends in an exception: sc, a trap, an illegal
\* instruction, a DSI.
Fault ==
  /\ After(Fire(cpu))
  /\ asked' = FALSE /\ Raises
  /\ cycles' = Spend(cycles)
  /\ UNCHANGED base

(***************************************************************************)
(* The fetch fails: no instruction runs, no time passes and the interrupts *)
(* are not looked at.  Without translation every fetch succeeds.           *)
(***************************************************************************)
FetchFault ==
  /\ phase = "step" /\ cpu.power = "RUN" /\ cpu.msr.IR
  /\ cpu' = Fire(cpu)
  /\ asked' = FALSE /\ Raises
  /\ UNCHANGED <<line, phase, due, base, cycles>>

\* Mutant of TakeInterrupt: the exception is taken with DEC left pending.
TakeInterruptOnce ==
  LET ext == line /\ cpu.msr.EE
      dec == ~ext /\ cpu.dec_pending /\ cpu.msr.EE
      c == IF ext \/ dec THEN Fire(cpu) ELSE cpu
  IN /\ phase = "interrupts" /\ phase' = "step"
     /\ cpu' = CheckPowerState(c)
     /\ due' = (due /\ ~dec)
     /\ asked' = (asked /\ ~(ext \/ dec))
     /\ Interrupts(ext \/ dec)
     /\ UNCHANGED <<line, base, cycles>>

\* ppcemu_step from the second read of the line to the end
TakeInterrupt ==
  LET ext == line /\ cpu.msr.EE
      dec == ~ext /\ cpu.dec_pending /\ cpu.msr.EE
      c == IF ext THEN Fire(cpu)
           ELSE IF dec THEN [Fire(cpu) EXCEPT !.dec_pending = FALSE]
           ELSE cpu
  IN /\ phase = "interrupts" /\ phase' = "step"
     /\ cpu' = CheckPowerState(c)
     /\ due' = (due /\ ~dec)
     /\ asked' = (asked /\ ~(ext \/ dec))
     /\ Interrupts(ext \/ dec)
     /\ UNCHANGED <<line, base, cycles>>

\* The timebase and the decrementer are stopped in SLEEP.
LowPowerTime(c) == IF c.power = "SLEEP" THEN c ELSE AdvanceTime(c)

\* Mutants of WakesOnLine and WakesOnDec: the line ends a sleep also when it is
\* masked; it does not end SLEEP; the decrementer does; it ends DOZE only.
WakesOnLineMasked(c, l) == l
WakesOnLineAwake(c, l) == l /\ c.msr.EE /\ c.power # "SLEEP"
WakesOnDecAlways(c) == c.dec_pending /\ c.msr.EE
WakesOnDecInDoze(c) == c.dec_pending /\ c.msr.EE /\ c.power = "DOZE"

WakesOnLine(c, l) == l /\ c.msr.EE
WakesOnDec(c) == c.dec_pending /\ c.msr.EE /\ c.power # "SLEEP"

\* step_low_power
LowPowerStep ==
  LET t == LowPowerTime(cpu)
      ext == WakesOnLine(t, line)
      dec == ~ext /\ WakesOnDec(t)
      awake == [Fire(t) EXCEPT !.power = "RUN"]
  IN /\ phase = "step" /\ cpu.power # "RUN"
     /\ cpu' = IF ext THEN awake
               ELSE IF dec THEN [awake EXCEPT !.dec_pending = FALSE]
               ELSE t
     /\ due' = (~dec /\ (due \/ (t.tb # cpu.tb /\ cpu.dec = 0)))
     /\ asked' = (asked /\ ~(ext \/ dec))
     /\ Interrupts(ext \/ dec)
     /\ cycles' = IF cpu.power = "SLEEP" THEN cycles ELSE Spend(cycles)
     /\ UNCHANGED <<line, phase, base>>

-----------------------------------------------------------------------------
\* ppcemu_external_interrupt, from any thread
SetLine(b) == line' = b /\ UNCHANGED <<cpu, phase, history>>

\* ppcemu_set_msr and ppcemu_set_spr, between two steps
SetMsr(v) ==
  /\ phase = "step"
  /\ cpu' = [cpu EXCEPT !.msr = v]
  /\ asked' = (v.POW \/ cpu.power # "RUN")
  /\ PutsMsr(v)
  /\ UNCHANGED <<line, phase, due, base, cycles>>
SetDec(v) ==
  /\ phase = "step"
  /\ cpu' = [cpu EXCEPT !.dec = v]
  /\ base' = (v + cpu.tb) % M
  /\ UNCHANGED <<line, phase, asked, held, due, cycles>>
SetHid0(v) ==
  phase = "step" /\ cpu' = [cpu EXCEPT !.hid0 = v] /\ UNCHANGED <<line, phase, history>>
SetSrr1(v) ==
  /\ phase = "step"
  /\ cpu' = [cpu EXCEPT !.srr1 = v]
  /\ PutsSrr1(v)
  /\ UNCHANGED <<line, phase, asked, due, base, cycles>>

\* ppcemu_reset clears everything, the level of the line included.
Reset ==
  /\ phase = "step"
  /\ cpu' = [msr |-> NoMsr, srr1 |-> NoMsr, hid0 |-> {}, power |-> "RUN",
             tb |-> 0, rem |-> 0, dec |-> 0, dec_pending |-> FALSE]
  /\ line' = FALSE
  /\ asked' = FALSE /\ held' = {} /\ due' = FALSE
  /\ base' = 0 /\ cycles' = 0
  /\ UNCHANGED phase

Execute ==
  \/ Plain
  \/ \E v \in MsrValues : Mtmsr(v)
  \/ \E v \in Hid0Values : MtsprHid0(v)
  \/ \E v \in MsrValues : MtsprSrr1(v)
  \/ \E v \in TimeValues : MtsprDec(v)
  \/ \E v \in TimeValues : MtsprTbl(v)
  \/ Rfi
  \/ Fault
  \/ FetchFault

Step == Execute \/ TakeInterrupt \/ LowPowerStep

Embedder ==
  \/ Reset
  \/ \E v \in MsrValues : SetMsr(v)
  \/ \E v \in Hid0Values : SetHid0(v)
  \/ \E v \in MsrValues : SetSrr1(v)
  \/ \E v \in TimeValues : SetDec(v)

Next ==
  \/ Step
  \/ \E b \in BOOLEAN : SetLine(b)
  \/ Setters /\ Embedder

Spec == Init /\ [][Next]_vars

\* The embedder calls ppcemu_step in a loop.
FairSpec == Spec /\ WF_vars(Step)

-----------------------------------------------------------------------------
(* Safety.                                                                 *)

(***************************************************************************)
(* The processor only sleeps, and MSR[POW] is only set, because the        *)
(* program asked for it after its last interrupt: no interrupt handler's   *)
(* rfi sends it back to sleep (the comment at instr/branch.c:34).          *)
(***************************************************************************)
SleepsOnRequest == cpu.msr.POW \/ cpu.power # "RUN" => asked

(***************************************************************************)
(* SRR1 holds the context that the program still needs: no interrupt comes *)
(* over it, neither behind the instruction that raised the exception, nor  *)
(* in the handler before it has saved or after it has restored SRR1, nor   *)
(* in a low-power mode that the handler enters with interrupts disabled.   *)
(***************************************************************************)
ContextKept == held \subseteq {cpu.srr1}

(***************************************************************************)
(* The decrementer exception waits exactly when DEC has gone from zero to  *)
(* minus one since the last one was taken: none is lost to a mask, to the  *)
(* line's priority or to a sleep, and none is taken twice.                 *)
(***************************************************************************)
DecrementerExact == cpu.dec_pending = due

(***************************************************************************)
(* No cycle is lost: TB and the remainder count every cycle outside SLEEP, *)
(* and DEC moves with TB (include/ppcemu/state.h: TB and the decrementer   *)
(* always advance deterministically from emulated core cycles).            *)
(***************************************************************************)
ClockExact ==
  /\ cpu.tb * TicksPerTb + cpu.rem = cycles
  /\ (cpu.dec + cpu.tb) % M = base

(***************************************************************************)
(* include/ppcemu/state.h on the power states: a sleeping processor wakes  *)
(* on an enabled external interrupt, and from DOZE and NAP on an enabled   *)
(* decrementer exception; nothing but a reset wakes it otherwise.          *)
(***************************************************************************)
WakesAsDocumented ==
  [][cpu.power # "RUN" /\ cpu'.power = "RUN" =>
       \/ cpu.msr.EE /\ line
       \/ /\ cpu.msr.EE /\ cpu.power \in {"DOZE", "NAP"}
          /\ due \/ (cpu.dec = 0 /\ cpu'.dec # 0)
       \/ Reset]_vars

(***************************************************************************)
(* No step ends with a decrementer exception that is pending and enabled:  *)
(* mtmsr, rfi, the underflow itself and what the embedder set before the   *)
(* step all come before the check at its end, so the mode that stops DEC   *)
(* is never entered past it.  Only in that mode an embedder can enable one. *)
(***************************************************************************)
DecrementerPrompt ==
  [][Step /\ phase' = "step" /\ cpu'.dec_pending /\ cpu'.msr.EE
       => cpu.power = "SLEEP"]_vars

(* Liveness.                                                               *)

(***************************************************************************)
(* DOZE and NAP end while interrupts are enabled, by the decrementer at    *)
(* the latest, which keeps running and wraps around, unless the embedder   *)
(* goes on writing registers for ever.                                     *)
(***************************************************************************)
DozeEnds ==
  <>[][~Embedder]_vars =>
    (cpu.power \in {"DOZE", "NAP"} /\ cpu.msr.EE ~> cpu.power = "RUN" \/ ~cpu.msr.EE)

\* A held line ends every low-power mode while interrupts are enabled.
LineWakes ==
  cpu.power # "RUN" /\ cpu.msr.EE /\ line ~> cpu.power = "RUN" \/ ~cpu.msr.EE \/ ~line
=============================================================================
