--------------------------- MODULE RunLoopProofs ----------------------------
(***************************************************************************)
(* Proofs about RunLoop, for every clock ratio, width of the decrementer   *)
(* and set of register values.                                             *)
(***************************************************************************)
EXTENDS RunLoop, TLAPS

-----------------------------------------------------------------------------
(* Arithmetic.                                                             *)

LEMMA ClockSizes ==
  /\ TicksPerTb \in Nat /\ TicksPerTb >= 4
  /\ M \in Nat /\ M >= 2
  /\ Half \in Nat /\ Half >= 1 /\ M = Half + Half
  BY TimeAssumption DEF TicksPerTb, M

\* Adding two residues after reducing one of them.
LEMMA ModAdd ==
  ASSUME NEW n \in Nat \ {0}, NEW x \in 0 .. n - 1, NEW y \in 0 .. n - 1
  PROVE  (((x - 1) % n) + ((y + 1) % n)) % n = (x + y) % n
<1>1. CASE x = 0 /\ y = n - 1
  <2>1. (x - 1) % n = n - 1 /\ (y + 1) % n = 0
    BY <1>1
  <2> QED BY <1>1, <2>1
<1>2. CASE x = 0 /\ y # n - 1
  <2>1. (x - 1) % n = n - 1 /\ (y + 1) % n = y + 1
    BY <1>2
  <2>2. n <= (n - 1) + (y + 1) /\ (n - 1) + (y + 1) < n + n
    BY <1>2
  <2>3. ((n - 1) + (y + 1)) % n = ((n - 1) + (y + 1)) - n
    BY <2>2
  <2>4. (x + y) % n = x + y
    BY <1>2
  <2> QED BY <1>2, <2>1, <2>3, <2>4
<1>3. CASE x # 0 /\ y = n - 1
  <2>1. (x - 1) % n = x - 1 /\ (y + 1) % n = 0
    BY <1>3
  <2>2. (x - 1) % n = x - 1
    BY <2>1
  <2>3. (x + y) % n = (x + y) - n
    <3>1. n <= x + y /\ x + y < n + n
      BY <1>3
    <3> QED BY <3>1
  <2> QED BY <1>3, <2>1, <2>3
<1>4. CASE x # 0 /\ y # n - 1
  <2>1. (x - 1) % n = x - 1 /\ (y + 1) % n = y + 1
    BY <1>4
  <2> QED BY <1>4, <2>1
<1> QED BY <1>1, <1>2, <1>3, <1>4

\* A cycle count, one step later.
LEMMA SpendOK ==
  ASSUME NEW tb \in 0 .. M - 1, NEW rem \in 0 .. TicksPerTb - 1
  PROVE  /\ tb * TicksPerTb + rem \in 0 .. M * TicksPerTb - 1
         /\ rem + 3 < TicksPerTb =>
              Spend(tb * TicksPerTb + rem) = tb * TicksPerTb + (rem + 3)
         /\ rem + 3 >= TicksPerTb =>
              Spend(tb * TicksPerTb + rem)
                = ((tb + 1) % M) * TicksPerTb + (rem + 3 - TicksPerTb)
         /\ Spend(tb * TicksPerTb + rem) \in 0 .. M * TicksPerTb - 1
<1> DEFINE T == TicksPerTb
           K == M * T
           t == tb * T + rem
<1>1. T \in Nat /\ T >= 4 /\ M \in Nat /\ M >= 2
  BY ClockSizes
<1>2. /\ K \in Nat /\ t \in Nat /\ tb * T \in Nat
      /\ (tb + 1) * T = (tb * T) + T
      /\ (M - 1) * T = K - T
  BY <1>1
<1>3. tb * T <= (M - 1) * T
  BY <1>1
<1>4. t \in 0 .. K - 1 /\ K \in Nat \ {0}
  <2>1. K > 0
    BY <1>1, <1>2
  <2> QED BY <1>1, <1>2, <1>3, <2>1
<1>5. Spend(t) = (t + 3) % K
  BY DEF Spend, CORE_CYCLES_PER_INSTR
<1>6. Spend(t) \in 0 .. K - 1
  <2> HIDE DEF K, t
  <2> QED BY <1>4, <1>5
<1>7. ASSUME rem + 3 < T PROVE Spend(t) = tb * T + (rem + 3)
  <2>1. 0 <= t + 3 /\ t + 3 < K
    BY <1>1, <1>2, <1>3, <1>7
  <2>2. (t + 3) % K = t + 3
    <3> HIDE DEF K, t
    <3> QED BY <1>4, <2>1
  <2>3. t + 3 = tb * T + (rem + 3)
    BY <1>2
  <2> QED BY <1>5, <2>2, <2>3
<1>8. ASSUME rem + 3 >= T PROVE Spend(t) = ((tb + 1) % M) * T + (rem + 3 - T)
  <2>1. CASE tb = M - 1
    <3>1. t + 3 = K + (rem + 3 - T) /\ t + 3 >= K /\ t + 3 < K + K
      <4>1. t + 3 = K + (rem + 3 - T)
        BY <1>1, <1>2, <2>1
      <4>2. K >= T
        BY <1>1, <1>2
      <4> QED BY <1>1, <1>2, <1>8, <4>1, <4>2
    <3>2. (t + 3) % K = t + 3 - K
      <4> HIDE DEF K, t
      <4> QED BY <1>4, <3>1
    <3>3. (tb + 1) % M = 0
      BY <1>1, <2>1
    <3>4. ((tb + 1) % M) * T = 0
      BY <3>3, <1>1
    <3>5. t + 3 - K = rem + 3 - T
      <4> HIDE DEF K, t
      <4> QED BY <1>1, <1>4, <3>1
    <3> QED BY <1>1, <1>5, <3>2, <3>4, <3>5
  <2>2. CASE tb # M - 1
    <3>1. 0 <= tb + 1 /\ tb + 1 < M
      BY <1>1, <2>2
    <3>2. (tb + 1) % M = tb + 1
      BY <1>1, <3>1
    <3>3. (tb + 1) * T <= (M - 1) * T
      BY <1>1, <3>1
    <3>4. t + 3 = (tb + 1) * T + (rem + 3 - T) /\ 0 <= t + 3 /\ t + 3 < K
      BY <1>1, <1>2, <1>8, <3>3
    <3>5. (t + 3) % K = t + 3
      <4> HIDE DEF K, t
      <4> QED BY <1>4, <3>4
    <3> QED BY <1>5, <3>2, <3>4, <3>5
  <2> QED BY <2>1, <2>2
<1> QED BY <1>4, <1>6, <1>7, <1>8

-----------------------------------------------------------------------------
(* The operators on the registers.                                         *)

\* What advance_time does: at most one tick of TB and DEC.
LEMMA AdvanceTimeOK ==
  ASSUME NEW c \in Cpu, NEW t, t = AdvanceTime(c)
  PROVE  /\ t \in Cpu
         /\ t.msr = c.msr /\ t.srr1 = c.srr1 /\ t.hid0 = c.hid0 /\ t.power = c.power
         /\ c.rem + 3 < TicksPerTb =>
              /\ t.rem = c.rem + 3 /\ t.tb = c.tb /\ t.dec = c.dec
              /\ t.dec_pending = c.dec_pending
         /\ c.rem + 3 >= TicksPerTb =>
              /\ t.rem = c.rem + 3 - TicksPerTb
              /\ t.tb = (c.tb + 1) % M /\ t.dec = (c.dec - 1) % M
              /\ t.dec_pending = (c.dec_pending \/ c.dec = 0)
<1> DEFINE T == TicksPerTb
<1>1. T \in Nat /\ T >= 4 /\ M \in Nat /\ M >= 2 /\ Half \in Nat /\ Half >= 1 /\ M = Half + Half
  BY ClockSizes
<1>2. /\ c.msr \in Msr /\ c.srr1 \in Msr /\ c.hid0 \in SUBSET Modes
      /\ c.power \in {"RUN"} \cup Modes
      /\ c.tb \in 0 .. M - 1 /\ c.rem \in 0 .. T - 1 /\ c.dec \in 0 .. M - 1
      /\ c.dec_pending \in BOOLEAN
  BY DEF Cpu
<1>3. CASE c.rem + 3 < T
  <2>1. t = [c EXCEPT !.rem = c.rem + 3]
    BY <1>3 DEF AdvanceTime, CORE_CYCLES_PER_INSTR
  <2>2. c.rem + 3 \in 0 .. T - 1
    BY <1>1, <1>2, <1>3
  <2> QED BY <1>1, <1>2, <1>3, <2>1, <2>2 DEF Cpu
<1>4. CASE c.rem + 3 >= T
  <2> DEFINE dec == (c.dec - 1) % M
             tb == (c.tb + 1) % M
             pend == c.dec_pending \/ (~Negative(c.dec) /\ Negative(dec))
             rem == c.rem + 3 - T
  <2>1. (c.rem + 3) \div T = 1
    BY <1>1, <1>2, <1>4
  <2>2. ~(c.rem + 3 < T) /\ 1 * T = T
    BY <1>1, <1>2, <1>4
  <2>3. t = [c EXCEPT !.rem = rem, !.tb = tb, !.dec = dec, !.dec_pending = pend]
    <3> DEFINE d == (c.rem + 3) \div T
    <3>1. t = [c EXCEPT !.rem = (c.rem + 3) - d * T, !.tb = (c.tb + d) % M,
                        !.dec = (c.dec - d) % M,
                        !.dec_pending = c.dec_pending \/
                           (~Negative(c.dec) /\ Negative((c.dec - d) % M))]
      BY <2>2, Zenon DEF AdvanceTime, CORE_CYCLES_PER_INSTR
    <3>2. d = 1
      BY <2>1
    <3>3. (c.rem + 3) - 1 * T = rem
      <4>1. c.rem \in Int /\ T \in Int
        BY <1>1, <1>2
      <4> QED BY <4>1
    <3> HIDE DEF d
    <3> QED BY <3>1, <3>2, <3>3, Zenon
  <2>4. rem \in 0 .. T - 1 /\ tb \in 0 .. M - 1 /\ dec \in 0 .. M - 1 /\ pend \in BOOLEAN
    <3>1. rem \in 0 .. T - 1
      BY <1>1, <1>2, <1>4
    <3>2. tb \in 0 .. M - 1 /\ dec \in 0 .. M - 1
      BY <1>1, <1>2
    <3>3. pend \in BOOLEAN
      BY <1>2 DEF Negative
    <3> QED BY <3>1, <3>2, <3>3
  <2>5. (~Negative(c.dec) /\ Negative(dec)) <=> c.dec = 0
    <3>1. CASE c.dec = 0
      <4>1. dec = M - 1
        BY <1>1, <3>1
      <4> QED BY <1>1, <3>1, <4>1 DEF Negative
    <3>2. CASE c.dec # 0
      <4>1. dec = c.dec - 1
        BY <1>1, <1>2, <3>2
      <4> QED BY <1>1, <1>2, <3>2, <4>1 DEF Negative
    <3> QED BY <3>1, <3>2
  <2>6. pend = (c.dec_pending \/ c.dec = 0)
    BY <1>2, <2>5 DEF Negative
  <2> HIDE DEF dec, tb, pend, rem
  <2>7. /\ t \in Cpu
        /\ t.msr = c.msr /\ t.srr1 = c.srr1 /\ t.hid0 = c.hid0 /\ t.power = c.power
        /\ t.rem = rem /\ t.tb = tb /\ t.dec = dec /\ t.dec_pending = pend
    BY <2>3, <2>4 DEF Cpu
  <2> QED BY <1>1, <1>2, <1>4, <2>2, <2>6, <2>7 DEF dec, tb, rem
<1> QED BY <1>1, <1>2, <1>3, <1>4

LEMMA FireOK ==
  ASSUME NEW c \in Cpu
  PROVE  /\ Fire(c) \in Cpu
         /\ Fire(c).msr = NoMsr /\ Fire(c).srr1 = c.msr
         /\ ~Fire(c).msr.EE /\ ~Fire(c).msr.POW
         /\ Fire(c).hid0 = c.hid0 /\ Fire(c).power = c.power
         /\ Fire(c).tb = c.tb /\ Fire(c).rem = c.rem /\ Fire(c).dec = c.dec
         /\ Fire(c).dec_pending = c.dec_pending
  BY DEF Fire, Cpu, NoMsr, Msr

LEMMA CheckPowerStateOK ==
  ASSUME NEW c \in Cpu, NEW d, d = CheckPowerState(c)
  PROVE  /\ d \in Cpu
         /\ d.msr = c.msr /\ d.srr1 = c.srr1 /\ d.hid0 = c.hid0
         /\ d.tb = c.tb /\ d.rem = c.rem /\ d.dec = c.dec
         /\ d.dec_pending = c.dec_pending
         /\ d.power # c.power => c.msr.POW
<1>1. CASE c.msr.POW /\ \E m \in Modes : c.hid0 = {m}
  <2> DEFINE mode == CHOOSE m \in Modes : c.hid0 = {m}
  <2>1. mode \in Modes
    BY <1>1
  <2>2. d = [c EXCEPT !.power = mode]
    BY <1>1 DEF CheckPowerState
  <2> HIDE DEF mode
  <2> QED BY <1>1, <2>1, <2>2 DEF Cpu
<1>2. CASE ~(c.msr.POW /\ \E m \in Modes : c.hid0 = {m})
  <2>1. d = c
    BY <1>2 DEF CheckPowerState
  <2> QED BY <2>1
<1> QED BY <1>1, <1>2

-----------------------------------------------------------------------------
(* The inductive invariant.                                                *)

\* Only a running processor is between the two reads of the line.
RunsInterrupts == phase = "interrupts" => cpu.power = "RUN"

\* Interrupts are disabled while SRR1 holds a context that is needed.
MaskedWhileHeld == held # {} => ~cpu.msr.EE

IInv ==
  /\ TypeOK
  /\ SleepsOnRequest
  /\ ContextKept
  /\ MaskedWhileHeld
  /\ DecrementerExact
  /\ ClockExact
  /\ RunsInterrupts

(***************************************************************************)
(* The part of a step after an instruction keeps the invariant if the      *)
(* instruction leaves registers c and history that fit together.           *)
(***************************************************************************)
LEMMA AfterKeepsIInv ==
  ASSUME IInv, NEW c \in Cpu, After(c), c.power = "RUN",
         c.dec_pending = cpu.dec_pending,
         asked' \in BOOLEAN, held' \in SUBSET Msr,
         c.msr.POW => asked',
         held' \subseteq {c.srr1},
         held' # {} => ~c.msr.EE,
         base' = (c.dec + c.tb) % M,
         cycles' = Spend(c.tb * TicksPerTb + c.rem)
  PROVE  IInv'
<1> DEFINE t == AdvanceTime(c)
           tick == c.rem + 3 >= TicksPerTb
<1>1. /\ phase = "step" /\ cpu.power = "RUN"
      /\ \/ cpu' = t /\ phase' = "interrupts"
         \/ cpu' = CheckPowerState(t) /\ phase' = "step" /\ ~t.dec_pending
      /\ due' = (due \/ (tick /\ c.dec = 0))
      /\ line' = line
  BY DEF After, CORE_CYCLES_PER_INSTR
<1>2. /\ t \in Cpu
      /\ t.msr = c.msr /\ t.srr1 = c.srr1 /\ t.power = "RUN"
      /\ ~tick => /\ t.rem = c.rem + 3 /\ t.tb = c.tb /\ t.dec = c.dec
                  /\ t.dec_pending = c.dec_pending
      /\ tick => /\ t.rem = c.rem + 3 - TicksPerTb
                 /\ t.tb = (c.tb + 1) % M /\ t.dec = (c.dec - 1) % M
                 /\ t.dec_pending = (c.dec_pending \/ c.dec = 0)
  <2>1. c.rem \in Nat /\ TicksPerTb \in Nat
    BY ClockSizes DEF Cpu
  <2> QED BY <2>1, AdvanceTimeOK
<1> HIDE DEF t
<1>3. /\ cpu' \in Cpu
      /\ cpu'.msr = c.msr /\ cpu'.srr1 = c.srr1
      /\ cpu'.power # "RUN" => c.msr.POW
      /\ cpu'.tb = t.tb /\ cpu'.rem = t.rem /\ cpu'.dec = t.dec
      /\ cpu'.dec_pending = t.dec_pending
      /\ phase' \in {"step", "interrupts"}
      /\ phase' = "step" => ~t.dec_pending
  BY <1>1, <1>2, CheckPowerStateOK
<1>4. c.tb \in 0 .. M - 1 /\ c.rem \in 0 .. TicksPerTb - 1 /\ c.dec \in 0 .. M - 1
  BY DEF Cpu
<1>5. M \in Nat \ {0}
  BY ClockSizes
<1>6. TypeOK'
  <2>1. base' \in 0 .. M - 1
    BY <1>4, <1>5
  <2>2. cycles' \in 0 .. M * TicksPerTb - 1
    BY <1>4, SpendOK
  <2>3. line' \in BOOLEAN /\ due' \in BOOLEAN
    BY <1>1 DEF IInv, TypeOK
  <2> QED BY <1>3, <2>1, <2>2, <2>3 DEF TypeOK
<1>7. SleepsOnRequest' /\ ContextKept' /\ MaskedWhileHeld'
  BY <1>3 DEF SleepsOnRequest, ContextKept, MaskedWhileHeld
<1>8. DecrementerExact'
  <2>1. c.dec_pending = due
    BY DEF IInv, DecrementerExact
  <2>2. due \in BOOLEAN
    BY DEF IInv, TypeOK
  <2>3. t.dec_pending = (due \/ (tick /\ c.dec = 0))
    BY <1>2, <2>1, <2>2
  <2> QED BY <1>1, <1>3, <2>3 DEF DecrementerExact
<1>9. ClockExact'
  <2>1. t.tb * TicksPerTb + t.rem = cycles'
    <3>1. CASE tick
      BY <1>2, <1>4, <3>1, SpendOK
    <3>2. CASE ~tick
      <4>1. c.rem + 3 < TicksPerTb
        BY <1>4, <3>2, ClockSizes
      <4> QED BY <1>2, <1>4, <3>2, <4>1, SpendOK
    <3> QED BY <3>1, <3>2
  <2>2. (t.dec + t.tb) % M = base'
    <3>1. CASE tick
      BY <1>2, <1>4, <1>5, <3>1, ModAdd
    <3>2. CASE ~tick
      BY <1>2, <3>2
    <3> QED BY <3>1, <3>2
  <2> QED BY <1>3, <2>1, <2>2 DEF ClockExact
<1>11. RunsInterrupts'
  BY <1>1, <1>2 DEF RunsInterrupts
<1> QED BY <1>6, <1>7, <1>8, <1>9, <1>11 DEF IInv

\* What the invariant says of the registers.
LEMMA CpuFacts ==
  ASSUME IInv
  PROVE  /\ cpu \in Cpu /\ cpu.msr \in Msr /\ cpu.srr1 \in Msr
         /\ cpu.msr.EE \in BOOLEAN /\ cpu.dec_pending \in BOOLEAN
         /\ asked \in BOOLEAN /\ held \in SUBSET Msr /\ due \in BOOLEAN
         /\ cycles = cpu.tb * TicksPerTb + cpu.rem
         /\ base = (cpu.dec + cpu.tb) % M
         /\ cpu.tb \in 0 .. M - 1 /\ cpu.dec \in 0 .. M - 1
         /\ cpu.rem \in 0 .. TicksPerTb - 1
         /\ cpu.dec_pending = due
         /\ cpu.msr.POW => asked
         /\ held \subseteq {cpu.srr1} /\ (held # {} => ~cpu.msr.EE)
  BY DEF IInv, TypeOK, Cpu, Msr, ClockExact, DecrementerExact, SleepsOnRequest,
         ContextKept, MaskedWhileHeld

(***************************************************************************)
(* An instruction that leaves the clocks alone, and the history that goes  *)
(* with the MSR it leaves.                                                 *)
(***************************************************************************)
LEMMA ExecuteKeepsIInv == IInv /\ Execute => IInv'
<1> SUFFICES ASSUME IInv, Execute PROVE IInv'
  OBVIOUS
<1>1. /\ cpu \in Cpu /\ cpu.srr1 \in Msr
      /\ asked \in BOOLEAN /\ held \in SUBSET Msr
      /\ cycles = cpu.tb * TicksPerTb + cpu.rem
      /\ base = (cpu.dec + cpu.tb) % M
      /\ cpu.msr.POW => asked
      /\ held \subseteq {cpu.srr1} /\ (held # {} => ~cpu.msr.EE)
  BY CpuFacts
<1>2. ASSUME NEW c \in Cpu, After(c) PROVE cpu.power = "RUN"
  BY <1>2 DEF After
<1>3. CASE Plain
  <2>1. After(cpu) /\ cpu.power = "RUN"
    BY <1>1, <1>2, <1>3 DEF Plain
  <2> QED BY <1>1, <1>3, <2>1, AfterKeepsIInv DEF Plain
<1>4. ASSUME NEW v \in MsrValues, Mtmsr(v) PROVE IInv'
  <2> DEFINE c == [cpu EXCEPT !.msr = v]
  <2>1. /\ c \in Cpu /\ c.power = cpu.power /\ c.msr = v /\ c.dec_pending = cpu.dec_pending
        /\ c.srr1 = cpu.srr1 /\ c.tb = cpu.tb /\ c.rem = cpu.rem /\ c.dec = cpu.dec
        /\ v.POW \in BOOLEAN /\ v.EE \in BOOLEAN
    BY <1>1, RegisterAssumption DEF Cpu, Msr
  <2>2. After(c) /\ asked' = v.POW /\ held' = (IF v.EE THEN {} ELSE held) /\ base' = base
        /\ cycles' = Spend(cycles)
    BY <1>4 DEF Mtmsr, PutsMsr
  <2> HIDE DEF c
  <2> QED BY <1>1, <1>2, <2>1, <2>2, AfterKeepsIInv
<1>5. ASSUME NEW v \in Hid0Values, MtsprHid0(v) PROVE IInv'
  <2> DEFINE c == [cpu EXCEPT !.hid0 = v]
  <2>1. /\ c \in Cpu /\ c.power = cpu.power /\ c.msr = cpu.msr
        /\ c.dec_pending = cpu.dec_pending
        /\ c.srr1 = cpu.srr1 /\ c.tb = cpu.tb /\ c.rem = cpu.rem /\ c.dec = cpu.dec
    BY <1>1, RegisterAssumption DEF Cpu
  <2>2. After(c) /\ asked' = asked /\ held' = held /\ base' = base
        /\ cycles' = Spend(cycles)
    BY <1>5 DEF MtsprHid0
  <2> HIDE DEF c
  <2> QED BY <1>1, <1>2, <2>1, <2>2, AfterKeepsIInv
<1>6. ASSUME NEW v \in MsrValues, MtsprSrr1(v) PROVE IInv'
  <2> DEFINE c == [cpu EXCEPT !.srr1 = v]
  <2>1. /\ c \in Cpu /\ c.power = cpu.power /\ c.msr = cpu.msr
        /\ c.dec_pending = cpu.dec_pending
        /\ c.srr1 = v /\ v \in Msr /\ c.tb = cpu.tb /\ c.rem = cpu.rem /\ c.dec = cpu.dec
    BY <1>1, RegisterAssumption DEF Cpu
  <2>2. After(c) /\ asked' = asked /\ held' = (IF cpu.msr.EE THEN {} ELSE {v}) /\ base' = base
        /\ cycles' = Spend(cycles)
    BY <1>6 DEF MtsprSrr1, PutsSrr1
  <2> HIDE DEF c
  <2> QED BY <1>1, <1>2, <2>1, <2>2, AfterKeepsIInv
<1>7. ASSUME NEW v \in TimeValues, MtsprDec(v) PROVE IInv'
  <2> DEFINE c == [cpu EXCEPT !.dec = v]
  <2>1. /\ c \in Cpu /\ c.power = cpu.power /\ c.msr = cpu.msr
        /\ c.dec_pending = cpu.dec_pending
        /\ c.srr1 = cpu.srr1 /\ c.tb = cpu.tb /\ c.rem = cpu.rem /\ c.dec = v
    BY <1>1, TimeAssumption DEF Cpu
  <2>2. After(c) /\ asked' = asked /\ held' = held /\ base' = (v + cpu.tb) % M
        /\ cycles' = Spend(cycles)
    BY <1>7 DEF MtsprDec
  <2> HIDE DEF c
  <2> QED BY <1>1, <1>2, <2>1, <2>2, AfterKeepsIInv
<1>8. ASSUME NEW v \in TimeValues, MtsprTbl(v) PROVE IInv'
  <2> DEFINE c == [cpu EXCEPT !.tb = v]
  <2>1. /\ c \in Cpu /\ c.power = cpu.power /\ c.msr = cpu.msr
        /\ c.dec_pending = cpu.dec_pending
        /\ c.srr1 = cpu.srr1 /\ c.tb = v /\ c.rem = cpu.rem /\ c.dec = cpu.dec
    BY <1>1, TimeAssumption DEF Cpu
  <2>2. After(c) /\ asked' = asked /\ held' = held /\ base' = (cpu.dec + v) % M
        /\ cycles' = Spend(v * TicksPerTb + cpu.rem)
    BY <1>8 DEF MtsprTbl
  <2> HIDE DEF c
  <2> QED BY <1>1, <1>2, <2>1, <2>2, AfterKeepsIInv
<1>9. CASE Rfi
  <2> DEFINE c == [cpu EXCEPT !.msr = [cpu.srr1 EXCEPT !.POW = FALSE]]
  <2>1. /\ c \in Cpu /\ c.power = cpu.power /\ ~c.msr.POW
        /\ c.dec_pending = cpu.dec_pending
        /\ c.tb = cpu.tb /\ c.rem = cpu.rem /\ c.dec = cpu.dec
    BY <1>1 DEF Cpu, Msr
  <2>2. After(c) /\ asked' = FALSE /\ held' = {} /\ base' = base
        /\ cycles' = Spend(cycles)
    BY <1>9 DEF Rfi
  <2> HIDE DEF c
  <2> QED BY <1>1, <1>2, <2>1, <2>2, AfterKeepsIInv
<1>10. CASE Fault
  <2>1. After(Fire(cpu)) /\ asked' = FALSE /\ held' = {cpu.msr} /\ base' = base
        /\ cycles' = Spend(cycles)
    BY <1>10 DEF Fault, Raises
  <2> DEFINE c == Fire(cpu)
  <2>2. /\ c \in Cpu /\ c.power = cpu.power /\ ~c.msr.POW /\ ~c.msr.EE
        /\ c.dec_pending = cpu.dec_pending
        /\ c.srr1 = cpu.msr /\ cpu.msr \in Msr /\ c.tb = cpu.tb /\ c.rem = cpu.rem /\ c.dec = cpu.dec
    BY <1>1, FireOK DEF Cpu
  <2> HIDE DEF c
  <2> QED BY <1>1, <1>2, <2>1, <2>2, AfterKeepsIInv DEF c
<1>11. CASE FetchFault
  <2>1. /\ cpu' \in Cpu /\ cpu'.power = "RUN" /\ ~cpu'.msr.POW /\ ~cpu'.msr.EE
        /\ cpu'.dec_pending = cpu.dec_pending
        /\ cpu'.srr1 = cpu.msr /\ cpu.msr \in Msr /\ cpu'.tb = cpu.tb /\ cpu'.rem = cpu.rem /\ cpu'.dec = cpu.dec
        /\ asked' = FALSE /\ held' = {cpu.msr}
        /\ UNCHANGED <<line, phase, due, base, cycles>>
    BY <1>1, <1>11, FireOK DEF FetchFault, Raises, Cpu
  <2> QED BY <2>1 DEF IInv, TypeOK, SleepsOnRequest, ContextKept, MaskedWhileHeld,
                      DecrementerExact, ClockExact, RunsInterrupts
<1> QED BY <1>3, <1>4, <1>5, <1>6, <1>7, <1>8, <1>9, <1>10, <1>11 DEF Execute

\* The end of a step that found the line or the decrementer pending.
LEMMA TakeInterruptKeepsIInv == IInv /\ TakeInterrupt => IInv'
<1> SUFFICES ASSUME IInv, TakeInterrupt PROVE IInv'
  OBVIOUS
<1> DEFINE ext == line /\ cpu.msr.EE
           dec == ~ext /\ cpu.dec_pending /\ cpu.msr.EE
           c == IF ext THEN Fire(cpu)
                ELSE IF dec THEN [Fire(cpu) EXCEPT !.dec_pending = FALSE]
                ELSE cpu
<1>1. /\ phase' = "step"
      /\ cpu' = CheckPowerState(c)
      /\ due' = (due /\ ~dec)
      /\ asked' = (asked /\ ~(ext \/ dec))
      /\ Interrupts(ext \/ dec)
      /\ UNCHANGED <<line, base, cycles>>
  BY DEF TakeInterrupt
<1>2. /\ cpu \in Cpu /\ cpu.msr.EE \in BOOLEAN /\ cpu.dec_pending \in BOOLEAN
      /\ asked \in BOOLEAN /\ held \in SUBSET Msr /\ due \in BOOLEAN /\ line \in BOOLEAN
      /\ cpu.dec_pending = due
      /\ cpu.msr.POW => asked
      /\ cpu.power # "RUN" => asked
      /\ held \subseteq {cpu.srr1} /\ (held # {} => ~cpu.msr.EE)
  BY CpuFacts DEF IInv, TypeOK, SleepsOnRequest
<1>4. /\ c \in Cpu /\ c.power = cpu.power
      /\ c.tb = cpu.tb /\ c.rem = cpu.rem /\ c.dec = cpu.dec
      /\ ext \/ dec => ~c.msr.EE /\ ~c.msr.POW /\ c.srr1 = cpu.msr
      /\ ~(ext \/ dec) => c.msr = cpu.msr /\ c.srr1 = cpu.srr1
      /\ c.dec_pending = (cpu.dec_pending /\ ~dec)
  <2>1. CASE ext
    BY <1>2, <2>1, FireOK
  <2>2. CASE dec
    <3> DEFINE f == Fire(cpu)
    <3>1. f \in Cpu /\ f.power = cpu.power /\ f.tb = cpu.tb /\ f.rem = cpu.rem
          /\ f.dec = cpu.dec /\ ~f.msr.EE /\ ~f.msr.POW /\ f.srr1 = cpu.msr
      BY <1>2, FireOK
    <3>2. c = [f EXCEPT !.dec_pending = FALSE]
      BY <2>2
    <3> HIDE DEF f, c
    <3> QED BY <2>2, <3>1, <3>2 DEF Cpu
  <2>3. CASE ~ext /\ ~dec
    BY <1>2, <2>3
  <2> QED BY <2>1, <2>2, <2>3
<1> HIDE DEF c
<1>5. /\ cpu' \in Cpu /\ cpu'.msr = c.msr /\ cpu'.srr1 = c.srr1
      /\ cpu'.tb = c.tb /\ cpu'.rem = c.rem /\ cpu'.dec = c.dec
      /\ cpu'.dec_pending = c.dec_pending
      /\ cpu'.power # c.power => c.msr.POW
  BY <1>1, <1>4, CheckPowerStateOK
<1>6. TypeOK'
  <2>1. held' \in SUBSET Msr
    BY <1>1, <1>2 DEF Interrupts, Cpu
  <2> QED BY <1>1, <1>2, <1>5, <2>1 DEF IInv, TypeOK
<1>7. ContextKept' /\ MaskedWhileHeld'
  BY <1>1, <1>2, <1>4, <1>5 DEF Interrupts, ContextKept, MaskedWhileHeld
<1>8. DecrementerExact'
  BY <1>1, <1>2, <1>4, <1>5 DEF DecrementerExact
<1>9. ClockExact'
  BY <1>1, <1>4, <1>5 DEF IInv, ClockExact
<1>11. cpu.power = "RUN"
  BY DEF IInv, RunsInterrupts, TakeInterrupt
<1>12. SleepsOnRequest'
  BY <1>1, <1>2, <1>4, <1>5, <1>11 DEF SleepsOnRequest
<1>13. RunsInterrupts'
  BY <1>1 DEF RunsInterrupts
<1> QED BY <1>6, <1>7, <1>8, <1>9, <1>12, <1>13 DEF IInv

\* A step in a low-power mode.
LEMMA LowPowerStepKeepsIInv == IInv /\ LowPowerStep => IInv'
<1> SUFFICES ASSUME IInv, LowPowerStep PROVE IInv'
  OBVIOUS
<1> DEFINE t == LowPowerTime(cpu)
           tick == cpu.power # "SLEEP" /\ cpu.rem + 3 >= TicksPerTb
           ext == WakesOnLine(t, line)
           dec == ~ext /\ WakesOnDec(t)
           awake == [Fire(t) EXCEPT !.power = "RUN"]
<1>1. /\ phase = "step" /\ cpu.power # "RUN" /\ phase' = phase
      /\ cpu' = IF ext THEN awake
                ELSE IF dec THEN [awake EXCEPT !.dec_pending = FALSE]
                ELSE t
      /\ due' = (~dec /\ (due \/ (t.tb # cpu.tb /\ cpu.dec = 0)))
      /\ asked' = (asked /\ ~(ext \/ dec))
      /\ Interrupts(ext \/ dec)
      /\ cycles' = IF cpu.power = "SLEEP" THEN cycles ELSE Spend(cycles)
      /\ UNCHANGED <<line, base>>
  BY DEF LowPowerStep
<1>2. /\ cpu \in Cpu /\ cpu.msr.EE \in BOOLEAN /\ cpu.dec_pending \in BOOLEAN
      /\ asked \in BOOLEAN /\ held \in SUBSET Msr /\ due \in BOOLEAN /\ line \in BOOLEAN
      /\ cpu.dec_pending = due
      /\ cpu.msr.POW => asked
      /\ cpu.power # "RUN" => asked
      /\ held \subseteq {cpu.srr1} /\ (held # {} => ~cpu.msr.EE)
      /\ cpu.tb \in 0 .. M - 1 /\ cpu.dec \in 0 .. M - 1
      /\ cpu.rem \in 0 .. TicksPerTb - 1
      /\ cycles = cpu.tb * TicksPerTb + cpu.rem
      /\ base = (cpu.dec + cpu.tb) % M
  BY CpuFacts DEF IInv, TypeOK, SleepsOnRequest
<1>3. M \in Nat \ {0} /\ M >= 2 /\ TicksPerTb \in Nat
  BY ClockSizes
<1>4. /\ t \in Cpu /\ t.msr = cpu.msr /\ t.srr1 = cpu.srr1 /\ t.power = cpu.power
      /\ ~tick => t.tb = cpu.tb /\ t.dec = cpu.dec /\ t.dec_pending = cpu.dec_pending
      /\ cpu.power = "SLEEP" => t.rem = cpu.rem
      /\ cpu.power # "SLEEP" /\ ~tick => t.rem = cpu.rem + 3
      /\ tick => /\ t.rem = cpu.rem + 3 - TicksPerTb
                 /\ t.tb = (cpu.tb + 1) % M /\ t.dec = (cpu.dec - 1) % M
                 /\ t.dec_pending = (cpu.dec_pending \/ cpu.dec = 0)
  <2>1. CASE cpu.power = "SLEEP"
    BY <1>2, <2>1 DEF LowPowerTime
  <2>2. CASE cpu.power # "SLEEP"
    <3>1. t = AdvanceTime(cpu)
      BY <2>2 DEF LowPowerTime
    <3>2. ~tick => cpu.rem + 3 < TicksPerTb
      BY <1>2, <1>3, <2>2
    <3> QED BY <1>2, <2>2, <3>1, <3>2, AdvanceTimeOK
  <2> QED BY <2>1, <2>2
<1> HIDE DEF t
<1>5. t.tb # cpu.tb <=> tick
  <2>1. (cpu.tb + 1) % M # cpu.tb
    BY <1>2, <1>3
  <2> QED BY <1>4, <2>1
<1>6. /\ ext = (line /\ cpu.msr.EE)
      /\ dec => t.dec_pending /\ cpu.msr.EE /\ ~ext
      /\ ~ext /\ ~dec /\ t.dec_pending => ~cpu.msr.EE \/ cpu.power = "SLEEP"
  BY <1>4 DEF WakesOnLine, WakesOnDec
<1>7. /\ cpu' \in Cpu
      /\ cpu'.tb = t.tb /\ cpu'.rem = t.rem /\ cpu'.dec = t.dec
      /\ cpu'.dec_pending = (t.dec_pending /\ ~dec)
      /\ ext \/ dec => /\ ~cpu'.msr.EE /\ ~cpu'.msr.POW /\ cpu'.power = "RUN"
                       /\ cpu'.srr1 = cpu.msr
      /\ ~(ext \/ dec) => cpu'.msr = cpu.msr /\ cpu'.srr1 = cpu.srr1
  <2> DEFINE f == Fire(t)
  <2>1. /\ f \in Cpu /\ f.tb = t.tb /\ f.rem = t.rem /\ f.dec = t.dec
        /\ ~f.msr.EE /\ ~f.msr.POW /\ f.srr1 = cpu.msr /\ f.dec_pending = t.dec_pending
    BY <1>4, FireOK
  <2>2. t.dec_pending \in BOOLEAN
    BY <1>4 DEF Cpu
  <2>3. CASE ext
    <3>1. cpu' = [f EXCEPT !.power = "RUN"]
      BY <1>1, <2>3
    <3> HIDE DEF f
    <3> QED BY <1>6, <2>1, <2>2, <2>3, <3>1 DEF Cpu
  <2>4. CASE dec
    <3>1. cpu' = [[f EXCEPT !.power = "RUN"] EXCEPT !.dec_pending = FALSE]
      BY <1>1, <2>4
    <3> HIDE DEF f
    <3> QED BY <2>1, <2>4, <3>1 DEF Cpu
  <2>5. CASE ~ext /\ ~dec
    BY <1>1, <1>4, <2>2, <2>5
  <2> QED BY <2>3, <2>4, <2>5
<1> HIDE DEF ext, dec, awake
<1>8. ext \in BOOLEAN /\ dec \in BOOLEAN
  BY DEF ext, dec, WakesOnLine
<1>9. TypeOK'
  <2>1. cycles' \in 0 .. M * TicksPerTb - 1
    <3>1. CASE cpu.power = "SLEEP"
      BY <1>1, <3>1 DEF IInv, TypeOK
    <3>2. CASE cpu.power # "SLEEP"
      BY <1>1, <1>2, <3>2, SpendOK
    <3> QED BY <3>1, <3>2
  <2>2. held' \in SUBSET Msr
    BY <1>1, <1>2 DEF Interrupts, Cpu
  <2> QED BY <1>1, <1>2, <1>7, <1>8, <2>1, <2>2 DEF IInv, TypeOK
<1>10. SleepsOnRequest'
  BY <1>1, <1>2, <1>7, <1>8 DEF SleepsOnRequest
<1>15. ContextKept' /\ MaskedWhileHeld'
  BY <1>1, <1>2, <1>6, <1>7, <1>8 DEF Interrupts, ContextKept, MaskedWhileHeld
<1>11. DecrementerExact'
  <2>1. t.dec_pending = (due \/ (t.tb # cpu.tb /\ cpu.dec = 0))
    <3>1. CASE tick
      BY <1>2, <1>4, <1>5, <3>1
    <3>2. CASE ~tick
      BY <1>2, <1>4, <3>2
    <3> QED BY <3>1, <3>2
  <2>2. CASE dec
    <3>1. cpu'.dec_pending = FALSE /\ due' = FALSE
      BY <1>1, <1>7, <2>2
    <3> QED BY <3>1 DEF DecrementerExact
  <2>3. CASE ~dec
    <3>1. cpu'.dec_pending = t.dec_pending
      <4>1. t.dec_pending \in BOOLEAN
        BY <1>4 DEF Cpu
      <4> QED BY <1>7, <2>3, <4>1
    <3>2. due' = (due \/ (t.tb # cpu.tb /\ cpu.dec = 0))
      BY <1>1, <2>3
    <3> QED BY <2>1, <3>1, <3>2 DEF DecrementerExact
  <2> QED BY <1>8, <2>2, <2>3
<1>12. ClockExact'
  <2>1. t.tb * TicksPerTb + t.rem = cycles'
    <3>1. CASE tick
      BY <1>1, <1>2, <1>4, <3>1, SpendOK
    <3>2. CASE cpu.power # "SLEEP" /\ ~tick
      <4>1. cpu.rem + 3 < TicksPerTb
        BY <1>2, <1>3, <3>2
      <4> QED BY <1>1, <1>2, <1>4, <3>2, <4>1, SpendOK
    <3>3. CASE cpu.power = "SLEEP"
      BY <1>1, <1>2, <1>4, <3>3
    <3> QED BY <3>1, <3>2, <3>3
  <2>2. (t.dec + t.tb) % M = base'
    <3>1. CASE tick
      BY <1>1, <1>2, <1>3, <1>4, <3>1, ModAdd
    <3>2. CASE ~tick
      BY <1>1, <1>2, <1>4, <3>2
    <3> QED BY <3>1, <3>2
  <2> QED BY <1>7, <2>1, <2>2 DEF ClockExact
<1>14. RunsInterrupts'
  BY <1>1 DEF RunsInterrupts
<1> QED BY <1>9, <1>10, <1>11, <1>12, <1>14, <1>15 DEF IInv

\* The calls of the embedder between two steps.
LEMMA EmbedderKeepsIInv == IInv /\ Setters /\ Embedder => IInv'
<1> SUFFICES ASSUME IInv, Setters, Embedder PROVE IInv'
  OBVIOUS
<1> USE DEF IInv, TypeOK, SleepsOnRequest, ContextKept, MaskedWhileHeld, DecrementerExact,
            ClockExact, RunsInterrupts
<1>1. cpu.msr \in Msr /\ cpu.power \in {"RUN"} \cup Modes
      /\ asked \in BOOLEAN /\ held \in SUBSET Msr
  BY DEF Cpu
<1>2. M \in Nat /\ M >= 2 /\ TicksPerTb \in Nat /\ TicksPerTb >= 4
  BY ClockSizes
<1>3. CASE Reset
  <2> DEFINE c == [msr |-> NoMsr, srr1 |-> NoMsr, hid0 |-> {}, power |-> "RUN",
                   tb |-> 0, rem |-> 0, dec |-> 0, dec_pending |-> FALSE]
  <2>1. /\ c \in Cpu /\ ~c.msr.EE /\ ~c.msr.POW /\ c.power = "RUN"
        /\ c.tb = 0 /\ c.rem = 0 /\ c.dec = 0 /\ c.dec_pending = FALSE
    BY <1>2 DEF Cpu, NoMsr, Msr
  <2>2. /\ cpu' = c /\ line' = FALSE /\ asked' = FALSE /\ held' = {} /\ due' = FALSE
        /\ base' = 0 /\ cycles' = 0 /\ phase' = phase /\ phase = "step"
    BY <1>3 DEF Reset
  <2>3. 0 * TicksPerTb + 0 = 0 /\ (0 + 0) % M = 0
    BY <1>2
  <2>4. 0 \in 0 .. M - 1 /\ 0 \in 0 .. M * TicksPerTb - 1
    <3>1. M * TicksPerTb >= 1
      <4>1. 1 * TicksPerTb <= M * TicksPerTb
        BY <1>2
      <4> QED BY <1>2, <4>1
    <3>2. M * TicksPerTb \in Nat
      BY <1>2
    <3> QED BY <1>2, <3>1, <3>2
  <2> HIDE DEF c
  <2> QED BY <2>1, <2>2, <2>3, <2>4
<1>4. ASSUME NEW v \in MsrValues, SetMsr(v) PROVE IInv'
  <2> DEFINE c == [cpu EXCEPT !.msr = v]
  <2>1. /\ c \in Cpu /\ c.power = cpu.power /\ c.msr = v /\ c.dec_pending = cpu.dec_pending
        /\ c.srr1 = cpu.srr1 /\ c.tb = cpu.tb /\ c.rem = cpu.rem /\ c.dec = cpu.dec
        /\ v.POW \in BOOLEAN /\ v.EE \in BOOLEAN
    BY RegisterAssumption DEF Cpu, Msr
  <2>2. cpu' = c /\ asked' = (v.POW \/ cpu.power # "RUN")
        /\ held' = (IF v.EE THEN {} ELSE held)
        /\ UNCHANGED <<line, phase, due, base, cycles>> /\ phase = "step"
    BY <1>4 DEF SetMsr, PutsMsr
  <2> HIDE DEF c
  <2> QED BY <1>1, <2>1, <2>2
<1>5. ASSUME NEW v \in Hid0Values, SetHid0(v) PROVE IInv'
  <2> DEFINE c == [cpu EXCEPT !.hid0 = v]
  <2>1. /\ c \in Cpu /\ c.power = cpu.power /\ c.msr = cpu.msr
        /\ c.dec_pending = cpu.dec_pending
        /\ c.srr1 = cpu.srr1 /\ c.tb = cpu.tb /\ c.rem = cpu.rem /\ c.dec = cpu.dec
    BY RegisterAssumption DEF Cpu
  <2>2. cpu' = c /\ UNCHANGED <<line, phase, history>>
    BY <1>5 DEF SetHid0
  <2> HIDE DEF c
  <2> QED BY <2>1, <2>2 DEF history
<1>6. ASSUME NEW v \in MsrValues, SetSrr1(v) PROVE IInv'
  <2> DEFINE c == [cpu EXCEPT !.srr1 = v]
  <2>1. /\ c \in Cpu /\ c.power = cpu.power /\ c.msr = cpu.msr
        /\ c.dec_pending = cpu.dec_pending
        /\ c.srr1 = v /\ v \in Msr /\ c.tb = cpu.tb /\ c.rem = cpu.rem /\ c.dec = cpu.dec
    BY RegisterAssumption DEF Cpu
  <2>2. cpu' = c /\ held' = (IF cpu.msr.EE THEN {} ELSE {v})
        /\ UNCHANGED <<line, phase, asked, due, base, cycles>>
    BY <1>6 DEF SetSrr1, PutsSrr1
  <2> HIDE DEF c
  <2> QED BY <2>1, <2>2
<1>7. ASSUME NEW v \in TimeValues, SetDec(v) PROVE IInv'
  <2> DEFINE c == [cpu EXCEPT !.dec = v]
  <2>1. /\ c \in Cpu /\ c.power = cpu.power /\ c.msr = cpu.msr
        /\ c.dec_pending = cpu.dec_pending
        /\ c.srr1 = cpu.srr1 /\ c.tb = cpu.tb /\ c.rem = cpu.rem /\ c.dec = v
    BY TimeAssumption DEF Cpu
  <2>2. cpu' = c /\ base' = (v + cpu.tb) % M
        /\ UNCHANGED <<line, phase, asked, held, due, cycles>>
    BY <1>7 DEF SetDec
  <2>3. base' \in 0 .. M - 1
    BY <1>2, <2>2, TimeAssumption DEF Cpu
  <2> HIDE DEF c
  <2> QED BY <2>1, <2>2, <2>3
<1> QED BY <1>3, <1>4, <1>5, <1>6, <1>7 DEF Embedder

-----------------------------------------------------------------------------
(* The theorems.                                                           *)

LEMMA InitIInv == Init => IInv
<1> SUFFICES ASSUME Init PROVE IInv
  OBVIOUS
<1>1. M \in Nat /\ M >= 2 /\ TicksPerTb \in Nat /\ TicksPerTb >= 4
  BY ClockSizes
<1>2. /\ cpu \in Cpu /\ ~cpu.msr.EE /\ ~cpu.msr.POW /\ cpu.power = "RUN"
      /\ cpu.tb = 0 /\ cpu.rem = 0 /\ cpu.dec = 0 /\ cpu.dec_pending = FALSE
  BY <1>1 DEF Init, Cpu, NoMsr, Msr
<1>3. 0 * TicksPerTb + 0 = 0 /\ (0 + 0) % M = 0
  BY <1>1
<1>4. 0 \in 0 .. M - 1 /\ 0 \in 0 .. M * TicksPerTb - 1
  <2>1. M * TicksPerTb \in Nat /\ 1 * TicksPerTb <= M * TicksPerTb
    BY <1>1
  <2> QED BY <1>1, <2>1
<1> QED BY <1>2, <1>3, <1>4
        DEF Init, IInv, TypeOK, SleepsOnRequest, ContextKept, MaskedWhileHeld, DecrementerExact,
            ClockExact, RunsInterrupts

LEMMA NextIInv == IInv /\ [Next]_vars => IInv'
<1> SUFFICES ASSUME IInv, [Next]_vars PROVE IInv'
  OBVIOUS
<1>1. CASE Step
  BY <1>1, ExecuteKeepsIInv, TakeInterruptKeepsIInv, LowPowerStepKeepsIInv DEF Step
<1>2. ASSUME NEW b \in BOOLEAN, SetLine(b) PROVE IInv'
  BY <1>2 DEF SetLine, history, IInv, TypeOK, SleepsOnRequest, ContextKept, MaskedWhileHeld,
              DecrementerExact, ClockExact, RunsInterrupts
<1>3. CASE Setters /\ Embedder
  BY <1>3, EmbedderKeepsIInv
<1>4. CASE UNCHANGED vars
  BY <1>4 DEF vars, history, IInv, TypeOK, SleepsOnRequest, ContextKept, MaskedWhileHeld,
              DecrementerExact, ClockExact, RunsInterrupts
<1> QED BY <1>1, <1>2, <1>3, <1>4 DEF Next

(***************************************************************************)
(* The inductive invariant of ppcemu_step, the embedder's calls and the    *)
(* interrupt line: the properties of RunLoop, and that only a running      *)
(* processor is between its two reads of the line.                         *)
(***************************************************************************)
THEOREM Invariance == Spec => []IInv
  BY InitIInv, NextIInv, PTL DEF Spec

\* Every register and every history variable keeps its type.
THEOREM TypeCorrect == Spec => []TypeOK
  BY Invariance, PTL DEF IInv

\* Only the program sends the processor to sleep, never a handler's rfi.
THEOREM SleepOnlyOnRequest == Spec => []SleepsOnRequest
  BY Invariance, PTL DEF IInv

(***************************************************************************)
(* However the line, the decrementer, handlers and low-power modes fall    *)
(* together, no interrupt puts its context over one that is needed.        *)
(***************************************************************************)
THEOREM ContextNeverLost == Spec => []ContextKept
  BY Invariance, PTL DEF IInv

\* One decrementer exception for each time DEC runs out, whatever masks it.
THEOREM DecrementerCounted == Spec => []DecrementerExact
  BY Invariance, PTL DEF IInv

\* TB and DEC account for every cycle, for every clock ratio.
THEOREM ClocksCounted == Spec => []ClockExact
  BY Invariance, PTL DEF IInv

-----------------------------------------------------------------------------
(* What a step leaves pending.                                             *)

Prompt ==
  Step /\ phase' = "step" /\ cpu'.dec_pending /\ cpu'.msr.EE => cpu.power = "SLEEP"

\* An instruction whose step ends at the first read leaves nothing pending.
LEMMA AfterPrompt ==
  ASSUME NEW c \in Cpu, After(c), phase' = "step"
  PROVE  ~cpu'.dec_pending
<1> DEFINE t == AdvanceTime(c)
<1>1. cpu' = CheckPowerState(t) /\ ~t.dec_pending
  BY DEF After
<1>2. t \in Cpu
  BY AdvanceTimeOK
<1> HIDE DEF t
<1> QED BY <1>1, <1>2, CheckPowerStateOK

LEMMA ExecutePrompt == IInv /\ Execute => Prompt
<1> SUFFICES ASSUME IInv, Execute, phase' = "step", cpu'.dec_pending
             PROVE  ~cpu'.msr.EE
  BY DEF Prompt
<1>1. cpu \in Cpu /\ cpu.srr1 \in Msr
  BY CpuFacts
<1>2. CASE FetchFault
  BY <1>1, <1>2, FireOK DEF FetchFault
<1>3. ASSUME NEW c \in Cpu, After(c) PROVE FALSE
  BY <1>3, AfterPrompt
<1>4. CASE Plain
  BY <1>1, <1>3, <1>4 DEF Plain
<1>5. ASSUME NEW v \in MsrValues, Mtmsr(v) \/ MtsprSrr1(v) PROVE FALSE
  <2>1. [cpu EXCEPT !.msr = v] \in Cpu /\ [cpu EXCEPT !.srr1 = v] \in Cpu
    BY <1>1, RegisterAssumption DEF Cpu
  <2> QED BY <1>3, <1>5, <2>1 DEF Mtmsr, MtsprSrr1
<1>6. ASSUME NEW v \in Hid0Values, MtsprHid0(v) PROVE FALSE
  <2>1. [cpu EXCEPT !.hid0 = v] \in Cpu
    BY <1>1, RegisterAssumption DEF Cpu
  <2> QED BY <1>3, <1>6, <2>1 DEF MtsprHid0
<1>7. ASSUME NEW v \in TimeValues, MtsprDec(v) \/ MtsprTbl(v) PROVE FALSE
  <2>1. [cpu EXCEPT !.dec = v] \in Cpu /\ [cpu EXCEPT !.tb = v] \in Cpu
    BY <1>1, TimeAssumption DEF Cpu
  <2> QED BY <1>3, <1>7, <2>1 DEF MtsprDec, MtsprTbl
<1>8. CASE Rfi
  <2>1. [cpu EXCEPT !.msr = [cpu.srr1 EXCEPT !.POW = FALSE]] \in Cpu
    BY <1>1 DEF Cpu, Msr
  <2> QED BY <1>3, <1>8, <2>1 DEF Rfi
<1>9. CASE Fault
  BY <1>1, <1>3, <1>9, FireOK DEF Fault
<1> QED BY <1>2, <1>4, <1>5, <1>6, <1>7, <1>8, <1>9 DEF Execute

LEMMA TakeInterruptPrompt == IInv /\ TakeInterrupt => Prompt
<1> SUFFICES ASSUME IInv, TakeInterrupt, cpu'.dec_pending
             PROVE  ~cpu'.msr.EE
  BY DEF Prompt
<1> DEFINE ext == line /\ cpu.msr.EE
           dec == ~ext /\ cpu.dec_pending /\ cpu.msr.EE
           f == Fire(cpu)
           c == IF ext THEN f
                ELSE IF dec THEN [f EXCEPT !.dec_pending = FALSE]
                ELSE cpu
<1>1. cpu' = CheckPowerState(c)
  BY DEF TakeInterrupt
<1>2. cpu \in Cpu /\ f \in Cpu /\ ~f.msr.EE
  BY CpuFacts, FireOK
<1> HIDE DEF f
<1>3. c \in Cpu /\ (c.dec_pending => ~c.msr.EE)
  <2>1. CASE ext
    BY <1>2, <2>1
  <2>2. CASE dec
    BY <1>2, <2>2 DEF Cpu
  <2>3. CASE ~ext /\ ~dec
    <3>1. c = cpu
      BY <2>3
    <3> QED BY <1>2, <2>3, <3>1
  <2> QED BY <2>1, <2>2, <2>3
<1> HIDE DEF c
<1> QED BY <1>1, <1>3, CheckPowerStateOK

LEMMA LowPowerStepPrompt == IInv /\ LowPowerStep => Prompt
<1> SUFFICES ASSUME IInv, LowPowerStep, cpu'.dec_pending, cpu.power # "SLEEP"
             PROVE  ~cpu'.msr.EE
  BY DEF Prompt
<1> DEFINE t == AdvanceTime(cpu)
           ext == WakesOnLine(t, line)
           dec == ~ext /\ WakesOnDec(t)
           f == Fire(t)
           awake == [f EXCEPT !.power = "RUN"]
<1>1. t \in Cpu /\ t.power = cpu.power /\ f \in Cpu /\ ~f.msr.EE
  BY CpuFacts, AdvanceTimeOK, FireOK
<1>2. cpu' = IF ext THEN awake
             ELSE IF dec THEN [awake EXCEPT !.dec_pending = FALSE]
             ELSE t
  BY DEF LowPowerStep, LowPowerTime
<1> HIDE DEF t, f
<1>3. CASE ext
  BY <1>1, <1>2, <1>3 DEF Cpu
<1>4. CASE dec
  BY <1>1, <1>2, <1>4 DEF Cpu
<1>5. CASE ~ext /\ ~dec
  <2>1. cpu' = t
    BY <1>2, <1>5
  <2> QED BY <1>1, <1>5, <2>1 DEF WakesOnDec
<1> QED BY <1>3, <1>4, <1>5

(***************************************************************************)
(* No step ends with a decrementer exception that is pending and enabled,  *)
(* except in the mode that stops the decrementer.                          *)
(***************************************************************************)
THEOREM DecrementerTaken == Spec => DecrementerPrompt
<1>1. IInv /\ [Next]_vars => [Prompt]_vars
  <2> SUFFICES ASSUME IInv, Next PROVE Prompt
    OBVIOUS
  <2>1. CASE Step
    BY <2>1, ExecutePrompt, TakeInterruptPrompt, LowPowerStepPrompt DEF Step
  <2>2. CASE ~Step
    BY <2>2 DEF Prompt
  <2> QED BY <2>1, <2>2
<1> QED BY <1>1, Invariance, PTL DEF Spec, DecrementerPrompt, Prompt

WakesProperly ==
  cpu.power # "RUN" /\ cpu'.power = "RUN" =>
    \/ cpu.msr.EE /\ line
    \/ /\ cpu.msr.EE /\ cpu.power \in {"DOZE", "NAP"}
       /\ due \/ (cpu.dec = 0 /\ cpu'.dec # 0)
    \/ Reset

LEMMA LowPowerStepWakes == IInv /\ LowPowerStep => WakesProperly
<1> SUFFICES ASSUME IInv, LowPowerStep, cpu.power # "RUN", cpu'.power = "RUN"
             PROVE  \/ cpu.msr.EE /\ line
                    \/ /\ cpu.msr.EE /\ cpu.power \in {"DOZE", "NAP"}
                       /\ due \/ (cpu.dec = 0 /\ cpu'.dec # 0)
  BY DEF WakesProperly
<1> DEFINE t == LowPowerTime(cpu)
           ext == WakesOnLine(t, line)
           dec == ~ext /\ WakesOnDec(t)
           awake == [Fire(t) EXCEPT !.power = "RUN"]
<1>1. cpu' = IF ext THEN awake
             ELSE IF dec THEN [awake EXCEPT !.dec_pending = FALSE]
             ELSE t
  BY DEF LowPowerStep
<1>2. /\ cpu \in Cpu /\ cpu.dec \in 0 .. M - 1 /\ cpu.dec_pending = due
      /\ cpu.power \in {"RUN"} \cup Modes
  BY CpuFacts DEF Cpu
<1>3. M \in Nat /\ M >= 2
  BY ClockSizes
<1>4. /\ t \in Cpu /\ t.msr = cpu.msr /\ t.power = cpu.power
      /\ t.dec_pending => due \/ (cpu.dec = 0 /\ t.dec # 0)
  <2>1. CASE cpu.power = "SLEEP"
    BY <1>2, <2>1 DEF LowPowerTime
  <2>2. CASE cpu.power # "SLEEP"
    <3>1. t = AdvanceTime(cpu)
      BY <2>2 DEF LowPowerTime
    <3>2. cpu.rem + 3 < TicksPerTb \/ cpu.rem + 3 >= TicksPerTb
      <4>1. cpu.rem \in 0 .. TicksPerTb - 1
        BY CpuFacts
      <4> QED BY <4>1, ClockSizes
    <3>3. cpu.dec = 0 => (cpu.dec - 1) % M # 0
      BY <1>2, <1>3
    <3> QED BY <1>2, <3>1, <3>2, <3>3, AdvanceTimeOK
  <2> QED BY <2>1, <2>2
<1> HIDE DEF t
<1>5. CASE ext
  BY <1>4, <1>5 DEF WakesOnLine
<1>6. CASE dec
  <2>1. t.dec_pending /\ cpu.msr.EE /\ cpu.power \in {"DOZE", "NAP"}
    BY <1>2, <1>4, <1>6 DEF WakesOnDec, Modes
  <2>2. cpu'.dec = t.dec
    <3> DEFINE f == Fire(t)
    <3>1. f \in Cpu /\ f.dec = t.dec
      BY <1>4, FireOK
    <3>2. cpu' = [[f EXCEPT !.power = "RUN"] EXCEPT !.dec_pending = FALSE]
      BY <1>1, <1>6
    <3> HIDE DEF f
    <3> QED BY <3>1, <3>2 DEF Cpu
  <2> QED BY <1>4, <2>1, <2>2
<1>7. CASE ~ext /\ ~dec
  <2>1. cpu' = t
    BY <1>1, <1>7
  <2> QED BY <1>4, <2>1
<1> QED BY <1>5, <1>6, <1>7

(***************************************************************************)
(* The wake events of include/ppcemu/state.h are the only ones: the line   *)
(* in every low-power mode, the decrementer in DOZE and NAP, a reset.      *)
(***************************************************************************)
THEOREM WakeEvents == Spec => WakesAsDocumented
<1>1. IInv /\ [Next]_vars => [WakesProperly]_vars
  <2> SUFFICES ASSUME IInv, Next PROVE WakesProperly
    OBVIOUS
  <2>1. ASSUME cpu.power = "RUN" \/ cpu'.power = cpu.power PROVE WakesProperly
    BY <2>1 DEF WakesProperly
  <2>2. CASE Execute
    <3>1. cpu.power = "RUN"
      BY <2>2 DEF Execute, Plain, Mtmsr, MtsprHid0, MtsprSrr1, MtsprDec, MtsprTbl,
                  Rfi, Fault, FetchFault, After
    <3> QED BY <2>1, <3>1
  <2>3. CASE TakeInterrupt
    <3>1. cpu.power = "RUN"
      BY <2>3 DEF TakeInterrupt, IInv, RunsInterrupts
    <3> QED BY <2>1, <3>1
  <2>4. CASE LowPowerStep
    BY <2>4, LowPowerStepWakes
  <2>5. ASSUME NEW b \in BOOLEAN, SetLine(b) PROVE WakesProperly
    BY <2>1, <2>5 DEF SetLine
  <2>6. CASE Embedder
    <3>1. cpu \in Cpu
      BY CpuFacts
    <3>2. CASE Reset
      BY <3>2 DEF WakesProperly
    <3>3. ASSUME ~Reset PROVE cpu'.power = cpu.power
      BY <2>6, <3>1, <3>3 DEF Embedder, SetMsr, SetHid0, SetSrr1, SetDec, Cpu
    <3> QED BY <2>1, <3>2, <3>3
  <2> QED BY <2>2, <2>3, <2>4, <2>5, <2>6 DEF Next, Step
<1> QED BY <1>1, Invariance, PTL DEF Spec, WakesAsDocumented, WakesProperly
=============================================================================
