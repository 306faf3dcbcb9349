----------------------------- MODULE ControlFlow ----------------------------
(***************************************************************************)
(* One instruction after the other: _ppcemu_decode_exec and its flag       *)
(* branched, the branches, the instructions on CR, sc, traps and illegal   *)
(* encodings, exception_fire and rfi, and the interrupts that ppcemu_step  *)
(* takes after an instruction.                                             *)
(*                                                                         *)
(* The code that runs is a program and the handlers that interrupt it and  *)
(* each other.  alone has the context that each of them would have if it   *)
(* were alone, by the operators of module ProgramOrder, the handler that   *)
(* runs last; saved has the contexts that handlers put aside.              *)
(***************************************************************************)
EXTENDS ProgramOrder, Sequences

CONSTANTS
  Offsets,   \* displacements of branches
  Values,    \* what the program puts into LR and CTR
  Targets,   \* where it goes by rfi
  Words,     \* what it puts into CR and its fields, as numbers
  Tested,    \* the BI of branches
  CrArgs,    \* operands of the instructions on CR bits
  Msrs,      \* what it puts into MSR
  Scratch,   \* what handlers leave in LR, CTR and CR
  MaxDepth   \* bound: handlers that interrupt one another

\* The powers of 2 up to that of the width of CR
Weight[b \in 0 .. Fields * FieldWidth] == IF b = 0 THEN 1 ELSE 2 * Weight[b - 1]
CrTop == Weight[Fields * FieldWidth]

ASSUME ControlFlowAssumption ==
  /\ Offsets \subseteq Int /\ Values \subseteq Addresses /\ Targets \subseteq Addresses
  /\ Words \subseteq 0 .. CrTop - 1 /\ Tested \subseteq CrBits
  /\ CrArgs \subseteq CrBits \X CrBits \X CrBits /\ Msrs \subseteq SUBSET MsrBits
  /\ Scratch \subseteq [lr : Addresses, ctr : Addresses, cr : 0 .. CrTop - 1]
  /\ MaxDepth \in Nat

VARIABLES
  cpu,   \* pc, msr, cr, LR, CTR, SRR0, SRR1 and branched of struct _ppcemu_state
  saved,
  alone

vars == <<cpu, saved, alone>>

Cpu == [pc : Addresses, lr : Addresses, ctr : Addresses, cr : 0 .. CrTop - 1,
        msr : SUBSET MsrBits, srr0 : Addresses, srr1 : SUBSET MsrBits,
        branched : BOOLEAN]

Depth == Len(alone) - 1

\* Types of the registers and of the contexts
TypeOK ==
  /\ cpu \in Cpu
  /\ saved \in Seq(Contexts) /\ alone \in Seq(Contexts)

-----------------------------------------------------------------------------
(* cr.h: bit 0 and field 0 are the most significant. *)

CrBit(cr, b) == (cr \div Weight[b]) % 2
SetCrBit(cr, b, set) ==
  IF set = (CrBit(cr, b) = 1) THEN cr
  ELSE IF set THEN cr + Weight[b] ELSE cr - Weight[b]

Shift(f) == Weight[(Fields - 1 - f) * FieldWidth]
CrField(cr, f) == (cr \div Shift(f)) % Weight[FieldWidth]
SetCrField(cr, f, x) == cr + (x - CrField(cr, f)) * Shift(f)

LastBit == Fields * FieldWidth - 1
AsBits(cr) == {b \in CrBits : CrBit(cr, LastBit - b) = 1}

\* CR_OP; of ~b and !b only the last bit matters.
CrOp(op, a, b) ==
  CASE op = "crand"  -> a = 1 /\ b = 1
    [] op = "crandc" -> a = 1 /\ b # 1
    [] op = "creqv"  -> a = b
    [] op = "crnand" -> ~ (a = 1 /\ b = 1)
    [] op = "crnor"  -> a + b = 0
    [] op = "cror"   -> a + b > 0
    [] op = "crorc"  -> a = 1 \/ b = 0
    [] op = "crxor"  -> a # b

\* do_mtcrf: bit i of CRM is the field i from the right; all of them at once
\* are a case of their own, with the same outcome.
MaskedCr(cr, crm, x) ==
  [b \in 0 .. LastBit |->
     IF b \div FieldWidth \in crm THEN CrBit(x, b) ELSE CrBit(cr, b)]

-----------------------------------------------------------------------------
\* exception_fire, without the caches
Fire(c, cause) ==
  LET prefix == IF "IP" \in c.msr THEN Prefix ELSE 0
      left == c.msr \ {"EE", "PR", "IR"}
  IN [c EXCEPT !.srr0 = c.pc, !.srr1 = c.msr,
               !.msr = IF "ILE" \in left THEN left \cup {"LE"} ELSE left \ {"LE"},
               !.pc = prefix + Vector[cause], !.branched = TRUE]

Reset ==
  Fire([pc |-> 0, lr |-> 0, ctr |-> 0, cr |-> 0, msr |-> {"IP"}, srr0 |-> 0,
        srr1 |-> {}, branched |-> FALSE], "reset")

Registers(c) == [pc |-> c.pc, lr |-> c.lr, ctr |-> c.ctr, cr |-> AsBits(c.cr),
                 msr |-> c.msr]

\* After a reset the boot code is the program.
Init == cpu = Reset /\ saved = <<>> /\ alone = <<Registers(Reset)>>

\* Handlers save SRR0 and SRR1 before anything that may interrupt them, and
\* run nothing else until then, nor after they have put them back.
AtEdge == Depth > Len(saved)

\* The start of _ppcemu_decode_exec
Begin == [cpu EXCEPT !.branched = FALSE]

Alone  == alone[Len(alone)]
Below  == SubSeq(alone, 1, Len(alone) - 1)

(***************************************************************************)
(* The end of _ppcemu_decode_exec with the registers c, and of ppcemu_step: *)
(* an interrupt that is pending and enabled.  stack becomes of alone.      *)
(***************************************************************************)
End(c, stack) ==
  LET n == IF c.branched THEN c ELSE [c EXCEPT !.pc = (@ + Unit) % Top]
      deeper(cause) == Append(stack, Entry(stack[Len(stack)], cause))
  IN \/ cpu' = n /\ alone' = stack
     \/ \E cause \in {"ext", "dec"} :
          /\ "EE" \in n.msr /\ Len(stack) <= MaxDepth
          /\ cpu' = Fire(n, cause) /\ alone' = deeper(cause)

Runs(c, meant) == ~ AtEdge /\ End(c, Append(Below, meant)) /\ UNCHANGED saved

\* The program; what handlers do to their registers is in Save.
Program(c, meant) == Depth = 0 /\ Runs(c, meant)

-----------------------------------------------------------------------------
(* Branches *)

B(li, aa, lk) ==
  LET to == Align((IF aa THEN li ELSE Begin.pc + li) % Top)
      linked == IF lk THEN [Begin EXCEPT !.lr = (cpu.pc + Unit) % Top] ELSE Begin
  IN Program([linked EXCEPT !.pc = to, !.branched = TRUE],
             Branches(Alone, TRUE, Align((IF aa THEN li ELSE Alone.pc + li) % Top), lk))

\* _do_cond_branch
CondBranch(bo, bi, lk, target) ==
  LET ctr == IF 4 \in bo THEN cpu.ctr ELSE (cpu.ctr - 1) % Top
      ctrOk == 4 \in bo \/ (IF 2 \in bo THEN ctr = 0 ELSE ctr # 0)
      condOk == 16 \in bo \/ (CrBit(cpu.cr, LastBit - bi) = 1) = (8 \in bo)
      counted == [Begin EXCEPT !.ctr = ctr]
  IN IF ctrOk /\ condOk
     THEN [counted EXCEPT !.pc = target, !.branched = TRUE,
                          !.lr = IF lk THEN (cpu.pc + Unit) % Top ELSE @]
     ELSE counted

Meant(bo, bi, lk, target) ==
  Branches(Counted(bo, Alone), Taken(bo, bi, Alone), target, lk)

Bc(bo, bi, bd, aa, lk) ==
  LET to(pc) == (IF aa THEN bd ELSE pc + bd) % Top
  IN Program(CondBranch(bo, bi, lk, to(cpu.pc)), Meant(bo, bi, lk, to(Alone.pc)))

\* The target is an argument: LR and CTR are read before they are written.
Bclr(bo, bi, lk) ==
  Program(CondBranch(bo, bi, lk, Align(cpu.lr)), Meant(bo, bi, lk, Align(Alone.lr)))
Bcctr(bo, bi, lk) ==
  Program(CondBranch(bo, bi, lk, Align(cpu.ctr)), Meant(bo, bi, lk, Align(Alone.ctr)))

-----------------------------------------------------------------------------
(* The condition register *)

CrLogic(op, d, a, b) ==
  Program([Begin EXCEPT !.cr = SetCrBit(@, LastBit - d,
              CrOp(op, CrBit(@, LastBit - a), CrBit(@, LastBit - b)))],
          On(WithBit(Alone, d, Logic(op, a \in Alone.cr, b \in Alone.cr))))

\* The compares: some field of x, that of the least significant bits
Cmp(f, x) ==
  Program([Begin EXCEPT !.cr = SetCrField(@, f, x)],
          On(WithField(Alone, f, AsBits(x), Fields - 1)))

Mcrf(d, s) ==
  Program([Begin EXCEPT !.cr = SetCrField(@, d, CrField(@, s))],
          On(WithField(Alone, d, Alone.cr, s)))

Weighted(bits) ==
  LET sum[i \in 0 .. LastBit + 1] ==
        IF i = 0 THEN 0 ELSE sum[i - 1] + bits[i - 1] * Weight[i - 1]
  IN sum[LastBit + 1]

Mtcrf(crm, x) ==
  Program([Begin EXCEPT !.cr = Weighted(MaskedCr(@, crm, x))],
          On(WithFields(Alone, {Fields - 1 - i : i \in crm}, AsBits(x))))

-----------------------------------------------------------------------------
(* Other registers *)

\* What writes none of the registers here
Plain == Runs(Begin, On(Alone))

Mtlr(x)  == Program([Begin EXCEPT !.lr = x], On([Alone EXCEPT !.lr = x]))
Mtctr(x) == Program([Begin EXCEPT !.ctr = x], On([Alone EXCEPT !.ctr = x]))
Mtmsr(x) == Runs([Begin EXCEPT !.msr = x], On([Alone EXCEPT !.msr = x]))

\* Handlers enable and disable interrupts.
MsrsHere ==
  IF Depth = 0 THEN Msrs ELSE {Alone.msr \cup {"EE"}, Alone.msr \ {"EE"}}

-----------------------------------------------------------------------------
(* Exceptions *)

Enter(c, meant, cause) ==
  /\ ~ AtEdge /\ Depth < MaxDepth
  /\ End(c, Append(Append(Below, meant), Entry(meant, cause)))
  /\ UNCHANGED saved

\* Mutant of Sc: SRR0 is left at the instruction itself.
ScAgain == Enter(Fire(Begin, "syscall"), On(Alone), "syscall")

Sc ==
  Enter([Fire(Begin, "syscall") EXCEPT !.srr0 = (cpu.pc + Unit) % Top],
        On(Alone), "syscall")

\* tw, an illegal or malformed instruction; a load or store that fails: the
\* handler returns to the instruction.
Fault(cause) == Enter(Fire(Begin, cause), Alone, cause)

\* The fetch fails: no instruction, and no look at the interrupts.
FetchFault ==
  /\ ~ AtEdge /\ Depth < MaxDepth /\ "IR" \in cpu.msr
  /\ cpu' = Fire(cpu, "isi")
  /\ alone' = Append(alone, Entry(Alone, "isi"))
  /\ UNCHANGED saved

Return == [Begin EXCEPT !.pc = cpu.srr0, !.msr = cpu.srr1, !.branched = TRUE]

\* do_rfi, at the end of a handler
Rfi == AtEdge /\ End(Return, Below) /\ UNCHANGED saved

\* The program goes to x by mtspr SRR0, mtspr SRR1 and rfi, interrupts off.
Leave(x, m) ==
  /\ "EE" \notin cpu.msr
  /\ Program([Return EXCEPT !.pc = x, !.msr = m, !.srr0 = x, !.srr1 = m],
             [Alone EXCEPT !.pc = x, !.msr = m])

-----------------------------------------------------------------------------
(* The code of handlers *)

\* mfspr, mfcr and stores, and then its own work, which leaves x in LR, CTR and
\* CR
Save(x) ==
  /\ AtEdge
  /\ saved' = Append(saved, [pc |-> cpu.srr0, msr |-> cpu.srr1, lr |-> cpu.lr,
                             ctr |-> cpu.ctr, cr |-> AsBits(cpu.cr)])
  /\ cpu' = [cpu EXCEPT !.lr = x.lr, !.ctr = x.ctr, !.cr = x.cr]
  /\ alone' = Append(Below, [Alone EXCEPT !.lr = x.lr, !.ctr = x.ctr,
                                          !.cr = AsBits(x.cr)])

Number(bits) == CHOOSE x \in 0 .. CrTop - 1 : AsBits(x) = bits

\* Loads, mtspr and mtcrf
Restore ==
  LET was == saved[Len(saved)] IN
  /\ ~ AtEdge /\ Depth > 0 /\ "EE" \notin cpu.msr
  /\ cpu' = [cpu EXCEPT !.srr0 = was.pc, !.srr1 = was.msr, !.lr = was.lr,
                        !.ctr = was.ctr, !.cr = Number(was.cr)]
  /\ alone' = Append(Below, [Alone EXCEPT !.lr = was.lr, !.ctr = was.ctr,
                                          !.cr = was.cr])
  /\ saved' = SubSeq(saved, 1, Len(saved) - 1)

-----------------------------------------------------------------------------
CrOps == {"crand", "crandc", "creqv", "crnand", "crnor", "cror", "crorc", "crxor"}
Bos   == SUBSET {2, 4, 8, 16}

Instruction ==
  \/ \E lk \in BOOLEAN :
       \/ \E aa \in BOOLEAN, x \in Offsets : B(x, aa, lk)
       \/ \E bo \in Bos, bi \in Tested :
            \/ \E aa \in BOOLEAN, x \in Offsets : Bc(bo, bi, x, aa, lk)
            \/ Bclr(bo, bi, lk)
            \/ Bcctr(bo, bi, lk)
  \/ \E op \in CrOps, x \in CrArgs : CrLogic(op, x[1], x[2], x[3])
  \/ \E f \in 0 .. Fields - 1 :
       \/ \E x \in 0 .. Weight[FieldWidth] - 1 : Cmp(f, x)
       \/ \E s \in 0 .. Fields - 1 : Mcrf(f, s)
  \/ \E crm \in SUBSET (0 .. Fields - 1), x \in Words : Mtcrf(crm, x)
  \/ \E x \in Values : Mtlr(x) \/ Mtctr(x)
  \/ \E x \in MsrsHere : Mtmsr(x)
  \/ \E x \in Targets, m \in Msrs : Leave(x, m)
  \/ Plain
  \/ Sc
  \/ \E cause \in {"program", "dsi"} : Fault(cause)

Next ==
  \/ Instruction
  \/ FetchFault
  \/ Rfi
  \/ \E x \in Scratch : Save(x)
  \/ Restore

Spec == Init /\ [][Next]_vars

-----------------------------------------------------------------------------
\* Where the context of level i is while level i + 1 runs
Kept(i) ==
  IF i <= Len(saved) THEN saved[i]
  ELSE [Registers(cpu) EXCEPT !.pc = cpu.srr0, !.msr = cpu.srr1]

(***************************************************************************)
(* Whatever interrupts what, after taken and untaken branches, system      *)
(* calls, traps, page faults and rfi itself, the code that runs and all    *)
(* that it interrupted are where they would be if each were alone: no      *)
(* instruction is skipped or done twice, LR, CTR, CR and MSR are those of  *)
(* the branches and logic of ProgramOrder, and a handler starts at its     *)
(* vector (decode.c 508-778, branch.c, cond.c, exception.h 34-66).         *)
(***************************************************************************)
RunsAsAlone ==
  /\ Registers(cpu) = Alone
  /\ \A i \in 1 .. Depth : Kept(i) = alone[i]
=============================================================================
