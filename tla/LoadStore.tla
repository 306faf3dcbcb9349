----------------------------- MODULE LoadStore -----------------------------
(***************************************************************************)
(* The load and store instructions of instr/loadstore.c, instr.h and       *)
(* instr/floating_point.c, and the unquantised ones of                     *)
(* instr/paired_singles.c, over an access that can fault in mem.c: what an *)
(* instruction leaves behind when a page is missing half-way, and what the *)
(* handler of the guest can make of it.                                    *)
(***************************************************************************)
EXTENDS Integers, FiniteSetsExt

CONSTANTS
  ByteValues,    \* values of a byte: 256 in the code
  WordBytes,     \* bytes of a word: 4
  NRegs,         \* general registers: 32
  FRegs,         \* floating-point registers
  PageSize,      \* bytes of a page: 4096
  MaxString,     \* bytes that a string instruction with NB = 0 moves: 32
  Programs,      \* the programs: the loads and stores of each, the registers
                 \* that the rest of it computes into, its sets of mode bits
  ToDouble,      \* the host's conversion of a single to the words of a double
  ToSingle,      \* and back
  NoInst         \* no instruction

Space == ByteValues^WordBytes
Address == 0 .. Space - 1
Page == 0 .. (Space \div PageSize) - 1
Byte == 0 .. ByteValues - 1
Word == [0 .. WordBytes - 1 -> Byte]
Reg == 0 .. NRegs - 1
Right == {"none", "ro", "rw"}
Mode == {"FP", "LE", "PSE", "LSQE"}   \* bits of MSR and HID2
Words == [0 .. 1 -> Word]

IntegerForms == {"load", "store", "lmw", "stmw", "lswi", "stswi"}
Singles == {"psq_l", "psq_st"}
FloatForms == {"lf", "stf", "stfiwx"} \cup Singles
Loading == {"load", "lmw", "lswi", "lf", "psq_l"}
Multiples == {"lmw", "stmw"}
Strings == {"lswi", "stswi"}

\* An instruction of a form moves len bytes to or from register r (NB of the
\* string forms), at register a plus x: a register if indexed, else a number.
Instruction ==
  [form : IntegerForms \cup FloatForms, r : Reg, a : Reg, x : Address,
   indexed : BOOLEAN, len : 0 .. Space, update : BOOLEAN,
   order : {"zero", "sign", "brev"}]

Instructions == UNION {p.code : p \in Programs}

LoadStoreAssumption ==
  /\ {ByteValues, WordBytes, NRegs, PageSize, MaxString} \subseteq Nat
  /\ ByteValues >= 2 /\ WordBytes >= 1 /\ NRegs >= 1
  /\ PageSize >= WordBytes /\ Space \in Nat /\ Space > 1 /\ Space % PageSize = 0
  /\ MaxString \in 1 .. NRegs * WordBytes
  /\ FRegs \subseteq Reg
  /\ \A p \in Programs :
       /\ p.code \subseteq Instruction /\ p.scratch \subseteq Reg
       /\ p.modes \subseteq SUBSET Mode
  /\ \A i \in Instructions :
       /\ i.indexed => i.x \in Reg
       /\ i.form \in {"load", "store"} => i.len \in 1 .. WordBytes
       /\ i.form \in Strings => i.len < MaxString
       /\ i.form \in Multiples \cup Strings => ~ i.indexed /\ ~ i.update
       /\ i.form \in FloatForms => i.len \in {WordBytes, 2 * WordBytes} /\ i.r \in FRegs
  /\ ToDouble \in [Word -> Words] /\ ToSingle \in [Words -> Word]
  /\ NoInst \notin Instructions
ASSUME LoadStoreAssumption

VARIABLES
  program, \* the program that runs
  cpu,     \* the registers and the memory: what a program computes with
  rights,  \* what translation grants on each page
  modes,   \* the mode bits that are one
  phase,   \* the program runs, its handler runs, or it goes back to retry
  inst,    \* history: the instruction that did not complete
  fault,   \* the exception: its vector, DAR and DSISR
  goal,    \* history: what inst would have left with every page present, if it
           \* can be restarted
  faults   \* history: how often inst has faulted since the system last took
           \* something away

vars == <<program, cpu, rights, modes, phase, inst, fault, goal, faults>>

Cpu == [gpr : [Reg -> Word], fpr : [FRegs -> [ps : BOOLEAN, w : Words]], mem : [Address -> Byte]]
Fault == [vector : {"none", "dsi", "align", "fp", "program"}, dar : Address,
          dsisr : SUBSET {"store", "not_found", "protection"}]
NoFault == [vector |-> "none", dar |-> 0, dsisr |-> {}]

----------------------------------------------------------------------------
(* Words and addresses *)

\* The number of a word, most significant byte first, and the word of a number.
Num == [w \in Word |->
  LET upto[b \in 0 .. WordBytes] ==
        IF b = 0 THEN 0 ELSE upto[b - 1] * ByteValues + w[b - 1]
  IN upto[WordBytes]]
AsWord == [n \in Address |->
  LET rest[b \in 0 .. WordBytes] ==
        IF b = 0 THEN n ELSE rest[b - 1] \div ByteValues
  IN [b \in 0 .. WordBytes - 1 |-> rest[WordBytes - 1 - b] % ByteValues]]
One == AsWord[1]   \* a word that stands for 1.0

\* What a floating-point register is as a double and as a single; ps says that
\* it holds two singles (fpr_is_ps).
get_double(f) == IF f.ps THEN ToDouble[f.w[0]] ELSE f.w
get_ps0(f) == IF f.ps THEN f.w[0] ELSE ToSingle[f.w]

\* Mutant of Widened: the sign fills with one more than the largest byte.
WidenedTooFar(s, len, order) ==
  LET fill == IF order = "sign" /\ s[0] >= ByteValues \div 2 THEN ByteValues ELSE 0
  IN [b \in 0 .. WordBytes - 1 |->
        IF b < WordBytes - len THEN fill ELSE s[b - (WordBytes - len)]]

\* The word that bytes s of a load become, most significant first.
Widened(s, len, order) ==
  LET fill == IF order = "sign" /\ s[0] >= ByteValues \div 2 THEN ByteValues - 1 ELSE 0
  IN [b \in 0 .. WordBytes - 1 |->
        LET p == b - (WordBytes - len)
        IN IF p < 0 THEN fill ELSE IF order = "brev" THEN s[len - 1 - p] ELSE s[p]]

\* The bytes of word w that a store moves.
Narrowed(w, len, order) ==
  [b \in 0 .. len - 1 |->
     IF order = "brev" THEN w[WordBytes - 1 - b] ELSE w[WordBytes - len + b]]

EffectiveAddress(i, c) ==
  ((IF i.a = 0 THEN 0 ELSE Num[c.gpr[i.a]])
     + (IF i.indexed THEN Num[c.gpr[i.x]] ELSE i.x)) % Space

----------------------------------------------------------------------------
(* An instruction is a number of accesses, each to Unit bytes. *)

Count(i) == CASE i.form \in {"load", "store"} -> 1
              [] i.form \in Multiples -> NRegs - i.r
              [] i.form \in Strings -> IF i.len = 0 THEN MaxString ELSE i.len
              [] i.form \in FloatForms -> i.len \div WordBytes
Unit(i) == IF i.form \in {"load", "store"} THEN i.len
           ELSE IF i.form \in Strings THEN 1 ELSE WordBytes
At(i, c, j) == (EffectiveAddress(i, c) + j * Unit(i)) % Space
Covered(i, c, j) == {(At(i, c, j) + b) % Space : b \in 0 .. Unit(i) - 1}

Grants(right, write) == right = "rw" \/ (right = "ro" /\ ~write)

\* Mutant of Denied: only the page of the first byte is translated.
DeniedFirstPage(at, len, write, r) ==
  IF Grants(r[at \div PageSize], write) THEN {} ELSE {at}

\* Mutant of Denied: DAR is the address of the access, not of the page that is missing.
DeniedAtAccess(at, len, write, r) ==
  LET pages == {((at + b) % Space) \div PageSize : b \in 0 .. len - 1}
  IN IF \A p \in pages : Grants(r[p], write) THEN {} ELSE {at}

\* Where one access faults: at its first byte, or at the start of the second
\* page; both are translated before a byte is moved.
Denied(at, len, write, r) ==
  LET first == PageSize - (at % PageSize)
      next == (at + first) % Space
  IN IF ~Grants(r[at \div PageSize], write) THEN {at}
     ELSE IF len > first /\ ~Grants(r[next \div PageSize], write) THEN {next}
     ELSE {}

DeniedTo(i, c, j, r) == Denied(At(i, c, j), Unit(i), i.form \notin Loading, r)

\* The accesses before the first that faults.
Stop(i, c, r) ==
  Min({Count(i)} \cup {j \in 0 .. Count(i) - 1 : DeniedTo(i, c, j, r) # {}})

set_dsi_info(at, write, r) ==
  [vector |-> "dsi", dar |-> at,
   dsisr |-> (IF write THEN {"store"} ELSE {})
             \cup {IF r[at \div PageSize] = "none" THEN "not_found" ELSE "protection"}]

----------------------------------------------------------------------------
(* What the first k accesses leave *)

Source(i, c, j) ==
  CASE i.form = "store" -> Narrowed(c.gpr[i.r], i.len, i.order)
    [] i.form = "stmw" -> c.gpr[i.r + j]
    [] i.form = "stswi" ->
         [b \in {0} |-> c.gpr[(i.r + j \div WordBytes) % NRegs][j % WordBytes]]
    [] i.form = "stfiwx" -> c.fpr[i.r].w[1]
    [] i.form = "psq_st" -> c.fpr[i.r].w[j]
    [] i.form = "stf" -> IF i.len = WordBytes THEN get_ps0(c.fpr[i.r])
                         ELSE get_double(c.fpr[i.r])[j]

Stored(i, c, k) ==
  [c EXCEPT !.mem = [x \in Address |->
     LET last == {j \in 0 .. k - 1 : x \in Covered(i, c, j)}
     IN IF last = {} THEN c.mem[x]
        ELSE Source(i, c, Max(last))[(x - At(i, c, Max(last))) % Space]]]

Fetched(i, c, j) == [b \in 0 .. Unit(i) - 1 |-> c.mem[(At(i, c, j) + b) % Space]]

\* Mutant of StringLoaded: a register keeps the bytes that the string does not reach.
StringLoadedOver(i, c, k) ==
  [q \in Reg |->
     LET at == ((q - i.r) % NRegs) * WordBytes
     IN [b \in 0 .. WordBytes - 1 |->
           IF at + b < k THEN Fetched(i, c, at + b)[0] ELSE c.gpr[q][b]]]

\* lswi clears a register when it comes to it, before the first of its bytes.
StringLoaded(i, c, k) ==
  [q \in Reg |->
     LET at == ((q - i.r) % NRegs) * WordBytes
     IN IF at < Count(i) /\ at <= k
        THEN [b \in 0 .. WordBytes - 1 |-> IF at + b < k THEN Fetched(i, c, at + b)[0] ELSE 0]
        ELSE c.gpr[q]]

\* Mutant of FloatLoaded: the first word is put into the register as it arrives.
FloatLoadedEarly(i, c, k, m) ==
  IF k = 0 THEN c.fpr
  ELSE [c.fpr EXCEPT ![i.r] = [ps |-> i.form = "psq_l", w |-> [lane \in 0 .. 1 |->
          IF lane < k THEN Fetched(i, c, lane) ELSE c.fpr[i.r].w[lane]]]]

\* A floating-point register changes only when all words are there.  A single
\* goes to both lanes in paired-single mode; psq_l puts 1.0 beside it.
FloatLoaded(i, c, k, m) ==
  LET word == Fetched(i, c, 0)
      paired == i.form = "psq_l" \/ (i.len = WordBytes /\ "PSE" \in m)
  IN IF k < Count(i) THEN c.fpr
     ELSE [c.fpr EXCEPT ![i.r] =
       [ps |-> paired,
        w |-> IF i.len = 2 * WordBytes THEN [lane \in 0 .. 1 |-> Fetched(i, c, lane)]
              ELSE IF ~paired THEN ToDouble[word]
              ELSE [lane \in 0 .. 1 |->
                      IF lane = 1 /\ i.form = "psq_l" THEN One ELSE word]]]

Loaded(i, c, k, m) ==
  CASE i.form = "load" ->
         IF k = 0 THEN c ELSE [c EXCEPT !.gpr[i.r] = Widened(Fetched(i, c, 0), i.len, i.order)]
    [] i.form = "lmw" ->
         [c EXCEPT !.gpr = [q \in Reg |-> IF q \in i.r .. i.r + k - 1
                                          THEN Fetched(i, c, q - i.r) ELSE c.gpr[q]]]
    [] i.form = "lswi" -> [c EXCEPT !.gpr = StringLoaded(i, c, k)]
    [] i.form \in {"lf", "psq_l"} -> [c EXCEPT !.fpr = FloatLoaded(i, c, k, m)]

Moved(i, c, k, m) == IF i.form \in Loading THEN Loaded(i, c, k, m) ELSE Stored(i, c, k)

----------------------------------------------------------------------------
(* One attempt at an instruction *)

\* Forms that are refused before anything else: stfsu and stfdu without a base
\* register, and lswi over its own base register, or over r0 without one.
Invalid(i) ==
  \/ i.form = "stf" /\ i.update /\ ~i.indexed /\ i.a = 0
  \/ i.form = "lswi" /\ (i.a - i.r) % NRegs < (Count(i) + WordBytes - 1) \div WordBytes

Unaligned(i, c, m) ==
  \/ i.form \in Multiples \cup Strings /\ "LE" \in m
  \/ i.form \in Multiples /\ EffectiveAddress(i, c) % WordBytes # 0

Refusal(i, c, m) ==
  IF Invalid(i) THEN "program"
  ELSE IF i.form \in FloatForms /\ "FP" \notin m THEN "fp"
  ELSE IF i.form \in Singles /\ ~({"PSE", "LSQE"} \subseteq m) THEN "program"
  ELSE IF Unaligned(i, c, m) THEN "align" ELSE "none"

\* Mutant of Based: the base moves whether or not the access was made.
BasedAlways(i, c, new, done) ==
  IF i.update THEN [new EXCEPT !.gpr[i.a] = AsWord[EffectiveAddress(i, c)]] ELSE new

\* The base register of an update form.  The floating-point forms assign what
\* the access returns, which is 0 when it failed.
Based(i, c, new, done) ==
  IF i.update /\ done THEN [new EXCEPT !.gpr[i.a] = AsWord[EffectiveAddress(i, c)]]
  ELSE IF i.update /\ i.form \in FloatForms /\ ~Invalid(i)
  THEN [new EXCEPT !.gpr[i.a] = AsWord[0]]
  ELSE new

Attempt(i, c, r, m) ==
  LET why == Refusal(i, c, m)
      k == IF why = "none" THEN Stop(i, c, r) ELSE 0
      new == IF why = "none" THEN Moved(i, c, k, m) ELSE c
      done == why = "none" /\ k = Count(i)
  IN [cpu |-> Based(i, c, new, done),
      fault |-> IF done THEN NoFault
                ELSE IF why = "none"
                THEN set_dsi_info(Min(DeniedTo(i, c, k, r)), i.form \notin Loading, r)
                ELSE [vector |-> why,
                      dar |-> IF why = "align" THEN EffectiveAddress(i, c) ELSE 0,
                      dsisr |-> {}]]

\* What the instruction leaves when nothing is in its way.
Completed(i, c, m) == Based(i, c, Moved(i, c, Count(i), m), TRUE)

\* Forms that cannot be restarted: lmw over its own base register, which the
\* architecture forbids and the code lets pass, and the floating-point forms
\* with update, whose base the code overwrites with 0 when they fail.
Restarts(i) ==
  /\ ~(i.form = "lmw" /\ i.a # 0 /\ i.a >= i.r)
  /\ ~(i.form \in FloatForms /\ i.update)

Restarted == {"dsi", "fp"}   \* exceptions whose handler goes back to the instruction

----------------------------------------------------------------------------
(* Actions *)

Init ==
  /\ program \in Programs
  /\ cpu = [gpr |-> [q \in Reg |-> AsWord[0]],
            fpr |-> [f \in FRegs |-> [ps |-> FALSE, w |-> [lane \in 0 .. 1 |-> AsWord[0]]]],
            mem |-> [x \in Address |-> 0]]
  /\ rights = [p \in Page |-> "none"]
  /\ modes = {}
  /\ phase = "running" /\ inst = NoInst /\ fault = NoFault /\ goal = cpu /\ faults = 0

\* The program comes to an instruction for the first time.
Execute(i) ==
  LET t == Attempt(i, cpu, rights, modes)
  IN /\ phase = "running"
     /\ cpu' = t.cpu /\ fault' = t.fault
     /\ IF t.fault = NoFault
        THEN goal' = t.cpu /\ UNCHANGED <<phase, inst, faults>>
        ELSE /\ phase' = "handler" /\ inst' = i /\ faults' = 1
             /\ goal' = IF t.fault.vector \in Restarted /\ Restarts(i)
                        THEN Completed(i, cpu, modes) ELSE t.cpu
     /\ UNCHANGED <<rights, modes>>

\* rfi from the handler: the instruction is attempted again.
Retry ==
  LET t == Attempt(inst, cpu, rights, modes)
  IN /\ phase = "returning"
     /\ cpu' = t.cpu /\ fault' = t.fault
     /\ IF t.fault = NoFault
        THEN phase' = "running" /\ inst' = NoInst /\ goal' = t.cpu /\ faults' = 0
        ELSE /\ phase' = "handler" /\ inst' = inst /\ faults' = faults + 1
             /\ goal' = IF Restarts(inst) THEN goal ELSE t.cpu
     /\ UNCHANGED <<rights, modes>>

\* The handler of a data storage exception knows DAR and DSISR: it maps the
\* page when it was not found and makes it writable when it was protected.
MapPage ==
  /\ phase = "handler" /\ fault.vector = "dsi"
  /\ \E right \in IF "protection" \in fault.dsisr THEN {"rw"} ELSE {"ro", "rw"} :
       rights' = [rights EXCEPT ![fault.dar \div PageSize] = right]
  /\ phase' = "returning"
  /\ UNCHANGED <<cpu, modes, inst, fault, goal, faults>>

\* The handler of the floating-point unavailable exception.
EnableFloat ==
  /\ phase = "handler" /\ fault.vector = "fp"
  /\ modes' = modes \cup {"FP"}
  /\ phase' = "returning"
  /\ UNCHANGED <<cpu, rights, inst, fault, goal, faults>>

\* After an alignment or program exception the program goes on elsewhere.
GiveUp ==
  /\ phase = "handler" /\ fault.vector \notin Restarted
  /\ phase' = "running" /\ inst' = NoInst /\ fault' = NoFault /\ goal' = cpu /\ faults' = 0
  /\ UNCHANGED <<cpu, rights, modes>>

\* The system takes a page away, at any time.
TakePage(p, right) ==
  /\ <<rights[p], right>> \in {<<"rw", "ro">>, <<"rw", "none">>, <<"ro", "none">>}
  /\ rights' = [rights EXCEPT ![p] = right]
  /\ faults' = 0
  /\ UNCHANGED <<cpu, modes, phase, inst, fault, goal>>

\* The system lends the floating-point registers to another task.
TakeFloat ==
  /\ phase = "returning" /\ "FP" \in modes
  /\ modes' = modes \ {"FP"}
  /\ faults' = 0
  /\ UNCHANGED <<cpu, rights, phase, inst, fault, goal>>

\* Other instructions: they compute into a register, or change a mode.
Compute(q, w) ==
  /\ phase = "running"
  /\ cpu' = [cpu EXCEPT !.gpr[q] = w]
  /\ goal' = cpu'
  /\ UNCHANGED <<rights, modes, phase, inst, fault, faults>>

SetModes(m) ==
  /\ phase = "running"
  /\ modes' = m
  /\ UNCHANGED <<cpu, rights, phase, inst, fault, goal, faults>>

Step ==
  \/ \E i \in program.code : Execute(i)
  \/ Retry
  \/ MapPage
  \/ EnableFloat
  \/ GiveUp
  \/ \E p \in Page, right \in Right : TakePage(p, right)
  \/ TakeFloat
  \/ \E q \in program.scratch, w \in Word : Compute(q, w)
  \/ \E m \in program.modes : SetModes(m)

Next == Step /\ UNCHANGED program

Spec == Init /\ [][Next]_vars

----------------------------------------------------------------------------
(* Properties *)

\* Types of the state, and what the phases say of each other.
TypeOK ==
  /\ program \in Programs /\ cpu \in Cpu /\ goal \in Cpu
  /\ rights \in [Page -> Right] /\ modes \subseteq Mode /\ faults \in Nat
  /\ phase \in {"running", "handler", "returning"} /\ fault \in Fault
  /\ phase = "running" <=> fault = NoFault
  /\ IF phase = "running" THEN inst = NoInst /\ faults = 0 /\ goal = cpu
     ELSE inst \in Instructions

\* An instruction that was interrupted by any number of page faults and
\* floating-point exceptions, with pages and registers taken away again in
\* between, leaves exactly what it leaves without them (loadstore.c loops that
\* return half-way, the updates of instr.h after V2P_SUCCESS).
Restartable ==
  [][phase = "returning" /\ phase' = "running" /\ Restarts(inst) => cpu' = goal]_vars

\* DAR and DSISR tell the handler enough: one that maps the page of DAR as
\* DSISR asks meets at most two faults per page and one for the floating-point
\* unit, so an instruction does not fault for ever unless the system keeps
\* taking pages away (set_dsi_info, access_page_tail).
FaultsBounded == faults <= 2 * Cardinality(Page) + 1

\* A single access that faults, also in its second page, has changed nothing
\* (but lswi has cleared its register), and a floating-point register is never
\* half loaded (mem.c 417-449, do_lf_common, do_psq_l).
AllOrNothing ==
  [][phase # "handler" /\ phase' = "handler" =>
       /\ Count(inst') = 1 => cpu'.mem = cpu.mem
       /\ Count(inst') = 1 /\ inst'.form # "lswi" /\ Restarts(inst') => cpu'.gpr = cpu.gpr
       /\ cpu'.fpr = cpu.fpr]_vars

\* A store writes no byte of a page that the guest may not write, whether it
\* completes, faults, or starts in a page that it may (access_page_tail).
WritesEntitled ==
  [][\A x \in Address :
       cpu'.mem[x] # cpu.mem[x] => Grants(rights[x \div PageSize], TRUE)]_vars

Loader == [store |-> "load", stmw |-> "lmw", stswi |-> "lswi"]
WholeRegisters(i) == (Count(i) * Unit(i)) % WordBytes = 0
Fits(i) == Count(i) * Unit(i) <= Space

\* What a store of whole registers puts into memory, the load of the same form
\* brings back, whatever order of bytes it uses (do_stmw and do_lmw, do_stswi
\* and do_lswi, the byte-reversed forms).
RoundTrips ==
  phase = "running" => \A i \in program.code :
    i.form \in DOMAIN Loader /\ ~i.update /\ WholeRegisters(i) /\ Fits(i) =>
      LET s == Completed(i, cpu, modes)
      IN Completed([i EXCEPT !.form = Loader[i.form]], s, modes) = s

\* The word of memory at i's address plus n, as lwz loads it into register q.
Lwz(i, q, n) ==
  [i EXCEPT !.form = "load", !.r = q, !.len = WordBytes, !.order = "zero",
            !.update = FALSE, !.indexed = FALSE,
            !.x = ((IF i.indexed THEN Num[cpu.gpr[i.x]] ELSE i.x) + n) % Space]

\* lmw loads each register as lwz would, and so does lswi, with zeros where its
\* last register is not full (do_lmw, do_lswi, do_basic_load).
MultiplesAreWords ==
  phase = "running" => \A i \in program.code :
    i.form \in {"lmw", "lswi"} =>
      LET loaded == Completed(i, cpu, modes).gpr
          regs == (Count(i) * Unit(i) + WordBytes - 1) \div WordBytes
      IN \A d \in 0 .. NRegs - 1 :
           LET q == (i.r + d) % NRegs
               word == Completed(Lwz(i, q, d * WordBytes), cpu, modes).gpr[q]
           IN loaded[q] = IF d >= regs THEN cpu.gpr[q]
                          ELSE [b \in 0 .. WordBytes - 1 |->
                                  IF d * WordBytes + b < Count(i) * Unit(i) THEN word[b] ELSE 0]

\* The forms of loadstore.c agree with each other, two by two.
FormsAgree == RoundTrips /\ MultiplesAreWords
=============================================================================
