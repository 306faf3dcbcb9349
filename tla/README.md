# A TLA+ model of libppcemu

libppcemu emulates the 32-bit PowerPC 750 family (750CXe, 750CL, Gekko,
Broadway, Espresso) inside a host program, the *embedder*.  The embedder owns
everything outside the processor: it provides a bus hook, calls
`ppcemu_step()` in a loop, drives the external interrupt line (possibly from
another thread) and reports the accesses of other bus masters with
`ppcemu_snoop()`.  This directory holds TLA+ modules translated from the C
sources, TLC configurations that check them on small instances, and TLAPS
proofs that hold for every size.

Paths such as `mem.c` are below `src/src/`, headers below `src/include/ppcemu/`.
The repository has no tests, so the comments of its headers are the only
statements of intent besides the code.

## Inventory

| Component | Code | State | Operations | Hard behaviour | What makes it correct |
|---|---|---|---|---|---|
| Data cache | `cache.c`, `instr/cache.c`, `snoop.h` | slots (tag, valid, dirty, locked, data) | load, store (one or two lines), dcbz, dcbz_l, dcbst, dcbf, dcbi, dcbt, flush-all, snoop, reset | victims, locked slots, split accesses, writes by other masters between two steps | no write of the program is lost or read stale; memory is up to date after a push; snoops touch exactly the overlapping lines |
| Instruction cache and fetch shortcut | `run.c` 34-72, `cache.c` 145-180, `mem.h` 98-100, icbi | I$ slots, `ifetch_*` | fetch, icbi, invalidate | the shortcut remembers a translation, a line and the MSR bits it was made under | a fetch through the shortcut returns what the long way would |
| Write-gather pipe | `mem.c` 380-415, 468-477, `instr/spr.c` WPAR | `wgp_buf`, `cur_wgp_idx`, WPAR, HID2[WPE] | gathered store, flush of 32 bytes, mtspr/mfspr WPAR | a store that straddles the end of the buffer; WPAR rewritten with bytes pending | the bursts are the bytes stored, in order, each once |
| Address translation | `mem.c` 40-327, `mem.h` 25-32 | BATs, SRs, SDR1, page table in memory, MSR[PR,IR,DR] | translate for fetch, load, store; set R and C | precedence of BATs, protection by key, C bit on the first store | the mapping and rights of the tables, R and C recorded |
| Micro-TLB | `tlb.h`, `mem.c` 175-221 | two arrays of 64 entries | lookup, insert, flush all, segment, page | an entry outlives what it was made from | a hit gives what a walk would give |
| Load and store | `mem.h` 40-96, `mem.c` 339-503, `instr/loadstore.c` | GPRs, reservation, DAR, DSISR | load, store, multiple and string forms, lwarx and stwcx. | two pages, one of which faults; multiple accesses of one instruction | a faulting access changes no memory and reports the right address |
| Run loop, time, interrupts, power | `run.c`, `exception.h`, `state.c` 229-233 | TB, DEC, `tb_remainder`, pending flags, power state, MSR, SRR1 | step, low-power step, assert and de-assert | the line changes between two reads in one step; sleep races with an interrupt | no interrupt is lost or taken while the handler cannot survive it; sleep always ends on the documented events |
| Exceptions and rfi | `exception.h`, `instr/branch.c` 27-57 | SRR0, SRR1, MSR, PC | fire, rfi | fault in the middle of an instruction, PERMISSIVE flush at the switch of translation | the interrupted program continues where it stopped |
| Life cycle and API | `init.c`, `state.c` | everything | init, reset, set_* | allocation failure in the middle of reset, setters that bypass flushes | a reset leaves the state init leaves |
| Special registers | `instr/spr.c`, `spr.c`, `spr.h` | `sprs[]`, `caps` | mtspr, mfspr per model | registers that other components cache | what depends on a register is flushed when it changes |
| Decoder | `decode.c`, `decode.h` | PC, `branched` | dispatch | handlers that report an exception and go on; an interrupt behind a branch, sc or rfi | PC advanced once, by the decoder or by the instruction |
| Integer, CR, branch instructions | `instr/arith.c`, `bitwise.c`, `cond.c`, `branch.c` | GPR, CR, XER, LR, CTR | about 100 instructions | carries, overflow, masks, rotates | the architecture's definition |
| Floating point, paired singles | `instr/floating_point.c`, `paired_singles.c`, `fp.h` | FPRs, `fpr_is_ps`, FPSCR, GQRs | about 90 instructions | host floating point, quantisation | IEEE arithmetic of the host |
| Real-time pacing | `state.c` 145-221 | `rt_epoch_*` | throttle, reseed | host clock | pacing never changes what the guest sees |
| Logging, byte order, capability bits | `log.h`, `endian.h`, `caps.h` | log levels | | | |

### Interactions

`ppcemu_step` fetches (translation, I$), decodes and executes (every other
component), advances time, looks at the interrupt line and at the decrementer,
and enters a low-power mode.  Loads and stores go through translation and the
micro-TLB to the data cache, the write-gather pipe or the bus.  The page-table
walk itself goes through the data cache.  `exception_fire` and `rfi` flush both
caches in the PERMISSIVE mode.  The only state two threads share by design is
`external_interrupt_pending`, a relaxed atomic; every other call is made by the
thread that steps, possibly from inside a bus hook.

## Modules

Every module is a translation of the C functions named in its comments;
`PROJECT.json` maps each definition to its lines.  An action is one whole
operation: one instruction's effect on the component, one call of the
embedder's, one access by another bus master.  All calls run to completion
before the next, except where a module says otherwise, because one thread
calls `ppcemu_step` and everything in it is sequential.

| Module | What it is |
|---|---|
| `DataCache` | the data cache with its instructions, snooping and flushes |
| `CpuMemory` | what `DataCache` promises: a memory, and lines whose writes it may hold back |
| `RunLoop` | `ppcemu_step` around the instruction, interrupts, clocks, low-power modes |
| `WriteGatherPipe` | the pipe's buffer, index, WPAR and HID2[WPE] |
| `GatherStream` | what `WriteGatherPipe` promises: a stream that leaves in full bursts |
| `Mmu` | translation by walking BATs, segments and page table at each access |
| `MicroTlb` | the same with the micro-TLB in front; `Mmu` is what it promises |
| `InstructionFetch` | the instruction cache and the fetch shortcut over `MicroTlb`, with all that empties or drops them |
| `ControlFlow` | PC, `branched`, LR, CTR, CR, MSR, SRR0 and SRR1 through branches, CR instructions, exceptions, rfi and nested handlers |
| `ProgramOrder` | what the same instructions do to a program that runs alone |
| `FloatRegisters` | the 64 bits and the tag of each floating-point register, and every instruction that writes them |
| `FloatFile` | what a floating-point register promises: a double, a pair or a word, whichever came last |
| `FloatNumbers` | a finite arithmetic with two precisions, for both |
| `Quantizer` | the tables, limits and conversions of psq_l and psq_st |
| `IntegerUnit` | the integer instructions, XER and the field they record, for words of any width |
| `LoadStore` | the load and store instructions over an access that can fault at any element |
| `Reservation` | lwarx and stwcx. in the loop of several tasks of the guest |
| `MC*` | constants of the small instances |
| `*Proofs` | theorems; `TranslationProofs` is about `MicroTlb` and `InstructionFetch`, `LoadStoreProofs` about `Reservation` too, `FloatRegistersProofs` about `Quantizer` too |

### DataCache

`lines` is `struct cache` with its slots, `mem` the memory behind the bus
hook, `power` is `power_state` (a snoop is ignored in NAP and SLEEP).  A line of
memory is a number and holds `NWords` granules, the part that one access
touches; a split access touches the last granule of one line and the first of
the next.  Operators with the shape `Fill(c, m, l)` stand for the functions of
`cache.c` and return the cache and the memory they leave; an action composes
them in the order the code calls them, so that a store that splits fills one
line, writes it, and only then fills the second.  The other state is history:
`expected` is what the program should read from each line, `pending` the lines
it has written and not asked to be pushed, `missed` the lines other masters
wrote behind the cache's back.

### RunLoop

`cpu` is the part of `struct _ppcemu_state` that a step works on: three bits of
MSR, SRR1, the three mode bits of HID0, TB, DEC, the remainder of the cycle
counter and the pending flag.  `line` is the atomic that any thread may change;
`ppcemu_step` reads it twice, so a step that executes an instruction is one
action up to the first read and, if that read leads on, a second from the
second read to the end, with changes of the line in between.  Instructions that
touch nothing here are `Plain`.  `asked`, `held`, `due`, `base` and `cycles`
are history: they say what the program did, against which the code's flags and
counters are checked.  `held` is the MSR of a context that the program still
needs in SRR1: put there by an exception, or by mtspr with interrupts masked,
until an rfi takes it up or the program enables interrupts.  `ContextKept` compares
the value with SRR1, so an interrupt that comes over it shows as one, wherever in
a step, in a handler or in a low-power mode it is taken.

### WriteGatherPipe

`buf`, `idx`, `wpar` and `wpe` are the fields of the state; `out` is the
sequence of writes that reached the bus and `stored` everything the program
stored to the pipe.  A byte carries the value and, for the proof that it goes
to its own line, the line it was stored to.  WPAR is a line with its low bits
clear or not: with a low bit set no store matches it, and mfspr returns that bit
ORed with whether bytes are pending.  `Careful` is the program that polls BNE, by
what mfspr returns, before it writes WPAR.  It cannot see the buffer, so that
`Delivered` holds for it is a claim about BNE as much as about the stores.

### Mmu and MicroTlb

An address is a page number, a page number is a segment and a page of it, and
the page table is an array of groups of slots; a virtual segment and a page of
it hash to a primary and a secondary group through the constant `Pteg`, about
which nothing is assumed.  `Walk` is `ppcemu_virt2phys_slow`: BATs in order,
the first that covers the page decides even when it denies the access, then
direct-store segments, then the two groups; `Marked` is the page table with the
R and C bits that the walk sets.  `tlb` holds the two arrays; `Resolve` and
`After` are one access through them, `AccessAcross` the access that goes on
into the next page, which translates both before it touches data.  `stale` is
history: the pages whose registers or entries changed without the flush that
the change calls for.  `Careful` says that the program makes no access to a
stale page, as software for the processor has to; the actions of the code that
ought to flush and do not (HID0, HID4, the setters of the embedder) make all
pages stale.

### InstructionFetch

The module EXTENDS `MicroTlb` and adds `icache`, the slots of the instruction
cache, and `ifetch`, the five `ifetch_*` fields.  A program counter is a page
and a block of 32 bytes in it, the part that the shortcut and a line share.
`Fetch` is `_ppcemu_fetch`: `FetchShort` when block and MSR bits are those of
last time and the slot still holds the line, `FetchLong` otherwise; a fetch that
fails raises ISI, which, like every exception and rfi that switches translation,
empties the cache in PERMISSIVE mode (`Emptied`).  `Registers` are the callers of
`ppcemu_ifetch_invalidate`.

`rewritten` is what the bus gives for the blocks of `Code` now; the bus and the
data cache behind it are external.  `seen` is history: the contents a block has
had since it was last invalidated.  The cache is not coherent, so a fetch may give
any of these and nothing older.  `FetchesRight` is that, and that the block is the
one that the tables name; `ShortcutEntitled` says that the shortcut skips nothing
that a walk would have done: no fault and no R bit.  The R bit is the subtle one:
the shortcut records nothing in the page table, and need not because the long way
that filled it did.  `ImplementsMmu` takes fetches, short or long, together with
loads and stores to the tables of `Mmu` (the run has loads, the theorem both).

### ControlFlow and ProgramOrder

`cpu` is the state an instruction moves through the program with; a step executes
one instruction (`Begin` to `End`, where the decoder adds 4 unless `branched`) and
may take an interrupt behind it.  `sc`, `tw` and faults enter a handler, which
saves SRR0, SRR1, LR, CTR and CR, uses them, may enable interrupts and be
interrupted, restores and returns; that code is the guest's and external (`Save`,
`Restore`), restricted only as the architecture restricts it: no second exception
before the first is saved.  `alone` is history and a specification at once: a
stack of contexts, each advanced by the operators of `ProgramOrder` as if its code
ran alone.  `RunsAsAlone` compares all of them with the registers and with what is
saved.  `ProgramOrder` is written from the instructions' meaning with sets of CR
bits, `ControlFlow` from the C code with shifts and masks on a number, so the two
agree only if the code does what is meant.

Left out: MSR[POW] (in `RunLoop`), caches (in `DataCache` and
`InstructionFetch`), reserved encodings (a hazard without a property).

### FloatRegisters, FloatFile, Quantizer

The C code keeps 64 bits and the tag `fpr_is_ps`.  Scalar instructions read
through the tag, pair instructions read the two words regardless.  A word of the
model is zero, a single, a half of a double, an integer or the status, so that bits
read in a format they were not written in give `Junk`.  Each step makes one
instruction of the code on `fpr` and the same instruction of `FloatFile` on `file`;
`ReadsAsPromised` compares everything that can be read.  `Careful` restricts pair
arithmetic to destinations that hold a pair, because otherwise the tag is wrong
(see the findings), and operands to those something is promised of.

Host arithmetic is replaced by the numbers of `FloatNumbers`, which wrap: any
function would do, because the question is where a result goes and in which
format, how often it is rounded, and which lane it came from.  `Quantizer` is exact: an integer of 16 bits
times a power of two is a single.  `QuantizedBack` checks for every type and the
scales at the ends of the tables that psq_l undoes psq_st, and that what does not
fit is cut at the nearer end.  Powers above 2^20, in `Power`, are not needed: what
is multiplied by more is zero or out of the range of every type.

### IntegerUnit

`cpu` holds the registers, three flags of XER and field 0 of CR.  All the
additions and subtractions of `arith.c` are one adder (`Sum`) with other inputs:
which operand is complemented, where the second one and the carry come from.  A
word is a number for arithmetic and the set of its bits for logic, by the tables
`Bits` and `Num`, so nothing of the model depends on the width.  `Power` has the
powers of two as a function, because the provers know nothing of `^`.  The properties
compare what the operators give for the words in the registers with arithmetic on
unbounded integers and with each other; a run reaches every pair of words.

### LoadStore

An instruction is a record: its form, registers, length, and what tells its
relatives apart (update, indexed, sign extension, byte order).  It makes `Count`
accesses of `Unit` bytes, and `Denied` says where one of them faults: at its
first byte, or, when it crosses into a page that denies it, at the start of that
page; `access_page_tail` translates both pages before a byte moves.  `Stop` is
the number of accesses before the first that faults, `Moved` what they leave in
registers and memory, `Based` what becomes of the base register, and `Attempt`
puts them in the order of the code behind the refusals (`Refusal`).

The handler of the guest is external: it knows DAR and DSISR only, maps the page
(`MapPage`), or lends the floating-point unit (`EnableFloat`), and returns to the
instruction (`Retry`); an alignment or program exception ends the instruction
(`GiveUp`).  The system may take a page or the unit away whenever the handler
runs or the program does.  `goal` is history: what the instruction would have
left had nothing been in its way when the program first came to it.
`Restartable` compares it with what the last attempt leaves, `FaultsBounded`
says the handler gets on, `WritesEntitled` that no byte of a page that is not
writable changes, `AllOrNothing` that instructions of one element change nothing
when they fault.

`Restarts` excepts two groups from `Restartable`.  lmw over its own base register
is forbidden by the architecture, and the code executes it.  The floating-point
forms with update assign the result of the access to the base register, which is
0 when it failed (`decode.c` 701-): a page fault in lfsu destroys its base.  That
disagrees with the architecture but with no sentence of this repository, so it is
a hazard in `PROJECT.json` and no finding.

Abstracted: the conversions between single and double (constants `ToDouble`,
`ToSingle` about which only their types are assumed), the quantised types of
psq_l and psq_st, the contents of DSISR after an alignment exception, and the
cause of a direct-store segment.

### Reservation

`reserve` is the one flag of the state; the code keeps no address, compares none,
and a snoop leaves the flag alone.  Tasks run the usual loop lwarx, add, stwcx.,
bne-, each round on a word of its choice, and the page may be missing or
read-only at any of them.  `Switch` is the system of the guest, which gives up
the reservation as software for this architecture has to; without that the flag
would serve two tasks.  `stored` and `overrun` are history: the task's store of
this round was made, a device wrote its word since the lwarx.  The latter is the
exception in `NoLostUpdate`, because the code cannot see it.  `budget` bounds
what the system and devices do unasked (`Interruptions`).

## Runs

All runs finish; what bounds them are the constants of their configurations,
there are no state constraints.

| Run | Bound | Question |
|---|---|---|
| `data_cache` | 4 lines, 2 slots, 1 granule, 2 values, all ranges of snoops up to 3 lines | is any write lost when lines compete for a slot, with locks, splits and snoops; does a snoop take exactly the lines of its range |
| `run_loop` | clock ratio 1, DEC of 2 bits, all MSR values, the three modes and a HID0 that selects two | are clocks, pending exceptions, contexts and wake events exact, do sleeps end |
| `gather_pipe` | buffer of 3, stores of 1 and 2, 2 values | does every byte reach its line in order and once, if the program moves the pipe when BNE reads clear |
| `gather_pipe_bne` | buffer of 4, stores up to 3, WPAR rewritten at any time | finding: BNE |
| `fetch` | 2 pages of 1 block in 1 way, 1 line, code that is page 1 in real mode and page 0 in the tables, 2 privileges, HID0, all setters, fetches and loads | is a fetch through shortcut, cache and micro-TLB what the tables and the last icbi entitle to; do they implement the walk |
| `float_registers` | 2 registers, 5 numbers of which 3 are singles, 8 scales | does every read get what was written, in its format; do integers survive psq_st and psq_l |
| `float_formats` | the same, pair arithmetic to any register | finding: the tag |
| `control_flow` | 3 addresses, CR of 2 fields of 2 bits, handlers 2 deep | does everything run as if alone |
| `integer_unit` | words of 4 bits, 2 registers, both carries | is every result, carry and overflow exact, do instructions that meet in XER fit together |
| `load_store` | 2 bytes of one bit in a word, 4 addresses in 2 pages, 3 general and 1 floating-point register; a program of 22 integer forms, one of byte orders that refuse, one of floating-point and one of paired-single forms | is an interrupted instruction as if it had not been, also when the unit is lent out, do handlers get on, is no register half loaded and no protected byte written |
| `reservation` | 2 tasks, 2 words of 3 values, 2 increments each, 4 interruptions | is no increment lost, is EQ the truth, do the loops end |
| `micro_tlb_cache_mode` | 2 pages | finding: cacheable bits that outlive what they were made from |

The interesting cases need two of a thing and one place to put it: two lines
and a slot, a store longer than what is left of the buffer, two pages and a way,
two segments with one virtual segment, a decrementer that wraps.  Each
configuration is the smallest with its case, and the theorems take over from
there: the safety properties of the passing runs are also proved for all
constants; the section on proofs lists what is not.  The type invariants
of the modules with proofs are among the theorems and not repeated in the runs, but
for `load_store` and `integer_unit`, where that a result fits is a claim about the
code's arithmetic.

Three cases are left to theorems alone, which hold for all sizes: stores under the
micro-TLB, with the C bits they set (`Refines`, `FetchRefines`); lines of several
granules, where the halves of a split access come from opposite ends of their lines
(`Implements` of `DataCacheProofs`, and `SnoopTakesOverlap` for ranges that
start or end inside a line), and BATs, several segments and page tables
of several groups under the micro-TLB (`HitsAlwaysAgree` and `Refines` of
`TranslationProofs`).  In `fetch` the micro-TLB, the tables and the registers are as
small as the question about the shortcut allows.

Pages, lines and virtual segments are interchangeable in the code but numbers in
the models (the successor of a page or line matters), so symmetry is not used.

### Fairness

`run_loop` has the condition `WF_vars(Step)`: the embedder calls
`ppcemu_step` in a loop, which is the contract of `run.h`.  Nothing is assumed
about the interrupt line; `LineWakes` gives up when the line is withdrawn or
interrupts are disabled.  `DozeEnds` depends on the decrementer alone; it has the
premise that the embedder stops writing registers, because one that sets DEC
again and again keeps the processor asleep.

`reservation` has weak fairness of the running task (the same contract), of the
handler that maps the page and of the switch between tasks; the last two are the
guest's system, not this code.  `AllMade` is about a loop that is interrupted a
bounded number of times: with interruptions for ever no such loop need end, on
the processor either.

### Findings

Each is a run that TLC ends with a counterexample.

* `gather_pipe_bne`: `mtspr` WPAR stores bit 0 as written, `mfspr` ORs the state
  of the buffer into it, so BNE can read as one with nothing pending, against
  `instr/spr.c` 338-339.
* `micro_tlb_cache_mode`: `ppcemu_set_cache_mode(DISABLED)` leaves micro-TLB
  entries with their cacheable bit; pages in use stay cached, against
  `types.h` 31.
* `float_formats`: `ps_set_u32` (`instr/paired_singles.c` 92) leaves `fpr_is_ps`
  alone, so pair arithmetic into a register that held a double leaves a pair that
  scalar instructions read as a double, against `instr/floating_point.c` 50, "ps0
  is accepted by DP instructions".  Loads, ps_mr and the merges do set it.

Clearing HID0[ICE] leaves the micro-TLB alone in the same way; `MtsprHid` makes
every page stale, so no property speaks of what a fetch does before the program
flushes.  That the bytes of the gather pipe leave in order when WPAR moves at any
time is the case `Careful = FALSE` of the theorem `Refines`.

## Proofs

All theorems hold for every value of the constants that satisfies the named
assumptions of the modules; nothing else is assumed.

* `DataCacheProofs`.  The invariant joins five parts: types; slots are well
  formed (a valid line is in its own slot, dirty or locked lines are valid); a
  clean line equals memory unless it is in `missed`; what the processor reads is
  `expected`; a modified line is `pending`.  None is inductive alone: that a
  victim's write-back does not disturb another line needs well-formedness, that a
  drop may forget a clean line needs the third.  Lemmas about `Fill`, `Put`,
  `ZeroFill`, `Clean` and `Drop` say what each leaves of another line.
  `SnoopTakesOverlap` needs no invariant: the addresses that `ppcemu_snoop` visits
  rise by one line, so one of them lies in a line exactly when the range does.
  `Implements` maps the cache to `CpuMemory`: what the processor sees and which
  lines hold back writes.  Each operation maps to a step of it or a stutter.
* `RunLoopProofs`.  The invariant adds to the checked properties that DEC's
  pending flag implies it ran out, that SRR1 never brings POW back, and the
  arithmetic of TB, DEC and remainder modulo their widths.  `ContextKept` is not
  inductive: from a state that holds a context with interrupts enabled the next step
  of the line would overwrite it.  `MaskedWhileHeld` excludes that state; it is kept
  because the only ways to enable interrupts are the program's own, and each read
  of EE, in `TakeInterrupt` and in the sleep, comes after the last write of MSR.
* `WriteGatherPipeProofs`.  The index stays inside the buffer, what is pending
  and sent is what was stored, each byte tagged with its line, for a program that
  polls BNE (its guard speaks of what mfspr returns, and that this tells about the
  index is a step of the proof); the refinement to `GatherStream` splits on the three cases of `do_wgp_store`.
* `TranslationProofs`, the micro-TLB.  The invariant says that an entry that hits on a page that
  is not stale gives what the walk gives and that the walk has no bit left to
  set (`Right`).  It is kept because setting R and C bits changes no translation
  (`GrowsWalk`), because what one walk finds stands for every later access that
  it entitles to (`WalkStands`), and because an entry depends on the registers
  and the page-table entry of its own page only (`SameWalk`).  `LeastIn`, that a
  non-empty set of places has a first one, goes through well-founded induction on
  subsets.  `Refines` has the premise `Careful`.

* `TranslationProofs`, instruction fetch.  The lemmas serve again: a fetch
  the long way is an access of the micro-TLB.  The invariant adds to theirs that a
  line of the cache holds its own block as it has been since the last icbi
  (`CacheInv`), and that the shortcut equals what a walk under its own key would
  give on every page that is not stale, R bit included (`ShortInv`).  The key may
  differ from MSR now, so the second part quantifies over the key, not over MSR;
  that makes it survive mtmsr, rfi and exceptions.  It survives R and C bits set by
  other accesses because they only grow.  `FetchRefines` needs `Careful`.

* `IntegerUnitProofs`.  Each instruction keeps SO and records an honest field
  (`Honest`), from which the theorems about SO and CR0 follow for every step but
  mtspr.  The other properties are about what the registers hold, and follow from
  `TypeCorrect`: that every instruction leaves words there.  Their lemmas hold for
  any two words.  Sums: the adder's inputs, read as signed and as unsigned numbers,
  add up to the exact result (`InputsExact`), and one adder serves all forms
  (`AdderExact`) but addme, which the code treats as a case of its own
  (`AddmeExact`).  Products and quotients: words that differ by multiples of
  the modulus have the same low word (`LowWord`), and divw's magnitudes give the
  signed quotient that rounds towards zero (`SignedQuotient`) unless there is none
  (`NoQuotient`).  Shifts and rotates go bit by bit: `BitsJoined` says which bits a
  high and a low part make, `BitsExist` that every set of bits is the bits of a word,
  so that `Num` undoes `Bits`, and from these come the bits of a shift, a rotation, a
  mask round the end and a logical operation.  Pairs: `WideSum`, `WideNegative`,
  `DividedTowardsZero` and `BorrowMask`, one for each sequence.  The assumptions
  are a width of at least four, immediates of half a word, rotates of amounts below the
  width, and that some operand names r0 and r1, whose contents the properties read.

* `LoadStoreProofs`.  Bytes are words of a number system here (`NumNat`,
  `AsWordWord`), and where an access goes is arithmetic on addresses and pages.
  `AttemptFacts` says how an attempt ends: complete, refused before anything
  moved, or stopped at the first access that is denied.  `WritesEntitled` and
  `AllOrNothing` follow from it and the types.  `Restartable` needs `GoalKept`: an
  interrupted instruction, attempted from here with nothing in its way, leaves
  `goal`; an attempt that stops keeps that because a second start reads only what the
  first has not changed (`Restarts`), stores move the same bytes again, and loads
  overwrite registers that they do not read.  `FaultsBounded` needs `Counted`: each
  exception since the system last took something away is paid for by a right that
  some page has gained (none, read, read and write) or by the unit, and a page gains
  at most twice.  That the handler always gains one is the claim about DAR and DSISR:
  the page that is reported is one that was denied, for the access that was denied.
  TLC checked both parts before they were proved.

* `LoadStoreProofs`, lwarx and stwcx.  The last section is about `Reservation`, whose names are
  other than those of `LoadStore`.  The invariant (`TasksInv`) adds two parts to the
  types.  `Rounds`: a task before its stwcx. has not stored in this round, and after
  it EQ says whether it has.  `Reserved`: when the flag is set, the running task is
  between lwarx and stwcx. and its register still equals the word, unless a device
  wrote it.  `NoLostUpdate` follows from the second.

* `FloatRegistersProofs`, the registers.  `ReadsAsPromised` is not inductive: a read
  that is right says nothing of the words that fmr, fneg, a merge or frsp copy or
  leave.  `Kept` does: the tag is set exactly for a pair, a double is its two
  halves, a pair is singles, a word is in the low half.  Only the second lane of a pair
  may be nothing, which is what frsp leaves; everything else that is promised is a
  number.  Each instruction writes one register, so one lemma (`Written`) asks only
  whether what it writes is kept.  That needs operands that are read as promised
  (`KeptReads`), results of the format (`CalcIs`, `LaneCalcIs`: nothing comes of
  nothing only), and that the sign bit is where fneg flips it in both formats
  (`SignedWordIs`).  Pair arithmetic leaves the tag, so it keeps the invariant only
  where a pair was: that is the premise `Careful`, and the run `float_formats` shows
  what happens without it.  The numbers, rounding, quotients and roots are any that
  satisfy `NumbersAssumption`: rounding is idempotent and does not look at the sign.
* `FloatRegistersProofs`, the quantizer.  `Requantized` is about any integer, any of
  the 64 scales and any type: a scale that divides has a multiple to divide when the
  type has the number (`WholeDown`), one that multiplies stays below the bound
  (`WholeUp`), and the cut keeps what is in range (`ClampIs`) and every sign
  (`WholeIs`).  `QuantizedBack` is that for the numbers in the lanes, which psq_st
  reads as they are by the invariant.

* `ControlFlowProofs`.  The first part is about numbers: `Weight` has the powers
  of 2, `BitsJoined` says which bits a quotient and a remainder have, and from it
  come what `cr_set_bit`, `cr_set_field`, `mcrf` and `mtcrf` do to the set of bits
  of CR, the latter by induction along the sum (`WeightedBits`).  The invariant
  (`Level`) says more than `RunsAsAlone`: as many contexts are saved as there are
  handlers below the top, or one fewer, and the one not saved is in SRR0, SRR1 and
  the registers that the handler has not touched.  Without the count an interrupt
  could overwrite SRR0 and SRR1 of a handler that still needs them.  An
  instruction that raises an exception cannot be interrupted in the same step,
  because `exception_fire` clears EE; one that does not may be.

Induction over data goes through sets: natural numbers are well founded
(`LeastNatural`), so a set that has 0 and with each number the next has them all
(`SetInduction`), and a recursive function has its equations because a sequence of
that many steps exists (`Iterated`).  That is how folds over bytes and bits are
proved.

Only model-checked: liveness (`DozeEnds`, `LineWakes`, `AllMade`), which like ENABLED
is outside of what the provers do, and the findings, which are counterexamples.
Every other property of a run is a theorem.

## Not modelled

The notes of `PROJECT.json`'s components say what and why.  In short:

* Real-time pacing and logging: host time and formatting; neither changes what the
  guest sees.
* FPSCR, the field that floating-point compares record, and the arithmetic of the
  host: what fadd returns is the host's business.
* The tables of the decoder and encodings with reserved bits.
* Special registers that nothing else depends on, and their presence per model.
* Allocations of `ppcemu_init` that fail.
* That the page-table walk reads through the data cache when HID0[DCE] is set.

## Plan

1. A composition of `Mmu`'s page table with `DataCache`, for the walk under
   HID0[DCE].
2. `LifeCycle`: init and reset with allocations that fail.
3. FPSCR and the fields of floating-point compares beside `FloatRegisters`.
