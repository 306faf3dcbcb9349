----------------------------- MODULE DataCache ------------------------------
(***************************************************************************)
(* The data cache of src/cache.c: a direct-mapped, write-back, lockable    *)
(* cache in front of the embedder's bus, with the cache instructions of    *)
(* instr/cache.c that drive it, the snoop entry point by which another bus *)
(* master is made known, and the flush that the PERMISSIVE cache mode does *)
(* around exceptions.                                                      *)
(*                                                                         *)
(* A line of memory is named by its number (line_base >> 5); a line holds  *)
(* NWords granules, a granule being the part of the line that one access   *)
(* touches.  The program is single threaded here: every operation below    *)
(* runs to completion, bus hook calls included, before the next starts.    *)
(***************************************************************************)
EXTENDS Integers

CONSTANTS
  NLines,     \* lines of physical memory
  NSlots,     \* struct cache: line_count
  NWords,     \* granules in a line
  Values,     \* what a granule can hold
  Zero,       \* the granule dcbz writes
  Touched,    \* the lines that the program and the other masters use
  LowPower,   \* the low-power modes the program enters
  MaxSnoop    \* longest range reported to ppcemu_snoop, in granules

(***************************************************************************)
(* ppcemu_reset asks for 16 KiB of 32-byte lines, and physical memory is   *)
(* 4 GiB: the slot count divides the line count and is at least two, so    *)
(* the two lines of a split access never share a slot.                     *)
(***************************************************************************)
ASSUME GeometryAssumption ==
  /\ NSlots \in Nat /\ NSlots >= 2
  /\ NLines \in Nat /\ NLines >= NSlots /\ NLines % NSlots = 0
  /\ NWords \in Nat \ {0}
  /\ MaxSnoop \in Nat

ASSUME DataAssumption ==
  /\ Zero \in Values
  /\ Touched \subseteq 0 .. NLines - 1
  /\ LowPower \subseteq {"DOZE", "NAP", "SLEEP"}

Lines  == 0 .. NLines - 1
Slots  == 0 .. NSlots - 1
Words  == 0 .. NWords - 1
Data   == [Words -> Values]
ZeroLine == [w \in Words |-> Zero]

PowerStates == {"RUN", "DOZE", "NAP", "SLEEP"}
SnoopOps    == {"READ", "WRITE", "KILL"}

CacheLine == [tag : Lines, valid : BOOLEAN, dirty : BOOLEAN,
              locked : BOOLEAN, data : Data]

VARIABLES
  lines,    \* struct cache: the slots
  mem,      \* memory behind bus_hook
  reg,      \* what the last load returned; a single access zero-extends
  power,    \* state->power_state
  \* History variables, what the program may rely on:
  missed,   \* lines written on the bus while this cache held them
  expected, \* what the program should read from each line
  pending   \* lines written since memory was last asked to be up to date

history == <<missed, expected, pending>>
vars == <<lines, mem, reg, power, history>>

TypeOK ==
  /\ lines \in [Slots -> CacheLine]
  /\ mem \in [Lines -> Data]
  /\ reg \in Values \X Values
  /\ power \in PowerStates
  /\ missed \subseteq Lines
  /\ expected \in [Lines -> Data]
  /\ pending \subseteq Lines

-----------------------------------------------------------------------------
(* Line placement, for a cache c and the memory m behind it.               *)

Index(l) == l % NSlots              \* cache_index_for_line
NextLine(l) == (l + 1) % NLines     \* line_base + CACHE_LINE_SIZE, 32 bits

\* Mutant of Pinned: the locked bit is not looked at.
NeverPinned(c, l) == FALSE

Holds(c, l)  == c[Index(l)].valid /\ c[Index(l)].tag = l
Pinned(c, l) == c[Index(l)].valid /\ c[Index(l)].locked /\ c[Index(l)].tag # l

\* What the processor would read from line l.
View(c, m, l) == IF Holds(c, l) THEN c[Index(l)].data ELSE m[l]
Modified(c, l) == Holds(c, l) /\ c[Index(l)].dirty
Locked(c, l)   == Holds(c, l) /\ c[Index(l)].locked

\* cache_writeback_slot_if_needed, the effect on memory
Pushed(c, m, i) ==
  IF c[i].valid /\ c[i].dirty THEN [m EXCEPT ![c[i].tag] = c[i].data] ELSE m

\* Mutant of Fill: the victim is dropped unwritten.
FillNoPush(c, m, l) ==
  IF Holds(c, l) \/ Pinned(c, l) THEN [lines |-> c, mem |-> m]
  ELSE [lines |-> [c EXCEPT ![Index(l)] =
                     [tag |-> l, valid |-> TRUE, dirty |-> FALSE,
                      locked |-> FALSE, data |-> m[l]]],
        mem   |-> m]

(***************************************************************************)
(* cache_get_line: a hit and a pinned slot change nothing; a miss pushes   *)
(* the victim and reads the line from the bus.                             *)
(***************************************************************************)
Fill(c, m, l) ==
  IF Holds(c, l) \/ Pinned(c, l) THEN [lines |-> c, mem |-> m]
  ELSE LET m1 == Pushed(c, m, Index(l)) IN
       [lines |-> [c EXCEPT ![Index(l)] =
                     [tag |-> l, valid |-> TRUE, dirty |-> FALSE,
                      locked |-> FALSE, data |-> m1[l]]],
        mem   |-> m1]

\* The store half of ppcemu_dcache_store, once the line has been looked up.
Put(c, m, l, w, v) ==
  IF Holds(c, l)
  THEN [lines |-> [c EXCEPT ![Index(l)].data[w] = v, ![Index(l)].dirty = TRUE],
        mem   |-> m]
  ELSE [lines |-> c, mem |-> [m EXCEPT ![l][w] = v]]

\* ppcemu_dcache_zero_line: the line is taken over without reading the bus.
ZeroFill(c, m, l) ==
  IF Pinned(c, l) THEN [lines |-> c, mem |-> [m EXCEPT ![l] = ZeroLine]]
  ELSE [lines |-> [c EXCEPT ![Index(l)] =
                     [tag |-> l, valid |-> TRUE, dirty |-> TRUE,
                      locked |-> c[Index(l)].locked, data |-> ZeroLine]],
        mem   |-> IF Holds(c, l) THEN m ELSE Pushed(c, m, Index(l))]

\* ppcemu_dcache_zero_line_locked
ZeroLock(c, m, l) ==
  IF Pinned(c, l) THEN [lines |-> c, mem |-> m]
  ELSE [lines |-> [ZeroFill(c, m, l).lines EXCEPT ![Index(l)].locked = TRUE],
        mem   |-> ZeroFill(c, m, l).mem]

\* Mutant of Clean: the dirty bit is cleared but nothing is written.
CleanUnwritten(c, m, l) ==
  [lines |-> IF Holds(c, l) THEN [c EXCEPT ![Index(l)].dirty = FALSE] ELSE c,
   mem |-> m]

\* ppcemu_dcache_writeback_line
Clean(c, m, l) ==
  IF Modified(c, l)
  THEN [lines |-> [c EXCEPT ![Index(l)].dirty = FALSE],
        mem   |-> [m EXCEPT ![l] = c[Index(l)].data]]
  ELSE [lines |-> c, mem |-> m]

\* Mutant of Drop: the dirty bit survives.
DropKeepsDirty(c, l) ==
  IF Holds(c, l) THEN [c EXCEPT ![Index(l)].valid = FALSE, ![Index(l)].locked = FALSE]
  ELSE c

\* ppcemu_dcache_invalidate_line
Drop(c, l) ==
  IF Holds(c, l)
  THEN [c EXCEPT ![Index(l)].valid = FALSE, ![Index(l)].dirty = FALSE,
                 ![Index(l)].locked = FALSE]
  ELSE c

(***************************************************************************)
(* ppcemu_dcache_writeback_all walks the slots and tests only "dirty".     *)
(* Two slots never hold the same tag, so the walk order does not matter.   *)
(***************************************************************************)
PushedAll(c, m) ==
  [l \in Lines |->
     IF c[Index(l)].dirty /\ c[Index(l)].tag = l THEN c[Index(l)].data ELSE m[l]]

DroppedAll(c) ==                             \* ppcemu_cache_invalidate_all
  [i \in Slots |-> [c[i] EXCEPT !.valid = FALSE, !.dirty = FALSE,
                                !.locked = FALSE]]

-----------------------------------------------------------------------------
(* Snooping.  A range starts at granule address a and is n granules long.  *)

SpaceSize == NLines * NWords

\* Mutant of SnoopWalk: one byte too far.
SnoopWalkPast(a, n) ==
  LET first == a \div NWords
      last  == ((a + n) % SpaceSize) \div NWords
  IN {(first + i) % NLines : i \in 0 .. (last - first) % NLines}

\* The lines the loop of ppcemu_dcache_snoop visits.
SnoopWalk(a, n) ==
  LET first == a \div NWords
      last  == ((a + n - 1) % SpaceSize) \div NWords
  IN {(first + i) % NLines : i \in 0 .. (last - first) % NLines}

SnoopHits(c, S, l) == l \in S /\ Holds(c, l) /\ ~c[Index(l)].locked

SnoopedLines(c, S) ==
  [i \in Slots |-> IF c[i].valid /\ c[i].tag \in S /\ ~c[i].locked
                   THEN [c[i] EXCEPT !.valid = FALSE, !.dirty = FALSE]
                   ELSE c[i]]

SnoopedMem(c, m, op, S) ==
  [l \in Lines |-> IF op # "KILL" /\ SnoopHits(c, S, l) /\ c[Index(l)].dirty
                   THEN c[Index(l)].data ELSE m[l]]

-----------------------------------------------------------------------------
EmptySlot == [tag |-> 0, valid |-> FALSE, dirty |-> FALSE, locked |-> FALSE,
              data |-> ZeroLine]

Init ==
  /\ lines = [i \in Slots |-> EmptySlot]
  /\ mem = [l \in Lines |-> ZeroLine]
  /\ reg = <<Zero, Zero>>
  /\ power = "RUN"
  /\ missed = {}
  /\ expected = mem
  /\ pending = {}

(***************************************************************************)
(* The history after a step whose program-order effect is e and p: a line  *)
(* the cache has let go of is read from memory again, and a line that is   *)
(* no longer modified is no longer pending.                                *)
(***************************************************************************)
Record(e, p) ==
  /\ missed' = {l \in missed : Holds(lines', l)}
  /\ expected' = [l \in Lines |-> IF l \in missed \ missed' THEN mem'[l] ELSE e[l]]
  /\ pending' = {l \in p : Modified(lines', l)}

\* An operation of the running processor that ends in cache and memory s.
Does(s) == power = "RUN" /\ lines' = s.lines /\ mem' = s.mem /\ UNCHANGED power

-----------------------------------------------------------------------------
\* ppcemu_dcache_load within one line
Load(l, w) ==
  LET s == Fill(lines, mem, l) IN
  /\ Does(s)
  /\ reg' = <<View(s.lines, s.mem, l)[w], Zero>>
  /\ Record(expected, pending)

\* ppcemu_dcache_load across two lines: both are looked up before any copy
LoadSplit(l) ==
  LET n == NextLine(l)
      s1 == Fill(lines, mem, l)
      s2 == Fill(s1.lines, s1.mem, n)
  IN /\ Does(s2)
     /\ reg' = <<View(s2.lines, s2.mem, l)[NWords - 1],
                 View(s2.lines, s2.mem, n)[0]>>
     /\ Record(expected, pending)

\* dcbt: a load whose result is dropped
Dcbt(l) == Does(Fill(lines, mem, l)) /\ Record(expected, pending) /\ UNCHANGED reg

\* ppcemu_dcache_store within one line
Store(l, w, v) ==
  LET s == Fill(lines, mem, l) IN
  /\ Does(Put(s.lines, s.mem, l, w, v))
  /\ Record([expected EXCEPT ![l][w] = v], pending \cup {l})
  /\ UNCHANGED reg

\* ppcemu_dcache_store across two lines: both are looked up before any copy
StoreSplit(l, v1, v2) ==
  LET n  == NextLine(l)
      s1 == Fill(lines, mem, l)
      s2 == Fill(s1.lines, s1.mem, n)
      s3 == Put(s2.lines, s2.mem, l, NWords - 1, v1)
  IN /\ Does(Put(s3.lines, s3.mem, n, 0, v2))
     /\ Record([expected EXCEPT ![l][NWords - 1] = v1, ![n][0] = v2],
               pending \cup {l, n})
     /\ UNCHANGED reg

Dcbz(l) ==
  /\ Does(ZeroFill(lines, mem, l))
  /\ Record([expected EXCEPT ![l] = ZeroLine], pending \cup {l})
  /\ UNCHANGED reg

DcbzL(l) ==
  /\ Does(ZeroLock(lines, mem, l))
  /\ Record(IF Pinned(lines, l) THEN expected ELSE [expected EXCEPT ![l] = ZeroLine],
            pending \cup {l})
  /\ UNCHANGED reg

Dcbst(l) ==
  /\ Does(Clean(lines, mem, l))
  /\ Record(expected, pending \ {l})
  /\ UNCHANGED reg

\* ppcemu_dcache_writeback_invalidate_line
Dcbf(l) ==
  /\ Does([lines |-> Drop(lines, l), mem |-> Clean(lines, mem, l).mem])
  /\ Record(expected, pending \ {l})
  /\ UNCHANGED reg

Dcbi(l) ==
  /\ Does([lines |-> Drop(lines, l), mem |-> mem])
  /\ Record([expected EXCEPT ![l] = mem[l]], pending \ {l})
  /\ UNCHANGED reg

(***************************************************************************)
(* exception_fire and do_rfi in PERMISSIVE mode: write everything back,    *)
(* then invalidate everything.  An exception also wakes the processor.     *)
(***************************************************************************)
FlushAll ==
  /\ lines' = DroppedAll(lines)
  /\ mem' = PushedAll(lines, mem)
  /\ Record(expected, {})
  /\ power' = "RUN"
  /\ UNCHANGED reg

\* ppcemu_reset frees the caches and allocates empty ones.
Reset ==
  /\ lines' = [i \in Slots |-> EmptySlot]
  /\ power' = "RUN"
  /\ reg' = <<Zero, Zero>>
  /\ UNCHANGED mem
  /\ Record(mem, {})

\* An uncached load of the processor reads the bus.
UncachedLoad(l, w) ==
  /\ power = "RUN"
  /\ reg' = <<mem[l][w], Zero>>
  /\ UNCHANGED <<lines, mem, power, history>>

\* A write that does not pass this cache: another master's, or an uncached
\* store of the processor.
BusWrite(l, w, v) ==
  /\ mem' = [mem EXCEPT ![l][w] = v]
  /\ IF Holds(lines, l)
     THEN missed' = missed \cup {l} /\ UNCHANGED expected
     ELSE expected' = [expected EXCEPT ![l][w] = v] /\ UNCHANGED missed
  /\ UNCHANGED <<lines, reg, power, pending>>

\* ppcemu_snoop
Snoop(op, a, n) ==
  LET S == IF power \in {"NAP", "SLEEP"} \/ n = 0 THEN {} ELSE SnoopWalk(a, n)
      hit == {l \in S : SnoopHits(lines, S, l)}
  IN /\ lines' = SnoopedLines(lines, S)
     /\ mem' = SnoopedMem(lines, mem, op, S)
     /\ Record([l \in Lines |-> IF op = "KILL" /\ l \in hit THEN mem[l] ELSE expected[l]],
               pending \ hit)
     /\ UNCHANGED <<reg, power>>

\* check_power_state enters a low-power mode, an interrupt leaves it.
Sleep == /\ power = "RUN" /\ power' \in LowPower
         /\ UNCHANGED <<lines, mem, reg, history>>
Wake  == /\ power # "RUN" /\ power' = "RUN"
         /\ UNCHANGED <<lines, mem, reg, history>>

\* The ranges the other masters report lie inside the address space.
SnoopRange(a, n) == a + n <= SpaceSize

Next ==
  \/ \E l \in Touched, w \in Words : Load(l, w)
  \/ \E l \in Touched : NextLine(l) \in Touched /\ LoadSplit(l)
  \/ \E l \in Touched : Dcbt(l)
  \/ \E l \in Touched, w \in Words, v \in Values : Store(l, w, v)
  \/ \E l \in Touched, v1, v2 \in Values :
       NextLine(l) \in Touched /\ StoreSplit(l, v1, v2)
  \/ \E l \in Touched : Dcbz(l)
  \/ \E l \in Touched : DcbzL(l)
  \/ \E l \in Touched : Dcbst(l)
  \/ \E l \in Touched : Dcbf(l)
  \/ \E l \in Touched : Dcbi(l)
  \/ FlushAll
  \/ Reset
  \/ \E l \in Touched, w \in Words : UncachedLoad(l, w)
  \/ \E l \in Touched, w \in Words, v \in Values : BusWrite(l, w, v)
  \/ \E op \in SnoopOps, l \in Touched, w \in Words, n \in 0 .. MaxSnoop :
       SnoopRange(l * NWords + w, n) /\ Snoop(op, l * NWords + w, n)
  \/ Sleep
  \/ Wake

Spec == Init /\ [][Next]_vars

-----------------------------------------------------------------------------
(* Safety.                                                                 *)

(***************************************************************************)
(* A valid line sits in the one slot its address selects, and the dirty    *)
(* and locked bits are only set on valid lines.  writeback_all tests       *)
(* "dirty" without "valid", and zero_line keeps "locked" when it takes an  *)
(* invalid slot over: both rely on it.                                     *)
(***************************************************************************)
HomeSlot    == \A i \in Slots : lines[i].valid => Index(lines[i].tag) = i
DirtyValid  == \A i \in Slots : lines[i].dirty => lines[i].valid
LockedValid == \A i \in Slots : lines[i].locked => lines[i].valid
WellFormed  == HomeSlot /\ DirtyValid /\ LockedValid

(***************************************************************************)
(* The cache is transparent to the program: whatever was evicted, bypassed *)
(* or pushed in between, the processor reads from every line what it last  *)
(* wrote there (or what memory held when it gave its own data up).         *)
(***************************************************************************)
ProgramView ==
  \A l \in Lines \ missed : View(lines, mem, l) = expected[l]

(***************************************************************************)
(* Memory is up to date except where the program has written and has not   *)
(* asked for a write-back: what dcbst, dcbf, a snoop or a flush is for.    *)
(***************************************************************************)
MemoryView ==
  \A l \in Lines \ missed : l \notin pending => mem[l] = expected[l]

(***************************************************************************)
(* A line that is held clean equals memory unless another master wrote     *)
(* behind the cache's back; evicting it without a push is therefore safe.  *)
(***************************************************************************)
CleanMatchesMemory ==
  \A l \in Lines \ missed :
    Holds(lines, l) /\ ~Modified(lines, l) => View(lines, mem, l) = mem[l]

(***************************************************************************)
(* include/ppcemu/snoop.h: every line overlapping the range is snooped.  A *)
(* processor that snoops holds none of them afterwards but locked ones,    *)
(* and loses no line outside the range.                                    *)
(***************************************************************************)
Overlap(a, n) == {((a + i) % SpaceSize) \div NWords : i \in 0 .. n - 1}

SnoopExact ==
  \A a \in 0 .. SpaceSize - 1, n \in 1 .. SpaceSize :
    SnoopRange(a, n) =>
      \A l \in Lines : Holds(SnoopedLines(lines, SnoopWalk(a, n)), l) <=>
        Holds(lines, l) /\ (l \in Overlap(a, n) => Locked(lines, l))

-----------------------------------------------------------------------------
(* The cache implements the memory of CpuMemory.                           *)

Memory == INSTANCE CpuMemory WITH
  view     <- [l \in Lines |-> View(lines, mem, l)],
  modified <- {l \in Lines : Modified(lines, l)},
  pin      <- {l \in Lines : Locked(lines, l)}

ImplementsCpuMemory == Memory!Spec
=============================================================================
